----------------------------- MODULE MCApiKeys -----------------------------
(***************************************************************************)
(* Small instance of ApiKeys: two callees draw from two key ids and two    *)
(* secrets.  Texts that reach them have good and bad prefixes, empty and   *)
(* illegal pieces, the mask's dots, and a piece too many or too few.       *)
(***************************************************************************)
EXTENDS ApiKeys

TwoCallees == {"a", "b"}
TwoKeyIds  == {"k1", "k2"}
TwoSecrets == {"s1", "s2"}
Legal      == TwoCallees \cup TwoKeyIds \cup TwoSecrets \cup {"rpcp", "ck", "..."}

Fives ==
    {<<p, "ck", c, k, s>> : p \in {"rpcp", "ck"}, c \in TwoCallees \cup {"", "k1"},
                            k \in TwoKeyIds \cup {"?"}, s \in TwoSecrets \cup {"..."}}

SomeTexts ==
    Fives \cup {Append(t, "s1") : t \in Fives} \cup {SubSeq(t, 1, 4) : t \in Fives}

=============================================================================
