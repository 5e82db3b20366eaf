----------------------------- MODULE MCRunPost -----------------------------
(***************************************************************************)
(* Small instance of RunPost.                                              *)
(***************************************************************************)
EXTENDS RunPost

CONSTANTS w1, r1, r2

OneWait == {w1}
TwoRids == {r1, r2}
TwoParts == 1 .. 2
AllTasks == TwoParts \cup OneWait

=============================================================================
