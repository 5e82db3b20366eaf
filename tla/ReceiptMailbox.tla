--------------------------- MODULE ReceiptMailbox ---------------------------
(***************************************************************************)
(* What wait_relay_predicate promises, without connections, futures,       *)
(* timers and tasks: a mailbox.  A receipt goes to the wait that asks for  *)
(* its request id, or into a box that keeps the newest receipt of each     *)
(* request id and, only when it is full, drops the oldest.  Nobody starts  *)
(* to wait for what is in the box, and only the one who waits, or a        *)
(* cleanup of everything, ends a wait without a receipt.                   *)
(***************************************************************************)
EXTENDS Naturals, Sequences, FiniteSets

CONSTANTS Rids, Waits, Blank, StashMax

VARIABLES
    log,        \* request ids of the receipts, in the order of publication
    stash,      \* the box
    asking,     \* the waits that can still be given a receipt
    wrid,       \* what each wait asked for
    val         \* the receipt each wait got (0: none)

mailVars == <<log, stash, asking, wrid, val>>

Init ==
    /\ log = <<>> /\ stash = {} /\ asking = {}
    /\ wrid = [w \in Waits |-> Blank]
    /\ val = [w \in Waits |-> 0]

Receipt == Len(log) + 1

Deliver(rid, w) ==
    /\ w \in asking /\ wrid[w] = rid
    /\ log' = Append(log, rid)
    /\ asking' = asking \ {w}
    /\ val' = [val EXCEPT ![w] = Receipt]
    /\ UNCHANGED <<stash, wrid>>

Keep(rid) ==
    LET fresh == {n \in stash : log[n] # rid} \cup {Receipt}
    IN  /\ \A w \in asking : wrid[w] # rid
        /\ log' = Append(log, rid)
        /\ stash' \subseteq fresh /\ Cardinality(stash') <= StashMax
        /\ stash' # fresh => Cardinality(stash') = StashMax
        /\ \A n \in fresh \ stash' : \A m \in stash' : n < m
        /\ UNCHANGED <<asking, wrid, val>>

Ask(w, rid) ==
    /\ w \notin asking /\ val[w] = 0
    /\ \A n \in stash : log[n] # rid
    /\ \A v \in asking : wrid[v] # rid
    /\ asking' = asking \cup {w}
    /\ wrid' = [wrid EXCEPT ![w] = rid]
    /\ UNCHANGED <<log, stash, val>>

Take(w, n) ==
    /\ w \notin asking /\ val[w] = 0 /\ n \in stash
    /\ stash' = stash \ {n}
    /\ wrid' = [wrid EXCEPT ![w] = log[n]]
    /\ val' = [val EXCEPT ![w] = n]
    /\ UNCHANGED <<log, asking>>

Withdraw(w) ==
    /\ w \in asking
    /\ asking' = asking \ {w}
    /\ UNCHANGED <<log, stash, wrid, val>>

Clear ==
    /\ stash' = {} /\ asking' = {}
    /\ UNCHANGED <<log, wrid, val>>

Next ==
    \/ \E r \in Rids : Keep(r) \/ \E w \in Waits : Deliver(r, w) \/ Ask(w, r)
    \/ \E w \in Waits : Withdraw(w) \/ \E n \in stash : Take(w, n)
    \/ Clear

Spec == Init /\ [][Next]_mailVars

=============================================================================
