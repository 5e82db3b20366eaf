-------------------------- MODULE RpcClientProofs --------------------------
(***************************************************************************)
(* Proofs about RpcClient for every set of calls, waits and request ids,   *)
(* every stash size and any number of connections.                         *)
(***************************************************************************)
EXTENDS RpcClient, TLAPS, SequenceTheorems, FiniteSetTheorems, WellFoundedInduction

(* The steps that leave calls, waits and the relay tables alone.           *)
Quiet ==
    \/ Connect \/ PeerCloses \/ RecvAckOnly \/ RecvBlankEnvelope
    \/ HandlingDone \/ ReplySent \/ CloseBegin \/ CloseRaises \/ CloseWs \/ CloseCancelled

(* The steps that end the reader or follow its end.                        *)
Cleaning ==
    \/ ReplyFails \/ HandlingRaises \/ RecvRaises
    \/ ReaderSeesClose \/ ReaderCancelled \/ CloseReaderDone \/ CloseUnconnected \/ CloseAgain
    \/ DisconnectWaitCancelled

(* Next by the effect of its steps on the tables.                          *)
LEMMA NextCases ==
    ASSUME Next
    PROVE  \/ Quiet
           \/ Cleaning
           \/ \E c \in Calls :
                 \/ RecvResponse(c) \/ CallRefused(c) \/ CallStart(c)
                 \/ CallSent(c) \/ CallSendFails(c) \/ CallSendCancelled(c) \/ CallResume(c)
           \/ \E r \in Rids : RecvEnvelope(r)
           \/ \E w \in Waits :
                 \/ \E n \in stash : WaitFromStash(w, n)
                 \/ \E r \in Rids : WaitRefused(w, r) \/ WaitStart(w, r)
                 \/ WaitBlank(w) \/ WaitResume(w)
           \/ \E t \in TimedTasks : TimerFires(t)
           \/ \E t \in Tasks : TaskCancel(t)
    BY DEF Next, Reader, Close, CallStep, WaitStep, Quiet, Cleaning

(* A quiet step leaves the tables, the relay and the tasks alone.          *)
LEMMA QuietFrame == Quiet => UNCHANGED <<callVars, relayVars, taskVars>>
    BY DEF Quiet, Connect, PeerCloses, RecvAckOnly, RecvBlankEnvelope,
           HandlingDone, ReplySent, CloseBegin, CloseRaises, CloseWs, CloseCancelled

(* A step that ends the reader, or close() itself, does the whole cleanup. *)
LEMMA CleaningCleans == Cleaning => Cleanup
    BY DEF Cleaning, ReplyFails, HandlingRaises, RecvRaises, ReaderFails,
           ReaderSeesClose, ReaderCancelled, CloseReaderDone, CloseUnconnected, CloseAgain,
           DisconnectWaitCancelled

(* Where the stash may go: it loses entries, or gains the new receipt.     *)
LEMMA StashedShape ==
    ASSUME NEW rid \in Rids
    PROVE  Stashed(rid) \subseteq stash
           \/ Stashed(rid) \subseteq {n \in stash : log[n] # rid} \cup {Receipt}
    BY DEF Stashed

(* What a new receipt does to the log.                                     *)
LEMMA LogGrows ==
    ASSUME log \in Seq(Rids), NEW rid \in Rids, log' = Append(log, rid)
    PROVE  /\ log' \in Seq(Rids)
           /\ Receipt \in Nat /\ Receipt # 0 /\ Receipt \notin DOMAIN log
           /\ DOMAIN log' = DOMAIN log \cup {Receipt}
           /\ \A n \in DOMAIN log : log'[n] = log[n] /\ n \in Nat /\ n < Receipt
           /\ log'[Receipt] = rid
<1>1. /\ log' \in Seq(Rids) /\ Len(log') = Len(log) + 1
      /\ \A i \in 1 .. Len(log) : log'[i] = log[i]
      /\ log'[Len(log) + 1] = rid
    BY AppendProperties
<1>2. /\ Len(log) \in Nat /\ DOMAIN log = 1 .. Len(log)
      /\ DOMAIN log' = 1 .. Len(log')
    BY <1>1, LenProperties
<1>3. 1 .. Len(log) + 1 = (1 .. Len(log)) \cup {Len(log) + 1}
    BY <1>2
<1> QED
    BY <1>1, <1>2, <1>3 DEF Receipt

-----------------------------------------------------------------------------
(***************************************************************************)
(* The tables: nobody sleeps unregistered, nobody is left registered.      *)
(***************************************************************************)
TableTypes ==
    /\ pc \in [Tasks -> Finished \cup {"idle", "sending", "waiting"}]
    /\ fut \in [Tasks -> {"none", "pending", "result", "cancelled"}]
    /\ interrupt \in [Tasks -> {"none", "timeout", "cancel"}]
    /\ pending \subseteq Calls
    /\ waiters \in [Rids -> Waits \cup {NoWait}]
    /\ wrid \in [Waits -> Rids \cup {Blank}]
    /\ val \in [Waits -> Nat]
    /\ log \in Seq(Rids)
    /\ stash \subseteq DOMAIN log
    /\ dropped \subseteq DOMAIN log

(* Where a wait is determines its future and its receipt.                  *)
WaitSound ==
    \A w \in Waits :
        /\ pc[w] = "idle" => fut[w] = "none" /\ val[w] = 0
        /\ pc[w] = "waiting" => /\ wrid[w] \in Rids /\ fut[w] # "none"
                                /\ val[w] # 0 <=> fut[w] = "result"
        /\ fut[w] = "pending" => pc[w] = "waiting"

Tables == TableTypes /\ NoLostWakeup /\ NoLeakedEntry /\ StashWaiterExclusive /\ WaitSound

(* The cleanup cancels what it takes out of the tables, so they stay       *)
(* sound.                                                                  *)
LEMMA CleanupTables ==
    ASSUME Tables, Cleanup PROVE Tables'
<1> USE DEF Tables, Tasks
<1>1. TableTypes'
    BY DEF TableTypes, Cleanup
<1>2. NoLostWakeup'
  <2>1. \A t \in Tasks : fut[t] = "pending" => Registered(t)
      BY DEF NoLostWakeup, WaitSound, Registered
  <2>2. \A t \in Tasks : fut'[t] # "pending"
      BY <2>1 DEF Cleanup
  <2> QED
      BY <2>2 DEF NoLostWakeup
<1>3. NoLeakedEntry' /\ StashWaiterExclusive'
    BY DEF Cleanup, NoLeakedEntry, StashWaiterExclusive
<1>4. WaitSound'
    BY TaskAssumption DEF TableTypes, Cleanup, WaitSound
<1> QED
    BY <1>1, <1>2, <1>3, <1>4

(* Publishing a receipt wakes the waiter it removes, or stashes it where   *)
(* no waiter is left.                                                      *)
LEMMA PublishTables ==
    ASSUME Tables, NEW rid \in Rids, RelayPublish(rid), UNCHANGED <<callVars, pc, interrupt>>
    PROVE  Tables'
<1> USE DEF Tables
<1>1. /\ log' \in Seq(Rids)
      /\ Receipt \in Nat /\ Receipt # 0 /\ Receipt \notin DOMAIN log
      /\ DOMAIN log' = DOMAIN log \cup {Receipt}
      /\ \A n \in DOMAIN log : log'[n] = log[n]
      /\ log'[Receipt] = rid
    BY LogGrows DEF TableTypes, RelayPublish
<1>2. waiters' = [waiters EXCEPT ![rid] = NoWait] /\ wrid' = wrid
    BY DEF RelayPublish
<1>3. Stashed(rid) \subseteq stash \cup {Receipt}
    BY StashedShape
<1>4. stash' \subseteq stash \cup {Receipt} /\ dropped' \subseteq dropped \cup stash \cup {Receipt}
    BY <1>3 DEF RelayPublish
<1>5. StashWaiterExclusive'
    BY <1>1, <1>2, <1>4 DEF StashWaiterExclusive, TableTypes
<1>6. CASE Wakes(rid)
  <2> DEFINE w == waiters[rid]
  <2>1. /\ w \in Waits /\ fut[w] = "pending" /\ wrid[w] = rid /\ pc[w] = "waiting"
        /\ fut' = [fut EXCEPT ![w] = "result"] /\ val' = [val EXCEPT ![w] = Receipt]
      BY <1>6 DEF Wakes, RelayPublish, TableTypes, NoLeakedEntry
  <2> HIDE DEF w
  <2>2. TableTypes'
      BY <1>1, <1>2, <1>4, <2>1 DEF TableTypes, callVars, Tasks
  <2>3. NoLostWakeup'
      BY <1>2, <2>1, TaskAssumption DEF NoLostWakeup, TableTypes, callVars, Tasks
  <2>4. NoLeakedEntry'
      BY <1>2, TaskAssumption DEF NoLeakedEntry, TableTypes, callVars
  <2>5. WaitSound'
      BY <1>1, <1>2, <2>1, TaskAssumption DEF WaitSound, TableTypes, Tasks
  <2> QED
      BY <1>5, <2>2, <2>3, <2>4, <2>5
<1>7. CASE ~Wakes(rid)
  <2>1. UNCHANGED <<fut, val>>
      BY <1>7 DEF RelayPublish
  <2>2. TableTypes'
      BY <1>1, <1>2, <1>4, <2>1 DEF TableTypes, callVars
  <2>3. NoLostWakeup'
    <3> SUFFICES ASSUME NEW w \in Waits, fut[w] = "pending" PROVE waiters'[wrid[w]] = w
        BY <1>2, <2>1 DEF NoLostWakeup, callVars
    <3>1. waiters[wrid[w]] = w /\ wrid[w] \in Rids
        BY DEF NoLostWakeup, WaitSound
    <3>2. wrid[w] # rid
        BY <1>7, <3>1, TaskAssumption DEF Wakes
    <3> QED
        BY <1>2, <3>1, <3>2 DEF TableTypes
  <2>4. NoLeakedEntry'
      BY <1>2 DEF NoLeakedEntry, TableTypes, callVars
  <2>5. WaitSound'
      BY <1>2, <2>1 DEF WaitSound
  <2> QED
      BY <1>5, <2>2, <2>3, <2>4, <2>5
<1> QED
    BY <1>6, <1>7

(* The tables of a new client are empty.                                   *)
LEMMA InitTables == Init => Tables
<1> SUFFICES ASSUME Init PROVE Tables
    OBVIOUS
<1>1. log \in Seq(Rids) /\ DOMAIN log = {}
    BY EmptySeq DEF Init
<1>2. TableTypes
    BY <1>1 DEF Init, TableTypes
<1> QED
    BY <1>2 DEF Init, Tables, NoLostWakeup, NoLeakedEntry, StashWaiterExclusive, WaitSound, Tasks

(* Every step of the client keeps the tables sound.                        *)
LEMMA NextTables == Tables /\ [Next]_vars => Tables'
<1> SUFFICES ASSUME Tables, [Next]_vars PROVE Tables'
    OBVIOUS
<1> USE TaskAssumption DEF Tables
<1>1. CASE UNCHANGED <<callVars, relayVars, taskVars>>
    BY <1>1 DEF callVars, relayVars, taskVars, TableTypes, NoLostWakeup, NoLeakedEntry,
                StashWaiterExclusive, WaitSound
<1>2. CASE Cleaning
    BY <1>2, CleaningCleans, CleanupTables
<1>3. ASSUME NEW c \in Calls, RecvResponse(c) PROVE Tables'
  <2>1. /\ pending' = pending \ {c}
        /\ fut' = [fut EXCEPT ![c] = IF @ = "pending" THEN "result" ELSE @]
        /\ UNCHANGED <<callConn, relayVars, pc, interrupt>>
      BY <1>3 DEF RecvResponse
  <2>2. /\ fut'[c] # "pending" /\ fut'[c] \in {"none", "pending", "result", "cancelled"}
        /\ \A t \in Tasks : t # c => fut'[t] = fut[t]
      BY <2>1 DEF TableTypes, Tasks
  <2>3. TableTypes'
      BY <2>1, <2>2 DEF TableTypes, relayVars, Tasks
  <2>4. NoLostWakeup' /\ WaitSound'
      BY <2>1, <2>2 DEF NoLostWakeup, WaitSound, relayVars, Tasks
  <2> QED
      BY <2>1, <2>3, <2>4 DEF NoLeakedEntry, StashWaiterExclusive, relayVars
<1>4. ASSUME NEW c \in Calls, CallRefused(c) \/ CallSent(c) PROVE Tables'
  <2>1. /\ \E x \in {"failed", "waiting"} : pc' = [pc EXCEPT ![c] = x]
        /\ pc[c] \in {"idle", "sending"}
        /\ pc[c] = "idle" => pc'[c] = "failed"
        /\ pc[c] = "sending" => pc'[c] = "waiting"
        /\ UNCHANGED <<callVars, relayVars, fut, interrupt>>
      BY <1>4 DEF CallRefused, CallSent, TableTypes, Tasks
  <2>2. TableTypes'
      BY <2>1 DEF TableTypes, callVars, relayVars, Tasks, Finished
  <2>3. /\ \A t \in Tasks : t # c => pc'[t] = pc[t]
      BY <2>1 DEF TableTypes
  <2>4. NoLeakedEntry' /\ WaitSound'
      BY <2>1, <2>3 DEF NoLeakedEntry, WaitSound, TableTypes, callVars, relayVars, Tasks
  <2> QED
      BY <2>1, <2>2, <2>4 DEF NoLostWakeup, StashWaiterExclusive, callVars, relayVars
<1>5. ASSUME NEW c \in Calls, CallStart(c) PROVE Tables'
  <2>1. /\ pc' = [pc EXCEPT ![c] = "sending"] /\ fut' = [fut EXCEPT ![c] = "pending"]
        /\ pending' = pending \cup {c} /\ callConn' = [callConn EXCEPT ![c] = conn]
        /\ UNCHANGED <<relayVars, interrupt>>
      BY <1>5 DEF CallStart
  <2>2. TableTypes'
      BY <2>1 DEF TableTypes, relayVars, Tasks
  <2>3. NoLeakedEntry' /\ WaitSound' /\ NoLostWakeup'
      BY <2>1 DEF NoLeakedEntry, WaitSound, NoLostWakeup, TableTypes, relayVars, Tasks
  <2> QED
      BY <2>1, <2>2, <2>3 DEF StashWaiterExclusive, relayVars
<1>6. ASSUME NEW c \in Calls, CallSendFails(c) \/ CallSendCancelled(c) \/ CallResume(c)
      PROVE  Tables'
  <2>1. /\ \/ pc' = [pc EXCEPT ![c] = "failed"]
           \/ pc' = [pc EXCEPT ![c] = "cancelled"]
           \/ pc' = [pc EXCEPT ![c] = Outcome(c)]
        /\ pending' = pending \ {c}
        /\ fut' = fut \/ fut' = [fut EXCEPT ![c] = "cancelled"]
        /\ fut'[c] # "pending"
        /\ UNCHANGED <<callConn, relayVars, interrupt>>
      BY <1>6 DEF CallSendFails, CallSendCancelled, CallResume, TableTypes, Tasks
  <2>2. Outcome(c) \in Finished
      BY DEF Outcome, Finished
  <2>3. TableTypes'
    <3>1. pc' \in [Tasks -> Finished \cup {"idle", "sending", "waiting"}]
        BY <2>1, <2>2 DEF TableTypes, Tasks, Finished
    <3>2. fut' \in [Tasks -> {"none", "pending", "result", "cancelled"}]
        BY <2>1 DEF TableTypes, Tasks
    <3> QED
        BY <2>1, <3>1, <3>2 DEF TableTypes, relayVars
  <2>4. \A t \in Tasks : t # c => pc'[t] = pc[t] /\ fut'[t] = fut[t]
      BY <2>1 DEF TableTypes
  <2>5. NoLeakedEntry' /\ WaitSound' /\ NoLostWakeup'
      BY <2>1, <2>4 DEF NoLeakedEntry, WaitSound, NoLostWakeup, TableTypes, relayVars, Tasks
  <2> QED
      BY <2>1, <2>3, <2>5 DEF StashWaiterExclusive, relayVars
<1>7. ASSUME NEW rid \in Rids, RecvEnvelope(rid) PROVE Tables'
    BY <1>7, PublishTables DEF RecvEnvelope
<1>8. ASSUME NEW w \in Waits, NEW n \in stash, WaitFromStash(w, n) PROVE Tables'
  <2>1. /\ pc[w] = "idle"
        /\ pc' = [pc EXCEPT ![w] = "returned"]
        /\ wrid' = [wrid EXCEPT ![w] = log[n]]
        /\ val' = [val EXCEPT ![w] = n]
        /\ stash' \subseteq stash
        /\ UNCHANGED <<callVars, waiters, log, dropped, fut, interrupt>>
      BY <1>8 DEF WaitFromStash
  <2>2. n \in Nat /\ log[n] \in Rids
      BY LenProperties, ElementOfSeq DEF TableTypes
  <2>3. TableTypes'
      BY <2>1, <2>2 DEF TableTypes, callVars, Tasks, Finished
  <2>4. NoLeakedEntry' /\ WaitSound' /\ NoLostWakeup'
      BY <2>1 DEF NoLeakedEntry, WaitSound, NoLostWakeup, TableTypes, callVars, Tasks
  <2> QED
      BY <2>1, <2>3, <2>4 DEF StashWaiterExclusive
<1>9. ASSUME NEW w \in Waits, NEW rid \in Rids, WaitRefused(w, rid) PROVE Tables'
  <2>1. /\ pc[w] = "idle" /\ pc' = [pc EXCEPT ![w] = "failed"]
        /\ UNCHANGED <<callVars, relayVars, fut, interrupt>>
      BY <1>9 DEF WaitRefused
  <2>2. TableTypes'
      BY <2>1 DEF TableTypes, callVars, relayVars, Finished
  <2>3. NoLeakedEntry' /\ WaitSound' /\ NoLostWakeup'
      BY <2>1 DEF NoLeakedEntry, WaitSound, NoLostWakeup, TableTypes, callVars, relayVars, Tasks
  <2> QED
      BY <2>1, <2>2, <2>3 DEF StashWaiterExclusive, relayVars
<1>10. ASSUME NEW w \in Waits, WaitBlank(w) PROVE Tables'
  <2>1. /\ pc[w] = "idle" /\ pc' = [pc EXCEPT ![w] = "failed"]
        /\ UNCHANGED <<callVars, relayVars, fut, interrupt>>
      BY <1>10 DEF WaitBlank
  <2>2. TableTypes'
      BY <2>1 DEF TableTypes, callVars, relayVars, Finished
  <2>3. NoLeakedEntry' /\ WaitSound' /\ NoLostWakeup'
      BY <2>1 DEF NoLeakedEntry, WaitSound, NoLostWakeup, TableTypes, callVars, relayVars, Tasks
  <2> QED
      BY <2>1, <2>2, <2>3 DEF StashWaiterExclusive, relayVars
<1>11. ASSUME NEW w \in Waits, NEW rid \in Rids, WaitStart(w, rid) PROVE Tables'
  <2>1. /\ pc[w] = "idle" /\ ~HasStashed(rid) /\ waiters[rid] = NoWait
        /\ pc' = [pc EXCEPT ![w] = "waiting"] /\ fut' = [fut EXCEPT ![w] = "pending"]
        /\ wrid' = [wrid EXCEPT ![w] = rid] /\ waiters' = [waiters EXCEPT ![rid] = w]
        /\ UNCHANGED <<callVars, val, stash, log, dropped, interrupt>>
      BY <1>11 DEF WaitStart
  <2>2. TableTypes'
      BY <2>1 DEF TableTypes, callVars, Tasks
  <2>3. NoLostWakeup'
      BY <2>1 DEF NoLostWakeup, WaitSound, TableTypes, callVars, Tasks
  <2>4. NoLeakedEntry'
      BY <2>1 DEF NoLeakedEntry, TableTypes, callVars, Tasks
  <2>5. WaitSound'
      BY <2>1 DEF WaitSound, TableTypes, Tasks
  <2>6. StashWaiterExclusive'
      BY <2>1 DEF StashWaiterExclusive, HasStashed, TableTypes
  <2> QED
      BY <2>2, <2>3, <2>4, <2>5, <2>6
<1>12. ASSUME NEW t \in Tasks, TimerFires(t) \/ TaskCancel(t) PROVE Tables'
  <2>1. /\ pc[t] = "waiting"
        /\ \E x \in {"timeout", "cancel"} : interrupt' = [interrupt EXCEPT ![t] = x]
        /\ fut' = [fut EXCEPT ![t] = IF @ = "pending" THEN "cancelled" ELSE @]
        /\ UNCHANGED <<callVars, relayVars, pc>>
      BY <1>12 DEF TimerFires, TaskCancel
  <2>2. TableTypes'
      BY <2>1 DEF TableTypes, callVars, relayVars
  <2>3. NoLostWakeup' /\ WaitSound'
      BY <2>1 DEF NoLostWakeup, WaitSound, TableTypes, callVars, relayVars, Tasks
  <2> QED
      BY <2>1, <2>2, <2>3 DEF NoLeakedEntry, StashWaiterExclusive, callVars, relayVars
<1>13. ASSUME NEW w \in Waits, WaitResume(w) PROVE Tables'
  <2>1. /\ pc[w] = "waiting" /\ fut[w] # "pending"
        /\ pc' = [pc EXCEPT ![w] = Outcome(w)]
        /\ waiters' = [r \in Rids |->
                          IF r = wrid[w] /\ waiters[r] = w THEN NoWait ELSE waiters[r]]
        /\ UNCHANGED <<callVars, wrid, val, stash, log, dropped, fut, interrupt>>
      BY <1>13 DEF WaitResume
  <2>2. Outcome(w) \in Finished /\ Outcome(w) # "idle" /\ Outcome(w) # "waiting"
      BY DEF Outcome, Finished
  <2>3. TableTypes'
      BY <2>1, <2>2 DEF TableTypes, callVars, Tasks
  <2>4. NoLostWakeup'
      BY <2>1 DEF NoLostWakeup, WaitSound, callVars
  <2>5. NoLeakedEntry'
      BY <2>1, <2>2 DEF NoLeakedEntry, TableTypes, callVars, Tasks
  <2>6. WaitSound'
      BY <2>1, <2>2 DEF WaitSound, TableTypes, Tasks
  <2>7. StashWaiterExclusive'
      BY <2>1 DEF StashWaiterExclusive, TableTypes
  <2> QED
      BY <2>3, <2>4, <2>5, <2>6, <2>7
<1>14. CASE UNCHANGED vars
    BY <1>1, <1>14 DEF vars
<1>15. CASE Quiet
    BY <1>1, <1>15, QuietFrame
<1> QED
    BY <1>2, <1>3, <1>4, <1>5, <1>6, <1>7, <1>8, <1>9, <1>10, <1>11, <1>12, <1>13, <1>14, <1>15,
       NextCases

(* Nobody awaits a future that nothing can resolve or cancel any more.     *)
THEOREM WakeupsAreNeverLost == Spec => []NoLostWakeup
<1>1. Tables => NoLostWakeup
    BY DEF Tables
<1> QED
    BY <1>1, InitTables, NextTables, PTL DEF Spec

(* Every way out of a call or a wait takes its entry out of the tables.    *)
THEOREM EntriesNeverLeak == Spec => []NoLeakedEntry
<1>1. Tables => NoLeakedEntry
    BY DEF Tables
<1> QED
    BY <1>1, InitTables, NextTables, PTL DEF Spec

(* No receipt is stashed for a request id that has a waiter.               *)
THEOREM NoWaiterBesideItsReceipt == Spec => []StashWaiterExclusive
<1>1. Tables => StashWaiterExclusive
    BY DEF Tables
<1> QED
    BY <1>1, InitTables, NextTables, PTL DEF Spec

-----------------------------------------------------------------------------
(***************************************************************************)
(* The connection: who may be waiting, in which state of reader and close. *)
(***************************************************************************)
ConnTypes ==
    /\ ws \in {"none", "open", "closed"}
    /\ conn \in Nat
    /\ reader \in ReaderAwaits \cup {"none", "ended", "failed"}
    /\ closing \in {"idle", "reader", "ws"}
    /\ closed \in {"none", "ok", "raised", "cancelled"}
    /\ callConn \in [Calls -> Nat]

(* How the socket, the reader task and close() go together.                *)
ConnSound ==
    /\ ws = "none" => reader = "none" /\ closing = "idle"
    /\ ws = "open" => reader # "none"
    /\ closing = "reader" => reader # "none"
    /\ closing = "ws" => reader = "none" /\ ws = "closed"

Connection == Tables /\ ConnTypes /\ ConnSound /\ AwaitsCurrentConnection

(* A new client has no connection and no reader.                           *)
LEMMA InitConnection == Init => Connection
    BY InitTables DEF Init, Connection, ConnTypes, ConnSound, AwaitsCurrentConnection, Tasks

(* After a cleanup no future is unresolved.                                *)
LEMMA CleanupResolvesAll ==
    ASSUME Tables, Cleanup PROVE \A t \in Tasks : fut'[t] # "pending"
<1>1. \A t \in Tasks : fut[t] = "pending" => Registered(t)
    BY DEF Tables, NoLostWakeup, WaitSound, Registered, Tasks
<1> QED
    BY <1>1 DEF Cleanup

(* Every step keeps calls tied to the current connection.                  *)
LEMMA NextConnection == Connection /\ [Next]_vars => Connection'
<1> SUFFICES ASSUME Connection, [Next]_vars PROVE Connection'
    OBVIOUS
<1>0. Tables'
    BY NextTables DEF Connection
<1> USE DEF Connection
<1>1. CASE Quiet
  <2>1. UNCHANGED <<callConn, pc, fut>>
      BY <1>1, QuietFrame DEF callVars, taskVars
  <2>2. ConnTypes'
      BY <1>1, <2>1 DEF Quiet, Connect, PeerCloses, RecvAckOnly, RecvBlankEnvelope, HandlingDone,
         ReplySent, CloseBegin, CloseRaises, CloseWs, CloseCancelled, connVars, ConnTypes, ReaderAwaits
  <2>3. ConnSound'
      BY <1>1 DEF Quiet, Connect, PeerCloses, RecvAckOnly, RecvBlankEnvelope, HandlingDone,
         ReplySent, CloseBegin, CloseRaises, CloseWs, CloseCancelled, connVars, ReaderRuns, ConnTypes, ConnSound,
         ReaderAwaits
  <2>4. AwaitsCurrentConnection'
      BY <1>1, <2>1 DEF Quiet, Connect, PeerCloses, RecvAckOnly, RecvBlankEnvelope, HandlingDone,
         ReplySent, CloseBegin, CloseRaises, CloseWs, CloseCancelled, connVars, ReaderRuns, ConnSound,
         AwaitsCurrentConnection, ReaderAwaits
  <2> QED
      BY <1>0, <2>2, <2>3, <2>4
<1>2. CASE Cleaning
  <2>1. /\ \A t \in Tasks : fut'[t] # "pending"
        /\ callConn' = callConn
      BY <1>2, CleaningCleans, CleanupResolvesAll DEF Cleanup
  <2>2. ConnTypes' /\ ConnSound'
      BY <1>2, <2>1 DEF Cleaning, ReplyFails, HandlingRaises, RecvRaises, ReaderFails,
         ReaderSeesClose, ReaderCancelled, CloseReaderDone, CloseUnconnected, CloseAgain,
         DisconnectWaitCancelled, connVars, ReaderRuns, ConnTypes,
         ConnSound, ReaderAwaits
  <2> QED
      BY <1>0, <2>1, <2>2 DEF AwaitsCurrentConnection, Tasks
<1>3. ASSUME UNCHANGED <<connVars, reader, callConn>>,
             \A c \in Calls : pc'[c] = "waiting" /\ fut'[c] = "pending"
                                => pc[c] = "waiting" /\ fut[c] = "pending"
      PROVE  Connection'
  <2>1. ConnTypes' /\ ConnSound'
      BY <1>3 DEF ConnTypes, ConnSound, connVars
  <2>2. AwaitsCurrentConnection'
      BY <1>3 DEF AwaitsCurrentConnection, connVars
  <2> QED
      BY <1>0, <2>1, <2>2
<1>t. pc \in [Tasks -> Finished \cup {"idle", "sending", "waiting"}]
      /\ fut \in [Tasks -> {"none", "pending", "result", "cancelled"}]
      /\ waiters \in [Rids -> Waits \cup {NoWait}]
    BY DEF Tables, TableTypes
<1>4. ASSUME NEW c \in Calls,
             \/ RecvResponse(c) \/ CallRefused(c)
             \/ CallSendFails(c) \/ CallSendCancelled(c) \/ CallResume(c)
      PROVE  Connection'
  <2>1. Outcome(c) # "waiting"
      BY DEF Outcome
  <2>2. \A d \in Calls : pc'[d] = "waiting" /\ fut'[d] = "pending"
                            => pc[d] = "waiting" /\ fut[d] = "pending"
      BY <1>4, <1>t, <2>1 DEF RecvResponse, CallRefused, CallSendFails, CallSendCancelled, CallResume, Tasks
  <2>3. UNCHANGED <<connVars, reader, callConn>>
      BY <1>4 DEF RecvResponse, CallRefused, CallSendFails, CallSendCancelled, CallResume, callVars
  <2> QED
      BY <1>3, <2>2, <2>3
<1>5. ASSUME NEW c \in Calls, CallStart(c) PROVE Connection'
  <2>1. ConnTypes' /\ ConnSound'
      BY <1>5 DEF CallStart, connVars, ConnTypes, ConnSound
  <2>2. \A d \in Calls : d # c => pc'[d] = pc[d] /\ fut'[d] = fut[d] /\ callConn'[d] = callConn[d]
      BY <1>5, <1>t DEF CallStart, ConnTypes, Tasks
  <2>3. pc'[c] = "sending" /\ UNCHANGED <<conn, reader, closing>>
      BY <1>5, <1>t DEF CallStart, Tasks, connVars
  <2> QED
      BY <1>0, <2>1, <2>2, <2>3 DEF AwaitsCurrentConnection
<1>6. ASSUME NEW c \in Calls, CallSent(c) PROVE Connection'
  <2>1. ConnTypes' /\ ConnSound'
      BY <1>6 DEF CallSent, connVars, callVars, ConnTypes, ConnSound
  <2>2. \A d \in Calls : d # c => pc'[d] = pc[d]
      BY <1>6, <1>t DEF CallSent, Tasks
  <2>3. callConn[c] = conn /\ ws = "open"
        /\ UNCHANGED <<conn, reader, closing, callConn, fut>>
      BY <1>6 DEF CallSent, connVars, callVars
  <2>4. reader # "none"
      BY <2>3 DEF ConnSound
  <2> QED
      BY <1>0, <2>1, <2>2, <2>3, <2>4 DEF AwaitsCurrentConnection
<1>7. ASSUME NEW r \in Rids, RecvEnvelope(r) PROVE Connection'
  <2>1. /\ reader = "recv" /\ reader' = "handling" /\ UNCHANGED <<connVars, callConn, pc>>
      BY <1>7 DEF RecvEnvelope, ReaderRuns, callVars
  <2>2. ConnTypes' /\ ConnSound'
      BY <2>1 DEF ConnTypes, ConnSound, connVars, ReaderAwaits
  <2>3. \A c \in Calls : fut'[c] = fut[c]
    <3>1. CASE Wakes(r)
      <4>1. waiters[r] \in Waits /\ fut' = [fut EXCEPT ![waiters[r]] = "result"]
          BY <1>7, <1>t, <3>1 DEF Wakes, RecvEnvelope, RelayPublish
      <4> QED
          BY <1>t, <4>1, TaskAssumption DEF Tasks
    <3>2. CASE ~Wakes(r)
        BY <1>7, <3>2 DEF RecvEnvelope, RelayPublish
    <3> QED
        BY <3>1, <3>2
  <2>4. AwaitsCurrentConnection'
      BY <2>1, <2>3 DEF AwaitsCurrentConnection, connVars, ReaderAwaits
  <2> QED
      BY <1>0, <2>2, <2>4
<1>8. ASSUME NEW w \in Waits,
             \/ \E n \in stash : WaitFromStash(w, n)
             \/ \E r \in Rids : WaitRefused(w, r) \/ WaitStart(w, r)
             \/ WaitBlank(w) \/ WaitResume(w)
      PROVE  Connection'
  <2>1. UNCHANGED <<connVars, reader, callConn>>
      BY <1>8 DEF WaitFromStash, WaitRefused, WaitStart, WaitBlank, WaitResume, callVars
  <2>2. \A c \in Calls : pc'[c] = pc[c] /\ fut'[c] = fut[c]
      BY <1>8, <1>t, TaskAssumption DEF WaitFromStash, WaitRefused, WaitStart, WaitBlank,
         WaitResume, Tasks
  <2> QED
      BY <1>3, <2>1, <2>2
<1>9. ASSUME NEW t \in Tasks, TimerFires(t) \/ TaskCancel(t) PROVE Connection'
  <2>1. UNCHANGED <<connVars, reader, callConn, pc>>
      BY <1>9 DEF TimerFires, TaskCancel, callVars
  <2>2. \A c \in Calls : fut'[c] = "pending" => fut[c] = "pending"
      BY <1>9, <1>t DEF TimerFires, TaskCancel, Tasks
  <2> QED
      BY <1>3, <2>1, <2>2
<1>10. CASE UNCHANGED vars
    BY <1>3, <1>10 DEF vars, callVars, taskVars
<1> QED
    BY <1>1, <1>2, <1>4, <1>5, <1>6, <1>7, <1>8, <1>9, <1>10, NextCases, TaskAssumption

(* The client's state keeps its type.                                      *)
THEOREM TypeCorrect == Spec => []TypeOK
<1>1. Connection => TypeOK
    BY DEF Connection, Tables, TableTypes, ConnTypes, ConnSound, TypeOK
<1> QED
    BY <1>1, InitConnection, NextConnection, PTL DEF Spec

(* No call of an earlier connection is left waiting, and none once close() *)
(* has forgotten the reader.                                               *)
THEOREM CallsAwaitTheCurrentConnection == Spec => []AwaitsCurrentConnection
<1>1. Connection => AwaitsCurrentConnection
    BY DEF Connection
<1> QED
    BY <1>1, InitConnection, NextConnection, PTL DEF Spec

-----------------------------------------------------------------------------
(***************************************************************************)
(* Receipts: who has one, and none is lost.                                *)
(***************************************************************************)

(* The smallest element of a set of receipts is one of them.               *)
LEMMA MinIsLeast ==
    ASSUME NEW S, S \subseteq Nat, S # {}
    PROVE  Min(S) \in S /\ \A y \in S : Min(S) <= y
<1> DEFINE R == OpToRel(<, Nat)
<1>1. IsWellFoundedOn(R, Nat)
    BY NatLessThanWellFounded
<1>2. PICK x \in S : \A y \in S : ~(<<y, x>> \in R)
    BY <1>1, WFMin
<1>3. \A y \in S : <<y, x>> \in R <=> y < x
    BY DEF OpToRel
<1> HIDE DEF R
<1>4. \A y \in S : ~(y < x)
    BY <1>2, <1>3
<1>5. \A y \in S : x <= y
    BY <1>4
<1> QED
    BY <1>5 DEF Min

(* The published receipts are finitely many, numbered from 1.              *)
LEMMA LogDomain ==
    ASSUME log \in Seq(Rids)
    PROVE  DOMAIN log \subseteq Nat \ {0} /\ IsFiniteSet(DOMAIN log)
<1>1. Len(log) \in Nat /\ DOMAIN log = 1 .. Len(log)
    BY LenProperties
<1>2. IsFiniteSet(1 .. Len(log))
    BY <1>1, FS_Interval
<1>3. \A n \in 1 .. Len(log) : n \in Nat /\ n # 0
    BY <1>1
<1> QED
    BY <1>1, <1>2, <1>3

(* The eviction keeps the stash within its bound.                          *)
LEMMA StashedBounded ==
    ASSUME log \in Seq(Rids), stash \subseteq DOMAIN log, NEW rid \in Rids,
           Cardinality(stash) <= StashMax
    PROVE  Cardinality(Stashed(rid)) <= StashMax
<1> DEFINE old == {n \in stash : log[n] # rid}
           kept == old \cup {Receipt}
<1>1. IsFiniteSet(stash) /\ stash \subseteq Nat /\ Receipt \in Nat
    BY LogDomain, FS_Subset, LenProperties DEF Receipt
<1>2. IsFiniteSet(old) /\ Cardinality(old) <= Cardinality(stash)
    BY <1>1, FS_Subset
<1>3. Cardinality(old) \in Nat /\ Cardinality(stash) \in Nat
    BY <1>1, <1>2, FS_CardinalityType
<1>4. IsFiniteSet(kept) /\ Cardinality(kept) <= Cardinality(old) + 1 /\ Cardinality(kept) \in Nat
  <2> HIDE DEF old
  <2>1. /\ IsFiniteSet(kept)
        /\ Cardinality(kept) = IF Receipt \in old THEN Cardinality(old) ELSE Cardinality(old) + 1
      BY <1>2, FS_AddElement
  <2> HIDE DEF kept
  <2> QED
      BY <1>3, <2>1
<1>5. Min(kept) \in kept
  <2>1. kept \subseteq Nat /\ kept # {}
      BY <1>1
  <2> QED
      BY <2>1, MinIsLeast
<1> HIDE DEF kept
<1>6. Cardinality(kept \ {Min(kept)}) = Cardinality(kept) - 1
    BY <1>4, <1>5, FS_RemoveElement
<1>7. Stashed(rid) = IF StashMax = 0 THEN stash
                     ELSE IF Cardinality(kept) > StashMax THEN kept \ {Min(kept)}
                     ELSE kept
    BY DEF Stashed, kept
<1>8. StashMax \in Nat
    BY StashMaxAssumption
<1>9. CASE StashMax = 0
    BY <1>7, <1>9
<1>10. CASE StashMax # 0 /\ Cardinality(kept) > StashMax
  <2>1. Stashed(rid) = kept \ {Min(kept)}
      BY <1>7, <1>10
  <2> QED
      BY <1>2, <1>3, <1>4, <1>6, <1>8, <2>1
<1>11. CASE StashMax # 0 /\ ~(Cardinality(kept) > StashMax)
  <2>1. Stashed(rid) = kept
      BY <1>7, <1>11
  <2> QED
      BY <1>4, <1>8, <1>11, <2>1
<1> QED
    BY <1>9, <1>10, <1>11

(* A wait that has not been interrupted yet, and one that timed out.       *)
InterruptSound ==
    \A w \in Waits :
        /\ pc[w] = "idle" \/ fut[w] = "pending" => interrupt[w] = "none"
        /\ ~LateTimers /\ interrupt[w] = "timeout" => val[w] = 0

Receipts ==
    /\ Tables /\ StashSound /\ ReceiptExclusive /\ InterruptSound
    /\ ~LateTimers => ReceiptAccounted

(* Before the first envelope there is no receipt.                          *)
LEMMA InitReceipts == Init => Receipts
<1> SUFFICES ASSUME Init PROVE Receipts
    OBVIOUS
<1>1. DOMAIN log = {}
    BY EmptySeq DEF Init
<1>2. StashSound
    BY <1>1, FS_EmptySet, StashMaxAssumption DEF Init, StashSound
<1>3. ReceiptExclusive /\ InterruptSound /\ ReceiptAccounted
    BY <1>1 DEF Init, ReceiptExclusive, InterruptSound, ReceiptAccounted, Tasks
<1> QED
    BY <1>2, <1>3, InitTables DEF Receipts

(* The cleanup drops the whole stash and touches no receipt that a wait    *)
(* has.                                                                    *)
LEMMA CleanupReceipts ==
    ASSUME Receipts, Cleanup, Tables' PROVE Receipts'
<1> USE DEF Receipts
<1>1. StashSound'
    BY FS_EmptySet, StashMaxAssumption DEF Cleanup, StashSound
<1>2. ReceiptExclusive'
    BY DEF Cleanup, ReceiptExclusive
<1>3. InterruptSound'
    BY DEF Cleanup, InterruptSound, Tasks
<1>4. ~LateTimers => ReceiptAccounted'
    BY DEF Cleanup, ReceiptAccounted
<1> QED
    BY <1>1, <1>2, <1>3, <1>4, LateTimersAssumption

(* A published receipt goes to one wait or to the stash, and what it       *)
(* displaces is dropped.                                                   *)
LEMMA PublishReceipts ==
    ASSUME Receipts, NEW rid \in Rids, RelayPublish(rid),
           UNCHANGED <<callVars, pc, interrupt>>, Tables'
    PROVE  Receipts'
<1> USE DEF Receipts
<1>t. TableTypes /\ TableTypes'
    BY DEF Tables
<1>1. /\ Receipt \in Nat /\ Receipt # 0 /\ Receipt \notin DOMAIN log
      /\ DOMAIN log' = DOMAIN log \cup {Receipt}
      /\ \A n \in DOMAIN log : log'[n] = log[n] /\ n \in Nat /\ n < Receipt
      /\ log'[Receipt] = rid
    BY <1>t, LogGrows DEF TableTypes, RelayPublish
<1>2. stash \subseteq DOMAIN log /\ 0 \notin DOMAIN log
    BY <1>t, LogDomain DEF TableTypes
<1>3. CASE Wakes(rid)
  <2> DEFINE w == waiters[rid]
  <2>1. /\ w \in Waits /\ fut[w] = "pending" /\ wrid[w] = rid /\ pc[w] = "waiting"
        /\ fut' = [fut EXCEPT ![w] = "result"] /\ val' = [val EXCEPT ![w] = Receipt]
        /\ UNCHANGED <<stash, dropped, wrid>>
      BY <1>t, <1>3 DEF Wakes, RelayPublish, Tables, TableTypes, NoLeakedEntry
  <2>2. val[w] = 0 /\ waiters[rid] # NoWait /\ interrupt[w] = "none"
      BY <1>3, <2>1 DEF Tables, WaitSound, Wakes, InterruptSound
  <2>3. \A n \in stash : log[n] # rid
      BY <2>2 DEF Tables, StashWaiterExclusive
  <2> HIDE DEF w
  <2>4. /\ val'[w] = Receipt /\ \A v \in Waits : v # w => val'[v] = val[v] /\ fut'[v] = fut[v]
        /\ fut'[w] = "result"
      BY <1>t, <2>1 DEF TableTypes, Tasks
  <2>5. StashSound'
      BY <1>1, <1>2, <2>1, <2>3 DEF StashSound
  <2>6. ReceiptExclusive'
    <3> SUFFICES ASSUME NEW v \in Waits, val'[v] # 0
                 PROVE  /\ val'[v] \in DOMAIN log' /\ log'[val'[v]] = wrid[v]
                        /\ val'[v] \notin stash
                        /\ \A u \in Waits : val'[u] = val'[v] => u = v
        BY <2>1 DEF ReceiptExclusive
    <3>1. CASE v = w
        BY <1>1, <1>2, <2>1, <2>2, <2>4, <3>1 DEF ReceiptExclusive
    <3>2. CASE v # w
        BY <1>1, <1>2, <2>1, <2>2, <2>4, <3>2 DEF ReceiptExclusive
    <3> QED
        BY <3>1, <3>2
  <2>7. InterruptSound'
      BY <2>1, <2>2, <2>4 DEF InterruptSound
  <2>8. ASSUME ~LateTimers PROVE ReceiptAccounted'
    <3> SUFFICES ASSUME NEW n \in DOMAIN log'
                 PROVE  \/ n \in stash \/ n \in dropped
                        \/ \E v \in Waits : /\ val'[v] = n
                                            /\ \/ pc[v] \in {"waiting", "returned"}
                                               \/ interrupt[v] = "cancel"
        BY <2>1 DEF ReceiptAccounted
    <3>1. CASE n = Receipt
        BY <2>1, <2>4, <3>1
    <3>2. CASE n \in DOMAIN log
        BY <1>2, <2>2, <2>4, <2>8, <3>2 DEF ReceiptAccounted
    <3> QED
        BY <1>1, <3>1, <3>2
  <2> QED
      BY <2>5, <2>6, <2>7, <2>8, LateTimersAssumption
<1>4. CASE ~Wakes(rid)
  <2>1. /\ stash' = Stashed(rid)
        /\ dropped' = dropped \cup ((stash \cup {Receipt}) \ Stashed(rid))
        /\ UNCHANGED <<fut, val, wrid>>
      BY <1>4 DEF RelayPublish
  <2>2. \/ StashMax = 0 /\ Stashed(rid) = stash
        \/ Stashed(rid) \subseteq {n \in stash : log[n] # rid} \cup {Receipt}
      BY DEF Stashed
  <2>3. Cardinality(Stashed(rid)) <= StashMax
      BY <1>t, StashedBounded DEF StashSound, TableTypes
  <2>4. StashMax = 0 => stash = {}
    <3>1. IsFiniteSet(stash) /\ Cardinality(stash) \in Nat
        BY <1>t, LogDomain, FS_Subset, FS_CardinalityType DEF TableTypes
    <3>2. StashMax = 0 => Cardinality(stash) = 0
        BY <3>1 DEF StashSound
    <3> QED
        BY <3>1, <3>2, FS_EmptySet
  <2>5. \A n \in stash' : n = Receipt \/ (n \in stash /\ log[n] # rid)
      BY <2>1, <2>2, <2>4
  <2>6. \A n \in stash' : \A m \in DOMAIN log' : log'[m] = log'[n] => m <= n
    <3> SUFFICES ASSUME NEW n \in stash', NEW m \in DOMAIN log', log'[m] = log'[n]
                 PROVE  m <= n
        OBVIOUS
    <3>1. CASE n = Receipt
        BY <1>1, <3>1
    <3>2. CASE n \in stash /\ log[n] # rid
        BY <1>1, <1>2, <3>2 DEF StashSound
    <3> QED
        BY <2>5, <3>1, <3>2
  <2>7. StashSound'
      BY <2>1, <2>3, <2>6 DEF StashSound
  <2>8. ReceiptExclusive'
      BY <1>1, <2>1, <2>5 DEF ReceiptExclusive
  <2>9. InterruptSound'
      BY <2>1 DEF InterruptSound
  <2>10. ~LateTimers => ReceiptAccounted'
      BY <1>1, <2>1 DEF ReceiptAccounted
  <2> QED
      BY <2>7, <2>8, <2>9, <2>10, LateTimersAssumption
<1> QED
    BY <1>3, <1>4

(* Every step keeps the account of the receipts.                           *)
LEMMA NextReceipts == Receipts /\ [Next]_vars => Receipts'
<1> SUFFICES ASSUME Receipts, [Next]_vars PROVE Receipts'
    OBVIOUS
<1>0. Tables'
    BY NextTables DEF Receipts
<1> USE DEF Receipts
<1>t. /\ pc \in [Tasks -> Finished \cup {"idle", "sending", "waiting"}]
      /\ fut \in [Tasks -> {"none", "pending", "result", "cancelled"}]
      /\ interrupt \in [Tasks -> {"none", "timeout", "cancel"}]
      /\ val \in [Waits -> Nat] /\ wrid \in [Waits -> Rids \cup {Blank}]
      /\ stash \subseteq DOMAIN log /\ log \in Seq(Rids)
    BY DEF Tables, TableTypes
<1>1. ASSUME UNCHANGED relayVars,
             \A w \in Waits : pc'[w] = pc[w] /\ fut'[w] = fut[w] /\ interrupt'[w] = interrupt[w]
      PROVE  Receipts'
  <2>1. StashSound' /\ ReceiptExclusive'
      BY <1>1 DEF relayVars, StashSound, ReceiptExclusive
  <2>2. InterruptSound'
      BY <1>1 DEF relayVars, InterruptSound
  <2>3. ~LateTimers => ReceiptAccounted'
      BY <1>1 DEF relayVars, ReceiptAccounted
  <2> QED
      BY <1>0, <2>1, <2>2, <2>3, LateTimersAssumption
<1>2. CASE Quiet
    BY <1>1, <1>2, QuietFrame DEF taskVars
<1>3. CASE Cleaning
    BY <1>0, <1>3, CleaningCleans, CleanupReceipts
<1>4. ASSUME NEW c \in Calls,
             \/ RecvResponse(c) \/ CallRefused(c) \/ CallStart(c)
             \/ CallSent(c) \/ CallSendFails(c) \/ CallSendCancelled(c) \/ CallResume(c)
      PROVE  Receipts'
  <2>1. UNCHANGED relayVars
      BY <1>4 DEF RecvResponse, CallRefused, CallStart, CallSent, CallSendFails,
         CallSendCancelled, CallResume
  <2>2. \A w \in Waits : w # c
      BY TaskAssumption
  <2>3. \A w \in Waits : pc'[w] = pc[w] /\ fut'[w] = fut[w] /\ interrupt'[w] = interrupt[w]
      BY <1>4, <1>t, <2>2 DEF RecvResponse, CallRefused, CallStart, CallSent, CallSendFails,
         CallSendCancelled, CallResume, Tasks
  <2> QED
      BY <1>1, <2>1, <2>3
<1>5. ASSUME NEW rid \in Rids, RecvEnvelope(rid) PROVE Receipts'
    BY <1>0, <1>5, PublishReceipts DEF RecvEnvelope
<1>6. ASSUME NEW w \in Waits, NEW n \in stash, WaitFromStash(w, n) PROVE Receipts'
  <2>1. /\ pc[w] = "idle" /\ val[w] = 0 /\ interrupt[w] = "none"
        /\ pc'[w] = "returned" /\ wrid'[w] = log[n] /\ val'[w] = n
        /\ \A v \in Waits : v # w => pc'[v] = pc[v] /\ wrid'[v] = wrid[v] /\ val'[v] = val[v]
        /\ stash' = stash \ {n}
        /\ UNCHANGED <<log, dropped, fut, interrupt>>
      BY <1>6, <1>t DEF WaitFromStash, Tasks, Tables, WaitSound, InterruptSound
  <2>2. n \in DOMAIN log /\ n # 0
      BY <1>t, LogDomain
  <2>3. StashSound'
    <3>1. IsFiniteSet(stash) /\ Cardinality(stash') <= Cardinality(stash)
          /\ Cardinality(stash') \in Nat /\ Cardinality(stash) \in Nat
        BY <1>t, <2>1, LogDomain, FS_Subset, FS_CardinalityType
    <3>2. Cardinality(stash') <= StashMax
        BY <3>1, StashMaxAssumption DEF StashSound
    <3> QED
        BY <2>1, <3>2 DEF StashSound
  <2>4. ReceiptExclusive'
    <3> SUFFICES ASSUME NEW v \in Waits, val'[v] # 0
                 PROVE  /\ val'[v] \in DOMAIN log /\ log[val'[v]] = wrid'[v]
                        /\ val'[v] \notin stash'
                        /\ \A u \in Waits : val'[u] = val'[v] => u = v
        BY <2>1 DEF ReceiptExclusive
    <3>1. CASE v = w
        BY <2>1, <2>2, <3>1 DEF ReceiptExclusive
    <3>2. CASE v # w
        BY <2>1, <2>2, <3>2 DEF ReceiptExclusive
    <3> QED
        BY <3>1, <3>2
  <2>5. InterruptSound'
      BY <2>1 DEF InterruptSound, Tables, WaitSound
  <2>6. ASSUME ~LateTimers PROVE ReceiptAccounted'
    <3> SUFFICES ASSUME NEW m \in DOMAIN log
                 PROVE  \/ m \in stash' \/ m \in dropped
                        \/ \E v \in Waits : /\ val'[v] = m
                                            /\ \/ pc'[v] \in {"waiting", "returned"}
                                               \/ interrupt[v] = "cancel"
        BY <2>1 DEF ReceiptAccounted
    <3>1. m # 0
        BY <1>t, LogDomain
    <3> QED
        BY <2>1, <2>6, <3>1 DEF ReceiptAccounted
  <2> QED
      BY <1>0, <2>3, <2>4, <2>5, <2>6, LateTimersAssumption
<1>7. ASSUME NEW w \in Waits, WaitBlank(w) \/ \E r \in Rids : WaitRefused(w, r) PROVE Receipts'
  <2>1. /\ pc[w] = "idle" /\ val[w] = 0 /\ interrupt[w] = "none"
        /\ pc'[w] = "failed" /\ \A v \in Waits : v # w => pc'[v] = pc[v]
        /\ UNCHANGED <<relayVars, fut, interrupt>>
      BY <1>7, <1>t DEF WaitBlank, WaitRefused, Tasks, Tables, WaitSound, InterruptSound
  <2>2. StashSound' /\ ReceiptExclusive'
      BY <2>1 DEF relayVars, StashSound, ReceiptExclusive
  <2>3. InterruptSound'
      BY <2>1 DEF relayVars, InterruptSound
  <2>4. 0 \notin DOMAIN log
      BY <1>t, LogDomain
  <2>5. ~LateTimers => ReceiptAccounted'
      BY <2>1, <2>4 DEF relayVars, ReceiptAccounted
  <2> QED
      BY <1>0, <2>2, <2>3, <2>5, LateTimersAssumption
<1>8. ASSUME NEW w \in Waits, NEW rid \in Rids, WaitStart(w, rid) PROVE Receipts'
  <2>1. /\ pc[w] = "idle" /\ val[w] = 0 /\ interrupt[w] = "none"
        /\ pc'[w] = "waiting"
        /\ \A v \in Waits : v # w => pc'[v] = pc[v] /\ fut'[v] = fut[v] /\ wrid'[v] = wrid[v]
        /\ UNCHANGED <<val, stash, log, dropped, interrupt>>
      BY <1>8, <1>t DEF WaitStart, Tasks, Tables, WaitSound, InterruptSound
  <2>2. StashSound' /\ ReceiptExclusive'
      BY <2>1 DEF StashSound, ReceiptExclusive
  <2>3. InterruptSound'
      BY <2>1 DEF InterruptSound
  <2>4. 0 \notin DOMAIN log
      BY <1>t, LogDomain
  <2>5. ~LateTimers => ReceiptAccounted'
      BY <2>1, <2>4 DEF ReceiptAccounted
  <2> QED
      BY <1>0, <2>2, <2>3, <2>5, LateTimersAssumption
<1>9. ASSUME NEW t \in Tasks, TaskCancel(t) PROVE Receipts'
  <2>1. /\ interrupt'[t] = "cancel" /\ pc[t] = "waiting" /\ fut'[t] # "pending"
        /\ \A v \in Tasks : v # t => fut'[v] = fut[v] /\ interrupt'[v] = interrupt[v]
        /\ UNCHANGED <<relayVars, pc>>
      BY <1>9, <1>t DEF TaskCancel
  <2>2. StashSound' /\ ReceiptExclusive'
      BY <2>1 DEF relayVars, StashSound, ReceiptExclusive
  <2>3. InterruptSound'
      BY <2>1 DEF relayVars, InterruptSound, Tasks
  <2>4. ~LateTimers => ReceiptAccounted'
      BY <2>1 DEF relayVars, ReceiptAccounted, Tasks
  <2> QED
      BY <1>0, <2>2, <2>3, <2>4, LateTimersAssumption
<1>10. ASSUME NEW w \in Waits, WaitResume(w) PROVE Receipts'
  <2>1. /\ pc[w] = "waiting" /\ fut[w] # "pending" /\ pc'[w] = Outcome(w)
        /\ \A v \in Waits : v # w => pc'[v] = pc[v]
        /\ UNCHANGED <<wrid, val, stash, log, dropped, fut, interrupt>>
      BY <1>10, <1>t DEF WaitResume, Tasks
  <2>2. Outcome(w) # "idle"
      BY DEF Outcome
  <2>3. StashSound' /\ ReceiptExclusive'
      BY <2>1 DEF StashSound, ReceiptExclusive
  <2>4. InterruptSound'
      BY <2>1, <2>2 DEF InterruptSound
  <2>5. ASSUME ~LateTimers, val[w] # 0
        PROVE  Outcome(w) = "returned" \/ interrupt[w] = "cancel"
    <3>1. fut[w] = "result"
        BY <2>1, <2>5 DEF Tables, WaitSound
    <3>2. interrupt[w] # "timeout"
        BY <2>5 DEF InterruptSound
    <3>3. interrupt[w] \in {"none", "timeout", "cancel"}
        BY <1>t DEF Tasks
    <3> QED
        BY <3>1, <3>2, <3>3 DEF Outcome, CancelLost
  <2>6. 0 \notin DOMAIN log
      BY <1>t, LogDomain
  <2>7. ASSUME ~LateTimers PROVE ReceiptAccounted'
    <3> SUFFICES ASSUME NEW m \in DOMAIN log, m \notin stash, m \notin dropped
                 PROVE  \E v \in Waits : /\ val[v] = m
                                         /\ \/ pc'[v] \in {"waiting", "returned"}
                                            \/ interrupt[v] = "cancel"
        BY <2>1 DEF ReceiptAccounted
    <3>1. PICK v \in Waits : /\ val[v] = m
                             /\ \/ pc[v] \in {"waiting", "returned"}
                                \/ interrupt[v] = "cancel"
        BY <2>7 DEF ReceiptAccounted
    <3>2. CASE v = w
        BY <2>1, <2>5, <2>6, <2>7, <3>1, <3>2
    <3>3. CASE v # w
        BY <2>1, <3>1, <3>3
    <3> QED
        BY <3>2, <3>3
  <2> QED
      BY <1>0, <2>3, <2>4, <2>7, LateTimersAssumption
<1>11. ASSUME NEW t \in TimedTasks, TimerFires(t) PROVE Receipts'
  <2>1. /\ UNCHANGED <<relayVars, pc>> /\ pc[t] = "waiting"
        /\ fut[t] = "pending" \/ LateTimers
        /\ interrupt'[t] = "timeout" /\ fut'[t] # "pending"
        /\ \A v \in Tasks : v # t => fut'[v] = fut[v] /\ interrupt'[v] = interrupt[v]
        /\ interrupt[t] = "none" /\ t \in Tasks
      BY <1>11, <1>t, TaskAssumption DEF TimerFires
  <2>2. StashSound' /\ ReceiptExclusive'
      BY <2>1 DEF relayVars, StashSound, ReceiptExclusive
  <2>3. InterruptSound'
    <3> SUFFICES ASSUME NEW w \in Waits
                 PROVE  /\ pc[w] = "idle" \/ fut'[w] = "pending" => interrupt'[w] = "none"
                        /\ ~LateTimers /\ interrupt'[w] = "timeout" => val[w] = 0
        BY <2>1 DEF InterruptSound, relayVars
    <3>1. CASE w = t
        BY <2>1, <3>1 DEF Tables, WaitSound
    <3>2. CASE w # t
        BY <2>1, <3>2 DEF InterruptSound, Tasks
    <3> QED
        BY <3>1, <3>2
  <2>4. \A w \in Waits : interrupt[w] = "cancel" => interrupt'[w] = "cancel"
      BY <2>1 DEF Tasks
  <2>5. ~LateTimers => ReceiptAccounted'
      BY <2>1, <2>4 DEF relayVars, ReceiptAccounted
  <2> QED
      BY <1>0, <2>2, <2>3, <2>5, LateTimersAssumption
<1>12. CASE UNCHANGED vars
    BY <1>1, <1>12 DEF vars, taskVars
<1> QED
    BY <1>2, <1>3, <1>4, <1>5, <1>6, <1>7, <1>8, <1>9, <1>10, <1>11, <1>12, NextCases

(* The stash is bounded and holds the newest receipt of each request id.   *)
THEOREM StashIsSound == Spec => []StashSound
<1>1. Receipts => StashSound
    BY DEF Receipts
<1> QED
    BY <1>1, InitReceipts, NextReceipts, PTL DEF Spec

(* No receipt is returned twice or to a wait for another request id.       *)
THEOREM ReceiptsAreExclusive == Spec => []ReceiptExclusive
<1>1. Receipts => ReceiptExclusive
    BY DEF Receipts
<1> QED
    BY <1>1, InitReceipts, NextReceipts, PTL DEF Spec

(* If no timer fires on a resolved future (asyncio before Python 3.12), no *)
(* receipt is lost between its publication and the wait it belongs to.     *)
THEOREM ReceiptsAreNotLost == ~LateTimers => (Spec => []ReceiptAccounted)
<1> SUFFICES ASSUME ~LateTimers PROVE Spec => []ReceiptAccounted
    OBVIOUS
<1>1. Receipts => ReceiptAccounted
    BY DEF Receipts
<1> QED
    BY <1>1, InitReceipts, NextReceipts, PTL DEF Spec

-----------------------------------------------------------------------------
(***************************************************************************)
(* RpcClient implements ReceiptMailbox: every step of the client is a step *)
(* of the mailbox or leaves it alone.                                      *)
(***************************************************************************)
(* A full stash loses its oldest receipt, and nothing else is lost.        *)
LEMMA StashedOldestFirst ==
    ASSUME Receipts, NEW rid \in Rids
    PROVE  LET fresh == {n \in stash : log[n] # rid} \cup {Receipt}
           IN  /\ Stashed(rid) \subseteq fresh
               /\ Cardinality(Stashed(rid)) <= StashMax
               /\ Stashed(rid) # fresh => Cardinality(Stashed(rid)) = StashMax
               /\ \A n \in fresh \ Stashed(rid) : \A m \in Stashed(rid) : n < m
<1> DEFINE fresh == {n \in stash : log[n] # rid} \cup {Receipt}
<1>1. /\ log \in Seq(Rids) /\ stash \subseteq DOMAIN log /\ Cardinality(stash) <= StashMax
    BY DEF Receipts, Tables, TableTypes, StashSound
<1>2. Cardinality(Stashed(rid)) <= StashMax
    BY <1>1, StashedBounded
<1>3. IsFiniteSet(stash) /\ Cardinality(stash) \in Nat /\ stash \subseteq Nat /\ Receipt \in Nat
    BY <1>1, LogDomain, FS_Subset, FS_CardinalityType, LenProperties DEF Receipt
<1>4. StashMax = 0 => stash = {}
    BY <1>1, <1>3, FS_EmptySet
<1>5. fresh \subseteq Nat /\ fresh # {}
    BY <1>3
<1>6. \/ StashMax = 0 /\ Stashed(rid) = stash
      \/ Stashed(rid) = fresh \ {Min(fresh)} /\ Cardinality(fresh) > StashMax
      \/ Stashed(rid) = fresh
    BY DEF Stashed
<1>f. IsFiniteSet(fresh) /\ Cardinality(fresh) \in Nat
  <2>1. {n \in stash : log[n] # rid} \subseteq stash
      OBVIOUS
  <2>2. IsFiniteSet({n \in stash : log[n] # rid})
      BY <1>3, <2>1, FS_Subset
  <2> QED
      BY <2>2, FS_AddElement, FS_CardinalityType
<1> HIDE DEF fresh
<1>7. Min(fresh) \in fresh /\ \A m \in fresh : Min(fresh) <= m
    BY <1>5, MinIsLeast
<1>8. CASE StashMax = 0 /\ Stashed(rid) = stash
  <2>1. Stashed(rid) = {} /\ Cardinality({}) = 0
      BY <1>4, <1>8, FS_EmptySet
  <2> QED
      BY <1>2, <1>8, <2>1 DEF fresh
<1>9. CASE Stashed(rid) = fresh \ {Min(fresh)} /\ Cardinality(fresh) > StashMax
  <2>1. \A n \in fresh \ Stashed(rid) : n = Min(fresh)
      BY <1>9
  <2>2. \A m \in Stashed(rid) : m \in Nat /\ Min(fresh) \in Nat /\ Min(fresh) <= m /\ m # Min(fresh)
      BY <1>5, <1>7, <1>9
  <2>3. \A m \in Stashed(rid) : Min(fresh) < m
      BY <2>2
  <2>4. Stashed(rid) \subseteq fresh
      BY <1>9
  <2>5. Cardinality(Stashed(rid)) = Cardinality(fresh) - 1
      BY <1>7, <1>9, <1>f, FS_RemoveElement
  <2>6. Cardinality(Stashed(rid)) = StashMax
      BY <1>2, <1>9, <1>f, <2>5, StashMaxAssumption
  <2> QED
      BY <1>2, <2>1, <2>3, <2>4, <2>6 DEF fresh
<1>10. CASE Stashed(rid) = fresh
    BY <1>2, <1>10 DEF fresh
<1> QED
    BY <1>6, <1>8, <1>9, <1>10

(* A step that changes neither the relay nor which waits are unresolved is *)
(* invisible to the mailbox.                                               *)
LEMMA MailStutter ==
    ASSUME UNCHANGED <<wrid, val, stash, log>>, Asking' = Asking
    PROVE  UNCHANGED Mailbox!mailVars
    BY DEF Mailbox!mailVars

(* A wait that is cancelled or times out withdraws, unless it has its      *)
(* receipt already; a call does not concern the mailbox.                   *)
LEMMA InterruptIsWithdrawal ==
    ASSUME Tables, NEW t \in Tasks, UNCHANGED relayVars,
           fut' = [fut EXCEPT ![t] = IF @ = "pending" THEN "cancelled" ELSE @]
    PROVE  [Mailbox!Next]_(Mailbox!mailVars)
<1>t. fut \in [Tasks -> {"none", "pending", "result", "cancelled"}]
    BY DEF Tables, TableTypes
<1>1. UNCHANGED <<wrid, val, stash, log>>
    BY DEF relayVars
<1>2. Asking' = Asking \ {t}
    BY <1>t DEF Asking, Tasks
<1>3. CASE t \in Asking
  <2>1. t \in Waits
      BY <1>3 DEF Asking
  <2>2. Mailbox!Withdraw(t)
      BY <1>1, <1>2, <1>3 DEF Mailbox!Withdraw
  <2> QED
      BY <2>1, <2>2 DEF Mailbox!Next
<1>4. CASE t \notin Asking
  <2>1. Asking' = Asking
      BY <1>2, <1>4
  <2> QED
      BY <1>1, <2>1, MailStutter
<1> QED
    BY <1>3, <1>4

(* Publishing a receipt delivers it or keeps it.                           *)
LEMMA PublishIsMail ==
    ASSUME Receipts, NEW rid \in Rids, RelayPublish(rid)
    PROVE  Mailbox!Next
<1>t. /\ fut \in [Tasks -> {"none", "pending", "result", "cancelled"}]
      /\ waiters \in [Rids -> Waits \cup {NoWait}]
    BY DEF Receipts, Tables, TableTypes
<1>1. log' = Append(log, rid) /\ wrid' = wrid /\ Mailbox!Receipt = Receipt
    BY DEF RelayPublish, Mailbox!Receipt, Receipt
<1>2. CASE Wakes(rid)
  <2> DEFINE w == waiters[rid]
  <2>1. /\ w \in Waits /\ fut[w] = "pending" /\ wrid[w] = rid
        /\ fut' = [fut EXCEPT ![w] = "result"] /\ val' = [val EXCEPT ![w] = Receipt]
        /\ stash' = stash
      BY <1>t, <1>2 DEF Wakes, RelayPublish, Receipts, Tables, NoLeakedEntry
  <2> HIDE DEF w
  <2>2. w \in Asking /\ Asking' = Asking \ {w}
      BY <1>t, <2>1 DEF Asking, Tasks
  <2>3. Mailbox!Deliver(rid, w)
      BY <1>1, <2>1, <2>2 DEF Mailbox!Deliver
  <2> QED
      BY <2>1, <2>3 DEF Mailbox!Next
<1>3. CASE ~Wakes(rid)
  <2>1. stash' = Stashed(rid) /\ UNCHANGED <<fut, val>>
      BY <1>3 DEF RelayPublish
  <2>2. \A w \in Asking : wrid[w] # rid
    <3> SUFFICES ASSUME NEW w \in Waits, fut[w] = "pending", wrid[w] = rid PROVE FALSE
        BY DEF Asking
    <3>1. waiters[rid] = w
        BY DEF Receipts, Tables, NoLostWakeup
    <3> QED
        BY <1>3, <3>1, TaskAssumption DEF Wakes
  <2>3. Asking' = Asking
      BY <2>1 DEF Asking
  <2>4. Mailbox!Keep(rid)
    <3> DEFINE fresh == {n \in stash : log[n] # rid} \cup {Receipt}
    <3>1. /\ stash' \subseteq fresh /\ Cardinality(stash') <= StashMax
          /\ stash' # fresh => Cardinality(stash') = StashMax
          /\ \A n \in fresh \ stash' : \A m \in stash' : n < m
        BY <2>1, StashedOldestFirst
    <3>2. Mailbox!Cardinality(stash') = Cardinality(stash')
        BY Zenon DEF Mailbox!Cardinality, Cardinality, Mailbox!IsFiniteSet, IsFiniteSet
    <3> QED
        BY <1>1, <2>1, <2>2, <2>3, <3>1, <3>2 DEF Mailbox!Keep
  <2> QED
      BY <2>4 DEF Mailbox!Next
<1> QED
    BY <1>2, <1>3

(* Every step of the client is a step of the mailbox or invisible to it.   *)
LEMMA NextIsMail == Receipts /\ [Next]_vars => [Mailbox!Next]_(Mailbox!mailVars)
<1> SUFFICES ASSUME Receipts, [Next]_vars PROVE [Mailbox!Next]_(Mailbox!mailVars)
    OBVIOUS
<1>t. /\ Tables /\ pc \in [Tasks -> Finished \cup {"idle", "sending", "waiting"}]
      /\ fut \in [Tasks -> {"none", "pending", "result", "cancelled"}]
    BY DEF Receipts, Tables, TableTypes
<1>1. ASSUME UNCHANGED <<wrid, val, stash, log>>, \A w \in Waits : fut'[w] = fut[w]
      PROVE  UNCHANGED Mailbox!mailVars
  <2>1. Asking' = Asking
      BY <1>1 DEF Asking
  <2> QED
      BY <1>1, <2>1, MailStutter
<1>2. CASE Quiet
    BY <1>1, <1>2, QuietFrame DEF relayVars, taskVars
<1>3. CASE Cleaning
  <2>1. Cleanup
      BY <1>3, CleaningCleans
  <2>2. \A t \in Tasks : fut'[t] # "pending"
      BY <1>t, <2>1, CleanupResolvesAll
  <2>3. Asking' = {}
      BY <2>2 DEF Asking, Tasks
  <2>4. Mailbox!Clear
      BY <2>1, <2>3 DEF Cleanup, Mailbox!Clear
  <2> QED
      BY <2>4 DEF Mailbox!Next
<1>4. ASSUME NEW c \in Calls,
             \/ RecvResponse(c) \/ CallRefused(c) \/ CallStart(c)
             \/ CallSent(c) \/ CallSendFails(c) \/ CallSendCancelled(c) \/ CallResume(c)
      PROVE  UNCHANGED Mailbox!mailVars
  <2>1. UNCHANGED relayVars
      BY <1>4 DEF RecvResponse, CallRefused, CallStart, CallSent, CallSendFails,
         CallSendCancelled, CallResume
  <2>2. \A w \in Waits : w # c
      BY TaskAssumption
  <2>3. \A w \in Waits : fut'[w] = fut[w]
      BY <1>4, <1>t, <2>2 DEF RecvResponse, CallRefused, CallStart, CallSent, CallSendFails,
         CallSendCancelled, CallResume, Tasks
  <2> QED
      BY <1>1, <2>1, <2>3 DEF relayVars
<1>5. ASSUME NEW rid \in Rids, RecvEnvelope(rid) PROVE Mailbox!Next
    BY <1>5, PublishIsMail DEF RecvEnvelope
<1>6. ASSUME NEW w \in Waits, NEW n \in stash, WaitFromStash(w, n) PROVE Mailbox!Next
  <2>1. w \notin Asking /\ val[w] = 0 /\ Asking' = Asking
      BY <1>6, <1>t DEF WaitFromStash, Asking, Tables, WaitSound
  <2>2. Mailbox!Take(w, n)
      BY <1>6, <2>1 DEF WaitFromStash, Mailbox!Take
  <2> QED
      BY <2>2 DEF Mailbox!Next
<1>7. ASSUME NEW w \in Waits, NEW rid \in Rids, WaitStart(w, rid) PROVE Mailbox!Next
  <2>1. w \notin Asking /\ val[w] = 0 /\ Asking' = Asking \cup {w}
      BY <1>7, <1>t DEF WaitStart, Asking, Tables, WaitSound, Tasks
  <2>2. \A v \in Asking : wrid[v] # rid
    <3>1. \A v \in Asking : v \in Waits /\ waiters[wrid[v]] = v
        BY <1>t DEF Asking, Tables, NoLostWakeup
    <3> QED
        BY <1>7, <3>1, TaskAssumption DEF WaitStart
  <2>3. Mailbox!Ask(w, rid)
      BY <1>7, <2>1, <2>2 DEF WaitStart, HasStashed, Mailbox!Ask
  <2> QED
      BY <2>3 DEF Mailbox!Next
<1>8. ASSUME NEW w \in Waits,
             WaitBlank(w) \/ WaitResume(w) \/ \E r \in Rids : WaitRefused(w, r)
      PROVE  UNCHANGED Mailbox!mailVars
    BY <1>1, <1>8 DEF WaitBlank, WaitResume, WaitRefused, relayVars
<1>9. ASSUME NEW t \in Tasks, TimerFires(t) \/ TaskCancel(t)
      PROVE  [Mailbox!Next]_(Mailbox!mailVars)
    BY <1>9, <1>t, InterruptIsWithdrawal DEF TimerFires, TaskCancel
<1>10. CASE UNCHANGED vars
    BY <1>1, <1>10 DEF vars, relayVars, taskVars
<1> QED
    BY <1>2, <1>3, <1>4, <1>5, <1>6, <1>7, <1>8, <1>9, <1>10, NextCases, TaskAssumption

(* wait_relay_predicate keeps the promise of the mailbox, for any number   *)
(* of waits, calls, request ids and connections and every stash size.      *)
THEOREM RelayIsMailbox == Spec => IsMailbox
<1>1. Init => Mailbox!Init
  <2> SUFFICES ASSUME Init PROVE Mailbox!Init
      OBVIOUS
  <2>1. Asking = {}
      BY DEF Init, Asking, Tasks
  <2> QED
      BY <2>1 DEF Init, Mailbox!Init
<1> QED
    BY <1>1, InitReceipts, NextReceipts, NextIsMail, PTL DEF Spec, IsMailbox, Mailbox!Spec

-----------------------------------------------------------------------------
(***************************************************************************)
(* What a step may do to a task and to the reader.                         *)
(***************************************************************************)

(* A task has a future from its beginning to its end, and one whose future *)
(* is unresolved has not been interrupted: a timer or a cancellation       *)
(* settles the future it interrupts.                                       *)
Fresh ==
    \A t \in Tasks :
        /\ pc[t] = "idle" => fut[t] = "none"
        /\ pc[t] \in {"sending", "waiting"} => fut[t] # "none"
        /\ pc[t] \in {"idle", "sending"} \/ fut[t] = "pending" => interrupt[t] = "none"

(* Every step of the client keeps it so.                                   *)
LEMMA NextFresh == Tables /\ Fresh /\ [Next]_vars => Fresh'
<1> SUFFICES ASSUME Tables, Fresh, [Next]_vars PROVE Fresh'
    OBVIOUS
<1>t. /\ pc \in [Tasks -> Finished \cup {"idle", "sending", "waiting"}]
      /\ fut \in [Tasks -> {"none", "pending", "result", "cancelled"}]
      /\ interrupt \in [Tasks -> {"none", "timeout", "cancel"}]
      /\ waiters \in [Rids -> Waits \cup {NoWait}]
    BY DEF Tables, TableTypes
<1>0. /\ \A u \in Tasks : Outcome(u) \in Finished
      /\ Finished \cap {"idle", "sending", "waiting"} = {}
    BY DEF Outcome, Finished
<1>1. CASE UNCHANGED <<pc, fut, interrupt>>
    BY <1>1 DEF Fresh
<1>2. ASSUME UNCHANGED <<pc, interrupt>>,
             \A u \in Tasks : /\ fut[u] = "none" <=> fut'[u] = "none"
                              /\ fut'[u] = "pending" => fut[u] = "pending"
      PROVE  Fresh'
    BY <1>2 DEF Fresh
<1>3. CASE Cleaning
  <2>1. Cleanup
      BY <1>3, CleaningCleans
  <2> QED
      BY <1>2, <2>1 DEF Cleanup
<1>4. ASSUME NEW c \in Calls, RecvResponse(c) PROVE Fresh'
    BY <1>2, <1>4, <1>t DEF RecvResponse, Tasks
<1>5. ASSUME NEW r \in Rids, RecvEnvelope(r) PROVE Fresh'
  <2>1. CASE Wakes(r)
      BY <1>2, <1>5, <1>t, <2>1 DEF RecvEnvelope, RelayPublish, Wakes
  <2>2. CASE ~Wakes(r)
      BY <1>1, <1>5, <2>2 DEF RecvEnvelope, RelayPublish
  <2> QED
      BY <2>1, <2>2
<1>6. ASSUME NEW c \in Calls,
             \/ CallRefused(c) \/ CallSent(c) \/ CallSendFails(c) \/ CallSendCancelled(c)
             \/ CallResume(c)
      PROVE  Fresh'
  <2>1. /\ pc'[c] \notin {"idle", "sending"} /\ interrupt' = interrupt
        /\ fut'[c] = "pending" => fut[c] = "pending"
        /\ pc'[c] = "waiting" => pc[c] = "sending" /\ fut'[c] = fut[c]
        /\ \A u \in Tasks : u # c => pc'[u] = pc[u] /\ fut'[u] = fut[u]
      BY <1>6, <1>t, <1>0 DEF CallRefused, CallSent, CallSendFails, CallSendCancelled, CallResume,
         Tasks
  <2> QED
      BY <2>1 DEF Fresh
<1>7. ASSUME NEW c \in Calls, CallStart(c) PROVE Fresh'
    BY <1>7, <1>t DEF CallStart, Fresh, Tasks
<1>8. ASSUME NEW w \in Waits,
             \/ \E n \in stash : WaitFromStash(w, n)
             \/ \E r \in Rids : WaitRefused(w, r)
             \/ WaitBlank(w) \/ WaitResume(w)
      PROVE  Fresh'
  <2>1. /\ pc'[w] \notin {"idle", "sending", "waiting"} /\ UNCHANGED <<fut, interrupt>>
        /\ \A u \in Tasks : u # w => pc'[u] = pc[u]
      BY <1>8, <1>t, <1>0 DEF WaitFromStash, WaitRefused, WaitBlank, WaitResume, Tasks
  <2> QED
      BY <2>1 DEF Fresh
<1>9. ASSUME NEW w \in Waits, NEW r \in Rids, WaitStart(w, r) PROVE Fresh'
    BY <1>9, <1>t DEF WaitStart, Fresh, Tasks
<1>10. ASSUME NEW u \in Tasks, TimerFires(u) \/ TaskCancel(u) PROVE Fresh'
  <2>1. /\ pc[u] = "waiting" /\ pc' = pc /\ fut'[u] # "pending"
        /\ fut[u] # "none" => fut'[u] # "none"
        /\ \A v \in Tasks : v # u => fut'[v] = fut[v] /\ interrupt'[v] = interrupt[v]
      BY <1>10, <1>t DEF TimerFires, TaskCancel
  <2> QED
      BY <2>1 DEF Fresh
<1>11. CASE UNCHANGED vars
    BY <1>1, <1>11 DEF vars, taskVars
<1>12. CASE Quiet
    BY <1>1, <1>12, QuietFrame DEF taskVars
<1> QED
    BY <1>3, <1>4, <1>5, <1>6, <1>7, <1>8, <1>9, <1>10, <1>11, <1>12, NextCases, TaskAssumption

(* The invariant behind the theorems below.                                *)
Steady == Connection /\ Fresh

(* It holds in every state of the client.                                  *)
LEMMA AlwaysSteady == Spec => []Steady
<1>1. Init => Steady
    BY InitConnection DEF Init, Steady, Fresh
<1>2. Steady /\ [Next]_vars => Steady'
    BY NextConnection, NextFresh DEF Steady, Connection
<1> QED
    BY <1>1, <1>2, PTL DEF Spec

(* A future that is done stays as it is, a task that has ended stays       *)
(* ended, and one that awaits its future goes on only when it is done.     *)
TaskMoves(t) ==
    /\ fut[t] \in {"result", "cancelled"} => fut'[t] = fut[t]
    /\ pc[t] \in Finished => pc'[t] = pc[t]
    /\ pc[t] = "waiting" => \/ pc'[t] = "waiting"
                            \/ fut[t] # "pending" /\ pc'[t] \in Finished
    /\ pc[t] = "sending" => pc'[t] \in Finished \cup {"sending", "waiting"}
    /\ fut[t] = "pending" => fut'[t] # "none"

(* Every step of the client moves every task forward or leaves it alone.   *)
LEMMA NextMovesTasks ==
    ASSUME Steady, [Next]_vars, NEW t \in Tasks PROVE TaskMoves(t)
<1>t. /\ pc \in [Tasks -> Finished \cup {"idle", "sending", "waiting"}]
      /\ fut \in [Tasks -> {"none", "pending", "result", "cancelled"}]
      /\ waiters \in [Rids -> Waits \cup {NoWait}]
    BY DEF Steady, Connection, Tables, TableTypes
<1>0. \A u \in Tasks : Outcome(u) \in Finished
    BY DEF Outcome, Finished
<1> USE TaskAssumption DEF TaskMoves, Tasks, Finished
<1>1. CASE UNCHANGED <<pc, fut>>
    BY <1>1, <1>t
<1>2. CASE Cleaning
    BY <1>2, <1>t, CleaningCleans DEF Cleanup
<1>3. ASSUME NEW c \in Calls, RecvResponse(c) PROVE TaskMoves(t)
    BY <1>3, <1>t DEF RecvResponse
<1>4. ASSUME NEW c \in Calls, CallRefused(c) \/ CallSent(c) PROVE TaskMoves(t)
    BY <1>4, <1>t DEF CallRefused, CallSent
<1>5. ASSUME NEW c \in Calls, CallStart(c) PROVE TaskMoves(t)
  <2>1. pc[c] = "idle" /\ fut[c] = "none"
      BY <1>5 DEF CallStart, Steady, Fresh
  <2> QED
      BY <1>5, <1>t, <2>1 DEF CallStart
<1>6. ASSUME NEW c \in Calls, CallSendFails(c) \/ CallSendCancelled(c) PROVE TaskMoves(t)
    BY <1>6, <1>t DEF CallSendFails, CallSendCancelled
<1>7. ASSUME NEW c \in Calls, CallResume(c) PROVE TaskMoves(t)
    BY <1>7, <1>t, <1>0 DEF CallResume
<1>8. ASSUME NEW r \in Rids, RecvEnvelope(r) PROVE TaskMoves(t)
  <2>1. CASE Wakes(r)
      BY <1>8, <1>t, <2>1 DEF RecvEnvelope, RelayPublish, Wakes
  <2>2. CASE ~Wakes(r)
      BY <1>1, <1>8, <2>2 DEF RecvEnvelope, RelayPublish
  <2> QED
      BY <2>1, <2>2
<1>9. ASSUME NEW w \in Waits,
             \/ \E n \in stash : WaitFromStash(w, n)
             \/ WaitBlank(w) \/ \E r \in Rids : WaitRefused(w, r)
      PROVE  TaskMoves(t)
    BY <1>9, <1>t DEF WaitFromStash, WaitBlank, WaitRefused
<1>10. ASSUME NEW w \in Waits, NEW r \in Rids, WaitStart(w, r) PROVE TaskMoves(t)
  <2>1. pc[w] = "idle" /\ fut[w] = "none"
      BY <1>10 DEF WaitStart, Steady, Fresh
  <2> QED
      BY <1>10, <1>t, <2>1 DEF WaitStart
<1>11. ASSUME NEW w \in Waits, WaitResume(w) PROVE TaskMoves(t)
    BY <1>11, <1>t, <1>0 DEF WaitResume
<1>12. ASSUME NEW u \in Tasks, TimerFires(u) \/ TaskCancel(u) PROVE TaskMoves(t)
    BY <1>12, <1>t DEF TimerFires, TaskCancel
<1>13. CASE UNCHANGED vars
    BY <1>1, <1>13 DEF vars, taskVars
<1>14. CASE Quiet
    BY <1>1, <1>14, QuietFrame DEF taskVars
<1> QED
    BY <1>2, <1>3, <1>4, <1>5, <1>6, <1>7, <1>8, <1>9, <1>10, <1>11, <1>12, <1>13, <1>14, NextCases

(* A call or a wait ends once: its outcome is never replaced, neither by a *)
(* late response or receipt, nor by a timer or a cancellation that comes   *)
(* after it, and a future is settled at most once.                         *)
OutcomesAreFinal ==
    [][\A t \in Tasks : /\ pc[t] \in Finished => pc'[t] = pc[t]
                        /\ fut[t] \in {"result", "cancelled"} => fut'[t] = fut[t]]_vars

(* _call_remote and wait_relay_predicate have one outcome each.            *)
THEOREM OutcomesNeverChange == Spec => OutcomesAreFinal
<1>1. Steady /\ [Next]_vars =>
          [\A t \in Tasks : /\ pc[t] \in Finished => pc'[t] = pc[t]
                            /\ fut[t] \in {"result", "cancelled"} => fut'[t] = fut[t]]_vars
    BY NextMovesTasks DEF TaskMoves
<1> QED
    BY <1>1, AlwaysSteady, PTL DEF Spec, OutcomesAreFinal

(* What a step may do to a reader that is alive.  Without close() it goes  *)
(* on to handle and to reply, and on a closed socket it cannot reply; once *)
(* close() has cancelled it, it only ends.  When it ends, no future is     *)
(* left unresolved.                                                        *)
ReaderMoves ==
    /\ reader' \in ReaderAwaits \/ \A t \in Tasks : fut'[t] # "pending"
    /\ ws = "closed" => ws' = "closed"
    /\ closing = "reader" => closing' = "reader" /\ (reader' = reader \/ reader' \notin ReaderAwaits)
    /\ reader = "handling" => reader' # "recv"
    /\ reader = "replying" /\ ws = "closed" => reader' # "recv" /\ reader' # "handling"

(* Every step of the client moves the reader in this way.                  *)
LEMMA NextMovesReader ==
    ASSUME Steady, [Next]_vars, reader \in ReaderAwaits PROVE ReaderMoves
<1>s. /\ Tables
      /\ ws = "none" => reader = "none"
      /\ closing = "ws" => reader = "none"
      /\ closing \in {"idle", "reader", "ws"}
    BY DEF Steady, Connection, ConnSound, ConnTypes
<1> USE DEF ReaderMoves, ReaderAwaits
<1>1. CASE UNCHANGED <<connVars, reader>>
    BY <1>1 DEF connVars
<1>2. CASE Cleaning
  <2>1. \A t \in Tasks : fut'[t] # "pending"
      BY <1>s, <1>2, CleaningCleans, CleanupResolvesAll
  <2>2. /\ reader' \notin ReaderAwaits /\ (ws = "closed" => ws' = "closed")
        /\ closing' = closing
      BY <1>s, <1>2 DEF Cleaning, ReplyFails, HandlingRaises, RecvRaises, ReaderFails,
         ReaderSeesClose, ReaderCancelled, CloseReaderDone, CloseUnconnected, CloseAgain,
         DisconnectWaitCancelled, connVars
  <2> QED
      BY <2>1, <2>2
<1>3. CASE Quiet
    BY <1>s, <1>3 DEF Quiet, Connect, PeerCloses, RecvAckOnly, RecvBlankEnvelope, HandlingDone,
       ReplySent, CloseBegin, CloseRaises, CloseWs, CloseCancelled, connVars, ReaderRuns
<1>4. ASSUME NEW r \in Rids, RecvEnvelope(r) PROVE ReaderMoves
    BY <1>s, <1>4 DEF RecvEnvelope, ReaderRuns, connVars
<1>5. ASSUME NEW c \in Calls,
             \/ RecvResponse(c) \/ CallRefused(c) \/ CallStart(c)
             \/ CallSent(c) \/ CallSendFails(c) \/ CallSendCancelled(c) \/ CallResume(c)
      PROVE  ReaderMoves
    BY <1>1, <1>5 DEF RecvResponse, CallRefused, CallStart, CallSent, CallSendFails,
       CallSendCancelled, CallResume
<1>6. ASSUME NEW w \in Waits,
             \/ \E n \in stash : WaitFromStash(w, n)
             \/ \E r \in Rids : WaitRefused(w, r) \/ WaitStart(w, r)
             \/ WaitBlank(w) \/ WaitResume(w)
      PROVE  ReaderMoves
    BY <1>1, <1>6 DEF WaitFromStash, WaitRefused, WaitStart, WaitBlank, WaitResume
<1>7. ASSUME NEW t, TimerFires(t) \/ TaskCancel(t) PROVE ReaderMoves
    BY <1>1, <1>7 DEF TimerFires, TaskCancel
<1>8. CASE UNCHANGED vars
    BY <1>1, <1>8 DEF vars
<1> QED
    BY <1>2, <1>3, <1>4, <1>5, <1>6, <1>7, <1>8, NextCases

ReaderEnds == reader \in ReaderAwaits /\ reader' \notin ReaderAwaits

AllSettled == \A t \in Tasks : fut[t] # "pending"

(* However the reader ends (the peer's close, an exception of a handler or *)
(* of a send, close(), a cancelled wait_until_disconnected), the same step *)
(* settles every future: nobody sleeps on beside a reader that is gone.    *)
ReaderEndSettlesAll == [][ReaderEnds => AllSettled']_vars

(* The finally block of the reader loop settles everything.                *)
THEOREM NobodySleepsPastTheReader == Spec => ReaderEndSettlesAll
<1>1. Steady /\ [Next]_vars => [ReaderEnds => AllSettled']_vars
    BY NextMovesReader DEF ReaderMoves, ReaderEnds, AllSettled
<1> QED
    BY <1>1, AlwaysSteady, PTL DEF Spec, ReaderEndSettlesAll

-----------------------------------------------------------------------------
(***************************************************************************)
(* Liveness.  The prover knows nothing of ENABLED, so that weak fairness   *)
(* is stated here with the guard of each step written out: a step that is  *)
(* ready forever is taken.  Prompt is Fairness in that form, clause by     *)
(* clause.                                                                 *)
(***************************************************************************)
Promptly(ready, A) == []<>~ready \/ []<><<A>>_vars

Woken(t)     == pc[t] = "waiting" /\ fut[t] # "pending"
CanHandle    == ReaderRuns("handling")
CanReply     == ReaderRuns("replying") /\ ws \in {"open", "closed"}
CanSeeClose  == ReaderRuns("recv") /\ ws = "closed"
CanCancel    == closing = "reader" /\ reader \in ReaderAwaits
CanForget    == closing = "reader" /\ reader \in {"ended", "failed"}
CanCloseWs   == closing = "ws"
CanSend(c)   == pc[c] = "sending"
CanFire(t)   == /\ pc[t] = "waiting" /\ interrupt[t] = "none"
                /\ fut[t] = "pending" \/ LateTimers

PromptCall(c) ==
    /\ Promptly(CanSend(c), CallSent(c) \/ CallSendFails(c))
    /\ Promptly(Woken(c), CallResume(c))
PromptWait(w)  == Promptly(Woken(w), WaitResume(w))
PromptTimer(t) == Promptly(CanFire(t), TimerFires(t))

Prompt ==
    /\ Promptly(CanHandle, HandlingDone) /\ Promptly(CanReply, ReplySent \/ ReplyFails)
    /\ Promptly(CanSeeClose, ReaderSeesClose)
    /\ Promptly(CanCancel, ReaderCancelled)
    /\ Promptly(CanForget, CloseReaderDone \/ CloseRaises) /\ Promptly(CanCloseWs, CloseWs)
    /\ \A c \in Calls : PromptCall(c)
    /\ \A w \in Waits : PromptWait(w)
    /\ \A t \in TimedTasks : PromptTimer(t)

Awaiting(t) == pc[t] = "waiting"
Ended(t)    == pc[t] \in Finished

(* A task whose future is done ends: the loop resumes it.                  *)
LEMMA WokenEnds ==
    ASSUME NEW t \in Tasks PROVE Spec /\ Prompt => (Woken(t) ~> Ended(t))
<1>1. Steady /\ Woken(t) /\ [Next]_vars => Woken(t)' \/ Ended(t)'
  <2> SUFFICES ASSUME Steady, Woken(t), [Next]_vars PROVE Woken(t)' \/ Ended(t)'
      OBVIOUS
  <2>1. TaskMoves(t)
      BY NextMovesTasks
  <2>2. fut[t] \in {"result", "cancelled"}
      BY DEF Woken, Steady, Fresh, Connection, Tables, TableTypes
  <2> QED
      BY <2>1, <2>2 DEF TaskMoves, Woken, Ended
<1>2. CASE t \in Calls
  <2>1. Prompt => PromptCall(t)
      BY <1>2 DEF Prompt
  <2>2. Steady /\ <<CallResume(t)>>_vars => Ended(t)'
      BY DEF Steady, Connection, Tables, TableTypes, CallResume, Outcome, Ended, Finished
  <2> QED
      BY <1>1, <2>1, <2>2, AlwaysSteady, PTL DEF Spec, PromptCall, Promptly
<1>3. CASE t \in Waits
  <2>1. Prompt => PromptWait(t)
      BY <1>3 DEF Prompt
  <2>2. Steady /\ <<WaitResume(t)>>_vars => Ended(t)'
      BY DEF Steady, Connection, Tables, TableTypes, WaitResume, Outcome, Ended, Finished
  <2> QED
      BY <1>1, <2>1, <2>2, AlwaysSteady, PTL DEF Spec, PromptWait, Promptly
<1> QED
    BY <1>2, <1>3 DEF Tasks

(* A task asleep beside a reader that close() has cancelled, or that is at *)
(* this await of a connection that is lost.                                *)
Asleep(t)          == pc[t] = "waiting" /\ fut[t] = "pending" /\ reader \in ReaderAwaits
AsleepInClose(t)   == Asleep(t) /\ closing = "reader"
AsleepAt(t, place) == Asleep(t) /\ closing # "reader" /\ ws = "closed" /\ reader = place

(* A sleeping task stays asleep beside a living reader, or is woken.       *)
LEMMA SleepStep ==
    ASSUME Steady, [Next]_vars, NEW t \in Tasks, Asleep(t)
    PROVE  Asleep(t)' \/ Woken(t)'
<1>1. TaskMoves(t) /\ ReaderMoves
    BY NextMovesTasks, NextMovesReader DEF Asleep
<1> QED
    BY <1>1 DEF TaskMoves, ReaderMoves, Asleep, Woken

(* The cancelled reader ends, and wakes the task.                          *)
LEMMA CloseWakes ==
    ASSUME NEW t \in Tasks PROVE Spec /\ Prompt => (AsleepInClose(t) ~> Woken(t))
<1>1. Steady /\ AsleepInClose(t) /\ [Next]_vars => AsleepInClose(t)' \/ Woken(t)'
    BY SleepStep, NextMovesReader DEF AsleepInClose, Asleep, ReaderMoves
<1>2. Steady /\ AsleepInClose(t) /\ <<ReaderCancelled>>_vars => Woken(t)'
    BY CleanupResolvesAll DEF ReaderCancelled, Cleanup, AsleepInClose, Asleep, Woken,
       Steady, Connection
<1>3. AsleepInClose(t) => CanCancel
    BY DEF AsleepInClose, Asleep, CanCancel
<1> QED
    BY <1>1, <1>2, <1>3, AlwaysSteady, PTL DEF Spec, Prompt, Promptly

(* Where a reader of a lost connection may go.                             *)
LEMMA LostReaderStep ==
    ASSUME Steady, [Next]_vars, NEW t \in Tasks, NEW place \in ReaderAwaits, AsleepAt(t, place)
    PROVE  \/ Woken(t)' \/ AsleepInClose(t)'
           \/ AsleepAt(t, place)'
           \/ place \in {"recv", "handling"} /\ AsleepAt(t, "replying")'
           \/ place = "recv" /\ AsleepAt(t, "handling")'
<1>1. (Asleep(t)' \/ Woken(t)') /\ ReaderMoves
    BY SleepStep, NextMovesReader DEF AsleepAt, Asleep
<1> QED
    BY <1>1 DEF ReaderMoves, AsleepAt, AsleepInClose, Asleep, ReaderAwaits

(* The reader cannot reply on a connection that is lost: it fails.         *)
LEMMA LostReplyWakes ==
    ASSUME NEW t \in Tasks PROVE Spec /\ Prompt => (AsleepAt(t, "replying") ~> Woken(t))
<1>1. Steady /\ AsleepAt(t, "replying") /\ [Next]_vars
          => AsleepAt(t, "replying")' \/ AsleepInClose(t)' \/ Woken(t)'
    BY LostReaderStep DEF ReaderAwaits
<1>2. Steady /\ AsleepAt(t, "replying") /\ <<ReplySent \/ ReplyFails>>_vars => Woken(t)'
    BY CleanupResolvesAll DEF ReplySent, ReplyFails, ReaderFails, Cleanup, AsleepAt, Asleep, Woken,
       Steady, Connection
<1>3. AsleepAt(t, "replying") => CanReply
    BY DEF AsleepAt, CanReply, ReaderRuns
<1> QED
    BY <1>1, <1>2, <1>3, CloseWakes, AlwaysSteady, PTL DEF Spec, Prompt, Promptly

(* receive_envelope returns, and then the reply fails.                     *)
LEMMA LostHandlingWakes ==
    ASSUME NEW t \in Tasks PROVE Spec /\ Prompt => (AsleepAt(t, "handling") ~> Woken(t))
<1>1. Steady /\ AsleepAt(t, "handling") /\ [Next]_vars
          => \/ AsleepAt(t, "handling")' \/ AsleepAt(t, "replying")'
             \/ AsleepInClose(t)' \/ Woken(t)'
    BY LostReaderStep DEF ReaderAwaits
<1>2. Steady /\ AsleepAt(t, "handling") /\ <<HandlingDone>>_vars => AsleepAt(t, "replying")'
    BY DEF HandlingDone, connVars, taskVars, AsleepAt, Asleep, ReaderAwaits
<1>3. AsleepAt(t, "handling") => CanHandle
    BY DEF AsleepAt, CanHandle, ReaderRuns
<1> QED
    BY <1>1, <1>2, <1>3, CloseWakes, LostReplyWakes, AlwaysSteady, PTL
       DEF Spec, Prompt, Promptly

(* The reader sees that the connection is lost, at once or after the       *)
(* frames it still reads.                                                  *)
LEMMA LostConnectionWakes ==
    ASSUME NEW t \in Tasks PROVE Spec /\ Prompt => (AsleepAt(t, "recv") ~> Woken(t))
<1>1. Steady /\ AsleepAt(t, "recv") /\ [Next]_vars
          => \/ AsleepAt(t, "recv")' \/ AsleepAt(t, "handling")' \/ AsleepAt(t, "replying")'
             \/ AsleepInClose(t)' \/ Woken(t)'
    BY LostReaderStep DEF ReaderAwaits
<1>2. Steady /\ AsleepAt(t, "recv") /\ <<ReaderSeesClose>>_vars => Woken(t)'
    BY CleanupResolvesAll DEF ReaderSeesClose, Cleanup, AsleepAt, Asleep, Woken,
       Steady, Connection
<1>3. AsleepAt(t, "recv") => CanSeeClose
    BY DEF AsleepAt, CanSeeClose, ReaderRuns
<1> QED
    BY <1>1, <1>2, <1>3, CloseWakes, LostReplyWakes, LostHandlingWakes, AlwaysSteady, PTL
       DEF Spec, Prompt, Promptly

(* When the connection is lost or is being closed while the reader lives,  *)
(* every call and every wait ends, whatever the server, the handlers and   *)
(* the other tasks do meanwhile.                                           *)
THEOREM LostConnectionsWakeAll == Spec /\ Prompt => DisconnectWakesAll
<1>1. ASSUME NEW t \in Tasks
      PROVE  Spec /\ Prompt =>
                 (pc[t] = "waiting" /\ reader \in ReaderAwaits /\ (ws = "closed" \/ closing = "reader")
                     ~> pc[t] \in Finished)
  <2>1. pc[t] = "waiting" /\ reader \in ReaderAwaits /\ (ws = "closed" \/ closing = "reader")
            => \/ Woken(t) \/ AsleepInClose(t)
               \/ AsleepAt(t, "recv") \/ AsleepAt(t, "handling") \/ AsleepAt(t, "replying")
      BY DEF Woken, AsleepInClose, AsleepAt, Asleep, ReaderAwaits
  <2>2. Ended(t) <=> pc[t] \in Finished
      BY DEF Ended
  <2> QED
      BY <2>1, <2>2, WokenEnds, CloseWakes, LostReplyWakes, LostHandlingWakes,
         LostConnectionWakes, PTL
<1> QED
    BY <1>1 DEF DisconnectWakesAll

-----------------------------------------------------------------------------
(* A call or wait with a timeout ends, whatever the server does: also on a *)
(* connection whose reader is gone.                                        *)
TimedTasksEnd ==
    /\ \A t \in TimedTasks : pc[t] = "waiting" ~> pc[t] \in Finished
    /\ \A t \in TimedTasks \cap Calls : pc[t] = "sending" ~> pc[t] \in Finished

(* The timer or an earlier event settles the future.                       *)
LEMMA TimerWakes ==
    ASSUME NEW t \in TimedTasks
    PROVE  Spec /\ Prompt => (Awaiting(t) ~> Ended(t))
<1> DEFINE Unsettled == pc[t] = "waiting" /\ fut[t] = "pending"
<1>0. t \in Tasks
    BY TaskAssumption
<1>1. Steady /\ Unsettled /\ [Next]_vars => Unsettled' \/ Woken(t)'
    BY <1>0, NextMovesTasks DEF TaskMoves, Woken
<1>2. Steady /\ Unsettled /\ <<TimerFires(t)>>_vars => Woken(t)'
    BY <1>0 DEF TimerFires, Woken, Steady, Connection, Tables, TableTypes
<1>3. Steady /\ Unsettled => CanFire(t)
    BY <1>0 DEF Steady, Fresh, CanFire
<1>4. Awaiting(t) => Unsettled \/ Woken(t)
    BY DEF Awaiting, Woken
<1>5. Prompt => PromptTimer(t)
    BY DEF Prompt
<1>6. Spec /\ Prompt => (Woken(t) ~> Ended(t))
    BY <1>0, WokenEnds
<1> HIDE DEF Unsettled
<1> QED
    BY <1>1, <1>2, <1>3, <1>4, <1>5, <1>6, AlwaysSteady, PTL DEF Spec, PromptTimer, Promptly

(* With a timeout, neither a server that never answers nor a dead reader   *)
(* keeps _call_remote or wait_relay_predicate forever.                     *)
THEOREM TimeoutsBoundEveryWait == Spec /\ Prompt => TimedTasksEnd
<1>1. ASSUME NEW t \in TimedTasks
      PROVE  Spec /\ Prompt => (pc[t] = "waiting" ~> pc[t] \in Finished)
  <2>1. (Ended(t) <=> pc[t] \in Finished) /\ (Awaiting(t) <=> pc[t] = "waiting")
      BY DEF Ended, Awaiting
  <2> QED
      BY <2>1, TimerWakes, PTL
<1>2. ASSUME NEW t \in TimedTasks \cap Calls
      PROVE  Spec /\ Prompt => (pc[t] = "sending" ~> pc[t] \in Finished)
  <2>1. Ended(t) <=> pc[t] \in Finished
      BY DEF Ended
  <2>2. CanSend(t) <=> pc[t] = "sending"
      BY DEF CanSend
  <2>3. Steady /\ CanSend(t) /\ [Next]_vars
            => CanSend(t)' \/ Awaiting(t)' \/ Ended(t)'
      BY NextMovesTasks DEF TaskMoves, CanSend, Awaiting, Ended, Tasks
  <2>4. Steady /\ <<CallSent(t) \/ CallSendFails(t)>>_vars => Awaiting(t)' \/ Ended(t)'
      BY DEF CallSent, CallSendFails, Awaiting, Ended, Finished, Steady, Connection, Tables, TableTypes, Tasks
  <2>5. Prompt => PromptCall(t)
      BY DEF Prompt
  <2>6. Spec /\ Prompt => (Awaiting(t) ~> Ended(t))
    <3>1. t \in TimedTasks
        OBVIOUS
    <3> QED
        BY <3>1, TimerWakes
  <2> QED
      BY <2>1, <2>2, <2>3, <2>4, <2>5, <2>6, AlwaysSteady, PTL DEF Spec, PromptCall, Promptly
<1>3. Spec /\ Prompt => \A t \in TimedTasks : pc[t] = "waiting" ~> pc[t] \in Finished
    BY <1>1
<1>4. Spec /\ Prompt => \A t \in TimedTasks \cap Calls : pc[t] = "sending" ~> pc[t] \in Finished
    BY <1>2
<1> QED
    BY <1>3, <1>4 DEF TimedTasksEnd

-----------------------------------------------------------------------------
(* close() ends once it has begun, whatever the reader is doing and        *)
(* however it ends.                                                        *)
CloseEnds == closing # "idle" ~> closing = "idle"

(* What a step may do to a close() under way.                              *)
LEMMA CloseStep ==
    ASSUME Steady, [Next]_vars, closing # "idle"
    PROVE  \/ closing' = "idle"
           \/ closing = "reader" /\ closing' = "ws"
           \/ closing' = closing /\ reader' = reader
           \/ closing' = closing /\ closing = "reader" /\ reader' \in {"ended", "failed"}
<1>s. /\ ws = "none" => closing = "idle"
      /\ closing = "ws" => reader = "none" /\ ws = "closed"
      /\ closing \in {"idle", "reader", "ws"}
    BY DEF Steady, Connection, ConnSound, ConnTypes
<1>1. CASE UNCHANGED <<connVars, reader>>
    BY <1>1 DEF connVars
<1>2. CASE Cleaning
    BY <1>s, <1>2 DEF Cleaning, ReplyFails, HandlingRaises, RecvRaises, ReaderFails,
       ReaderSeesClose, ReaderCancelled, CloseReaderDone, CloseUnconnected, CloseAgain,
       DisconnectWaitCancelled, connVars, ReaderRuns, ReaderAwaits
<1>3. CASE Quiet
    BY <1>s, <1>3 DEF Quiet, Connect, PeerCloses, RecvAckOnly, RecvBlankEnvelope, HandlingDone,
       ReplySent, CloseBegin, CloseRaises, CloseWs, CloseCancelled, connVars, ReaderRuns
<1>4. ASSUME NEW r \in Rids, RecvEnvelope(r)
      PROVE  FALSE
    BY <1>s, <1>4 DEF RecvEnvelope, ReaderRuns
<1>5. ASSUME NEW c \in Calls,
             \/ RecvResponse(c) \/ CallRefused(c) \/ CallStart(c)
             \/ CallSent(c) \/ CallSendFails(c) \/ CallSendCancelled(c) \/ CallResume(c)
      PROVE  UNCHANGED <<connVars, reader>>
    BY <1>5 DEF RecvResponse, CallRefused, CallStart, CallSent, CallSendFails,
       CallSendCancelled, CallResume
<1>6. ASSUME NEW w \in Waits,
             \/ \E n \in stash : WaitFromStash(w, n)
             \/ \E r \in Rids : WaitRefused(w, r) \/ WaitStart(w, r)
             \/ WaitBlank(w) \/ WaitResume(w)
      PROVE  UNCHANGED <<connVars, reader>>
    BY <1>6 DEF WaitFromStash, WaitRefused, WaitStart, WaitBlank, WaitResume
<1>7. ASSUME NEW t, TimerFires(t) \/ TaskCancel(t) PROVE UNCHANGED <<connVars, reader>>
    BY <1>7 DEF TimerFires, TaskCancel
<1>8. CASE UNCHANGED vars
    BY <1>1, <1>8 DEF vars
<1> QED
    BY <1>1, <1>2, <1>3, <1>4, <1>5, <1>6, <1>7, <1>8, NextCases

(* close() awaits a reader that ends, and a socket that closes.            *)
THEOREM CloseAlwaysEnds == Spec /\ Prompt => CloseEnds
<1> DEFINE Idle == closing = "idle"
<1>0. Steady => Idle \/ CanCancel \/ CanForget \/ CanCloseWs
    BY DEF Steady, Connection, ConnTypes, ConnSound, CanCancel, CanForget, CanCloseWs
<1>1. Steady /\ CanCancel /\ [Next]_vars => CanCancel' \/ CanForget' \/ CanCloseWs' \/ Idle'
    BY CloseStep DEF CanCancel, CanForget, CanCloseWs, ReaderAwaits
<1>2. Steady /\ CanForget /\ [Next]_vars => CanForget' \/ CanCloseWs' \/ Idle'
    BY CloseStep DEF CanForget, CanCloseWs
<1>3. Steady /\ CanCloseWs /\ [Next]_vars => CanCloseWs' \/ Idle'
    BY CloseStep DEF CanCloseWs
<1>4. Steady /\ CanCancel /\ <<ReaderCancelled>>_vars => CanForget'
    BY DEF ReaderCancelled, connVars, CanCancel, CanForget
<1>5. <<CloseReaderDone \/ CloseRaises>>_vars => CanCloseWs' \/ Idle'
    BY DEF CloseReaderDone, CloseRaises, CanCloseWs
<1>6. <<CloseWs>>_vars => Idle'
    BY DEF CloseWs
<1>7. closing # "idle" <=> ~Idle
    OBVIOUS
<1>8. closing = "idle" <=> Idle
    OBVIOUS
<1> HIDE DEF Idle
<1> QED
    BY <1>0, <1>1, <1>2, <1>3, <1>4, <1>5, <1>6, <1>7, <1>8, AlwaysSteady, PTL
       DEF Spec, Prompt, Promptly, CloseEnds

=============================================================================
