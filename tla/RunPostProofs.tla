--------------------------- MODULE RunPostProofs ---------------------------
(***************************************************************************)
(* Proofs about RunPost for every number of parts, envelopes and timers:   *)
(* the command uses the client as RpcClient allows, posts in order, leaves *)
(* nothing behind, and reports what happened.                              *)
(***************************************************************************)
EXTENDS RunPost, RpcClientProofs

Trying == {"yielding", "next", "posting", "receipt", "unwinding", "settling", "closing"}

PTypes ==
    /\ main \in Trying \cup {"start", "closed", "ended"}
    /\ part \in 0 .. Parts
    /\ outcome \in {"none", "ok", "timeout", "cancelled", "error"}
    /\ ctrlC \in BOOLEAN

(* The parts before the current one are answered, those after it unsent.   *)
Posted ==
    /\ \A c \in Calls : c < part => pc[c] = "returned"
    /\ \A c \in Calls : c > part => pc[c] = "idle"
    /\ main = "posting" => part # 0 /\ pc[part] \in {"sending", "waiting"}
    /\ main # "posting" /\ part # 0 => pc[part] \in Finished
    /\ main \in {"next", "receipt"} /\ part # 0 => pc[part] = "returned"
    /\ main = "receipt" => part = Parts
    /\ main \in {"start", "yielding"} => part = 0

(* The wait is the command's own, there before the first part, and over    *)
(* before the client is closed.                                            *)
WaitOwn ==
    /\ main = "start" => pc[Waiter] = "idle"
    /\ main \in Trying \ {"yielding"} => pc[Waiter] # "idle"
    /\ part # 0 => pc[Waiter] # "idle"
    /\ main \in {"closing", "closed"} \/ closed # "none" => pc[Waiter] \in Finished
    /\ pc[Waiter] # "idle" => wrid[Waiter] = Rid
    /\ pc[Waiter] = "returned" => val[Waiter] # 0

(* One connection, and one close() at the end of the try statement.        *)
ClosedOnce ==
    /\ main = "start" => ws = "none" /\ closing = "idle" /\ closed = "none"
    /\ main \in Trying => reader # "none" /\ closing = "idle" /\ closed = "none"
    /\ main = "closed" => (closed = "none" <=> closing # "idle")
    /\ closed = "ok" => ws = "none"
    /\ closed = "raised" => reader = "failed"
    /\ closed = "cancelled" => ctrlC
    /\ closed # "none" => main \in {"closed", "ended"}

Complete == pc[Waiter] = "returned" /\ \A c \in Calls : pc[c] = "returned"

(* Why the try statement may end with an exception.                        *)
Broken ==
    \/ ctrlC
    \/ part # 0 /\ pc[part] \in Finished \ {"returned"}
    \/ pc[Waiter] \in Finished \ {"returned"}

OutcomeEarned ==
    /\ outcome = "ok" => Complete
    /\ main \in {"unwinding", "settling"} => outcome # "ok"
    /\ main \in {"unwinding", "settling", "closing", "closed"} => outcome = "ok" \/ Broken
    /\ main = "ended" /\ outcome = "ok" => closed = "ok"
    /\ main = "ended" /\ outcome # "ok" =>
          Broken \/ part = 0 \/ (outcome = "error" /\ reader = "failed")

PInv ==
    /\ Connection /\ Receipts
    /\ PTypes /\ Posted /\ WaitOwn /\ ClosedOnce /\ OutcomeEarned

-----------------------------------------------------------------------------
(* The tasks of the command: its calls, by number, and its wait.           *)
LEMMA PostTasks ==
    /\ Waiter \in Waits /\ Waits = {Waiter} /\ Waiter \in Tasks /\ Waiter \notin Calls
    /\ Calls \subseteq Nat \ {0} /\ Calls \subseteq Tasks /\ Parts \in Calls
    /\ \A n \in 0 .. Parts : n # 0 => n \in Calls
    /\ \A n \in 0 .. Parts : n < Parts => n + 1 \in Calls
    BY PostAssumption, TaskAssumption DEF Tasks

(* Every step of the command is a step of the client, or none.             *)
LEMMA PNextIsNext ==
    ASSUME PTypes, Posted, [PNext]_runVars
    PROVE  [Next]_vars
<1>1. CASE MainStep
  <2>1. CASE Open \/ OpenFails \/ Yielded \/ AwaitReceipt \/ GotReceipt \/ WaitRaises
             \/ Settled \/ Return
      BY <2>1 DEF Open, OpenFails, Yielded, AwaitReceipt, GotReceipt, WaitRaises, Settled,
                  Return, Next
  <2>2. CASE WaitTaskStarts
      BY <2>2, PostTasks, PostAssumption DEF WaitTaskStarts, Next, WaitStep
  <2>3. CASE PostPart
      BY <2>3, PostTasks DEF PostPart, PTypes, Next, CallStep
  <2>4. CASE PartSent \/ PartAnswered \/ PartRaises
      BY <2>4, PostTasks DEF PartSent, PartAnswered, PartRaises, PTypes, Posted, Next, CallStep
  <2>5. CASE Unwind
      BY <2>5, PostTasks DEF Unwind, Next
  <2>6. CASE CloseClient
      BY <2>6 DEF CloseClient, Next, Close
  <2> QED
      BY <1>1, <2>1, <2>2, <2>3, <2>4, <2>5, <2>6 DEF MainStep
<1>2. CASE Interrupt
  <2>1. main = "posting" => part \in Calls /\ part \in Tasks
      BY PostTasks DEF PTypes, Posted
  <2>2. \/ UNCHANGED vars
        \/ part \in Calls /\ CallSendCancelled(part)
        \/ part \in Tasks /\ TaskCancel(part)
        \/ TaskCancel(Waiter) \/ CloseCancelled
      BY <1>2, <2>1 DEF Interrupt
  <2> QED
      BY <2>2, PostTasks DEF Next, CallStep, Close
<1>3. CASE LoopStep
  <2>1. \/ Reader \/ PeerCloses
        \/ ReaderCancelled \/ CloseReaderDone \/ CloseRaises \/ CloseWs
        \/ WaitResume(Waiter)
        \/ \E t \in Tasks : TimerFires(t)
      BY <1>3 DEF LoopStep
  <2> QED
      BY <2>1, PostTasks, PostAssumption DEF Next, Close, WaitStep
<1>4. CASE UNCHANGED runVars
    BY <1>4 DEF runVars
<1> QED
    BY <1>1, <1>2, <1>3, <1>4 DEF PNext

-----------------------------------------------------------------------------
(* What runs while the command awaits ends no task but the wait, and       *)
(* changes the connection as close() directs.                              *)
LEMMA LoopTasks ==
    ASSUME Receipts, LoopStep
    PROVE  /\ UNCHANGED postVars /\ wrid' = wrid
           /\ \/ pc' = pc
              \/ /\ pc[Waiter] = "waiting" /\ pc'[Waiter] \in Finished
                 /\ \A c \in Calls : pc'[c] = pc[c]
                 /\ pc'[Waiter] = "returned" => val[Waiter] # 0
           /\ val[Waiter] # 0 => val'[Waiter] # 0
<1>1. UNCHANGED postVars
    BY DEF LoopStep
<1>2. CASE WaitResume(Waiter)
  <2>1. /\ pc[Waiter] = "waiting" /\ pc' = [pc EXCEPT ![Waiter] = Outcome(Waiter)]
        /\ wrid' = wrid /\ val' = val
      BY <1>2 DEF WaitResume
  <2>2. Outcome(Waiter) \in Finished
        /\ (Outcome(Waiter) = "returned" => fut[Waiter] = "result")
      BY DEF Outcome, Finished
  <2>3. fut[Waiter] = "result" => val[Waiter] # 0
      BY <2>1, PostTasks DEF Receipts, Tables, WaitSound
  <2>4. pc'[Waiter] = Outcome(Waiter) /\ \A c \in Calls : pc'[c] = pc[c]
      BY <2>1, PostTasks DEF Receipts, Tables, TableTypes
  <2> QED
      BY <1>1, <2>1, <2>2, <2>3, <2>4
<1>3. CASE \E r \in Rids : RecvEnvelope(r)
  <2>1. PICK r \in Rids : RecvEnvelope(r)
      BY <1>3
  <2>2. wrid' = wrid /\ pc' = pc
        /\ (val' = val \/ val' = [val EXCEPT ![waiters[r]] = Receipt])
      BY <2>1 DEF RecvEnvelope, RelayPublish
  <2>3. val \in [Waits -> Nat] /\ Receipt \in Nat \ {0}
      BY LenProperties DEF Receipts, Tables, TableTypes, Receipt
  <2> QED
      BY <1>1, <2>2, <2>3, PostTasks
<1>4. CASE \/ PeerCloses \/ RecvAckOnly \/ RecvBlankEnvelope \/ HandlingDone \/ ReplySent
           \/ CloseRaises \/ CloseWs
    BY <1>1, <1>4, QuietFrame DEF Quiet, relayVars, taskVars
<1>5. CASE ReplyFails \/ RecvRaises \/ ReaderSeesClose \/ ReaderCancelled \/ CloseReaderDone
  <2>1. Cleanup
      BY <1>5, CleaningCleans DEF Cleaning
  <2> QED
      BY <1>1, <2>1 DEF Cleanup
<1>6. CASE (\E c \in Calls : RecvResponse(c)) \/ (\E t \in Tasks : TimerFires(t))
    BY <1>1, <1>6 DEF RecvResponse, TimerFires, relayVars
<1> QED
    BY <1>2, <1>3, <1>4, <1>5, <1>6 DEF LoopStep, Reader

(* What the event loop may do to the connection while the command's task   *)
(* is suspended.                                                           *)
LEMMA LoopConnection ==
    ASSUME LoopStep
    PROVE  \/ /\ UNCHANGED <<closing, closed>> /\ (ws = "none" => ws' = "none")
              /\ reader # "none" => reader' # "none"
              /\ reader \in {"none", "ended", "failed"} => reader' = reader
           \/ closing = "reader" /\ closing' = "ws" /\ closed' = closed
           \/ /\ closing = "reader" /\ closing' = "idle" /\ closed' = "raised"
              /\ reader' = "failed"
           \/ closing = "ws" /\ closing' = "idle" /\ closed' = "ok" /\ ws' = "none"
<1> USE DEF connVars, ReaderRuns
<1>1. CASE CloseReaderDone \/ CloseRaises \/ CloseWs
    BY <1>1 DEF CloseReaderDone, CloseRaises, CloseWs
<1>2. CASE \/ PeerCloses \/ RecvAckOnly \/ RecvBlankEnvelope \/ HandlingDone \/ ReplySent
           \/ ReplyFails \/ RecvRaises \/ ReaderSeesClose \/ ReaderCancelled
    BY <1>2 DEF PeerCloses, RecvAckOnly, RecvBlankEnvelope, HandlingDone, ReplySent, ReplyFails,
                RecvRaises, ReaderFails, ReaderSeesClose, ReaderCancelled, ReaderAwaits
<1>3. CASE \/ \E r \in Rids : RecvEnvelope(r)
           \/ \E c \in Calls : RecvResponse(c)
           \/ \E t \in Tasks : TimerFires(t)
           \/ WaitResume(Waiter)
    BY <1>3 DEF RecvEnvelope, RecvResponse, TimerFires, WaitResume
<1> QED
    BY <1>1, <1>2, <1>3 DEF LoopStep, Reader

(* What the event loop does keeps the command's invariant.                 *)
LEMMA LoopKeeps ==
    ASSUME PInv, LoopStep
    PROVE  PTypes' /\ Posted' /\ WaitOwn' /\ ClosedOnce' /\ OutcomeEarned'
<1> USE DEF PInv
<1>1. /\ UNCHANGED <<main, part, outcome, ctrlC>> /\ wrid' = wrid
      /\ \/ pc' = pc
         \/ /\ pc[Waiter] = "waiting" /\ pc'[Waiter] \in Finished
            /\ \A c \in Calls : pc'[c] = pc[c]
            /\ pc'[Waiter] = "returned" => val[Waiter] # 0
      /\ val[Waiter] # 0 => val'[Waiter] # 0
    BY LoopTasks DEF postVars
<1>2. \A c \in Calls : pc'[c] = pc[c]
    BY <1>1
<1>3. part # 0 => part \in Calls
    BY PostTasks DEF PTypes
<1>4. main \notin {"next", "unwinding", "ended"} /\ ~(main = "closed" /\ closing = "idle")
    BY DEF LoopStep, Suspended
<1>5. PTypes' /\ Posted'
    BY <1>1, <1>2, <1>3 DEF PTypes, Posted
<1>6. ClosedOnce'
    BY <1>1, <1>4, LoopConnection DEF ClosedOnce, PTypes, Trying
<1>7. WaitOwn'
  <2>1. pc[Waiter] = "idle" => pc'[Waiter] = "idle"
      BY <1>1
  <2>2. pc[Waiter] # "idle" => pc'[Waiter] # "idle"
      BY <1>1 DEF Finished
  <2>3. pc[Waiter] \in Finished => pc'[Waiter] = pc[Waiter]
      BY <1>1 DEF Finished
  <2>4. pc'[Waiter] = "returned" => val'[Waiter] # 0
      BY <1>1 DEF WaitOwn
  <2>5. closed' # "none" => main = "closed"
      BY <1>1, <1>4, <1>6 DEF ClosedOnce
  <2> QED
      BY <1>1, <2>1, <2>2, <2>3, <2>4, <2>5 DEF WaitOwn
<1>8. OutcomeEarned'
  <2>1. Complete => Complete'
      BY <1>1, <1>2 DEF Complete
  <2>2. Broken => Broken'
      BY <1>1, <1>2, <1>3 DEF Broken, Finished
  <2> QED
      BY <1>1, <1>4, <2>1, <2>2 DEF OutcomeEarned
<1> QED
    BY <1>5, <1>6, <1>7, <1>8

-----------------------------------------------------------------------------
(* Steps of the command that touch no variable of the client.              *)
LEMMA QuietMainKeeps ==
    ASSUME PInv,
           \/ OpenFails \/ Yielded \/ AwaitReceipt \/ GotReceipt \/ WaitRaises
           \/ Unwind /\ UNCHANGED vars
           \/ Settled \/ Return
           \/ Interrupt /\ UNCHANGED vars
    PROVE  PTypes' /\ Posted' /\ WaitOwn' /\ ClosedOnce' /\ OutcomeEarned'
<1> USE DEF PInv
<1>1. UNCHANGED <<pc, wrid, val, ws, reader, closing, closed, part>>
    BY DEF OpenFails, Yielded, AwaitReceipt, GotReceipt, WaitRaises, Unwind, Settled, Return,
           Interrupt, Goto, vars, connVars, taskVars, relayVars
<1>2. Complete' = Complete
    BY <1>1 DEF Complete
<1>3. CASE OpenFails
    BY <1>1, <1>2, <1>3 DEF OpenFails, PTypes, Posted, WaitOwn, ClosedOnce, OutcomeEarned, Trying
<1>4. CASE Yielded \/ AwaitReceipt
    BY <1>1, <1>2, <1>4 DEF Yielded, AwaitReceipt, PTypes, Posted, WaitOwn, ClosedOnce,
                            OutcomeEarned, Trying, Broken
<1>5. CASE GotReceipt
  <2>1. main = "receipt" /\ main' = "closing" /\ outcome' = "ok" /\ ctrlC' = ctrlC
        /\ pc[Waiter] = "returned"
      BY <1>5 DEF GotReceipt
  <2>2. Complete
      BY <2>1, PostTasks, PostAssumption DEF Complete, Posted, PTypes
  <2> QED
      BY <1>1, <1>2, <2>1, <2>2 DEF PTypes, Posted, WaitOwn, ClosedOnce, OutcomeEarned, Trying,
                                    Finished
<1>6. CASE WaitRaises
  <2>1. /\ main = "receipt" /\ main' = "unwinding" /\ ctrlC' = ctrlC
        /\ outcome' \in {"timeout", "cancelled", "error"}
        /\ pc[Waiter] \in Finished \ {"returned"}
      BY <1>6 DEF WaitRaises, Raised
  <2> QED
      BY <1>1, <1>2, <2>1 DEF PTypes, Posted, WaitOwn, ClosedOnce, OutcomeEarned, Trying, Broken
<1>7. CASE Unwind /\ UNCHANGED vars
  <2>1. ~TaskCancel(Waiter)
    <3> SUFFICES ASSUME TaskCancel(Waiter) PROVE FALSE
        OBVIOUS
    <3>1. interrupt'[Waiter] = "cancel" /\ interrupt[Waiter] # "cancel"
        BY PostTasks DEF TaskCancel, Receipts, Tables, TableTypes
    <3> QED
        BY <1>7, <3>1 DEF vars, taskVars
  <2>2. /\ main = "unwinding" /\ pc[Waiter] \in Finished
        /\ main' = "closing" /\ UNCHANGED <<outcome, ctrlC>>
      BY <1>7, <2>1 DEF Unwind, Goto
  <2> QED
      BY <1>1, <1>2, <2>2 DEF PTypes, Posted, WaitOwn, ClosedOnce, OutcomeEarned, Trying, Broken
<1>8. CASE Settled
    BY <1>1, <1>2, <1>8 DEF Settled, Goto, PTypes, Posted, WaitOwn, ClosedOnce, OutcomeEarned,
                            Trying, Broken
<1>9. CASE Return
  <2>1. /\ main = "closed" /\ main' = "ended" /\ closing = "idle" /\ ctrlC' = ctrlC
        /\ \/ closed = "ok" /\ outcome' = outcome
           \/ closed = "raised" /\ outcome' = "error"
           \/ closed = "cancelled" /\ outcome' = "cancelled"
      BY <1>9 DEF Return, ClosedOnce, Connection, ConnTypes
  <2>2. Broken' = Broken
      BY <1>1, <2>1 DEF Broken
  <2> QED
      BY <1>1, <1>2, <2>1, <2>2 DEF PTypes, Posted, WaitOwn, ClosedOnce, OutcomeEarned, Trying,
                                    Broken
<1>10. CASE Interrupt /\ UNCHANGED vars
  <2>1. /\ ctrlC' = TRUE
        /\ \/ main \in {"start", "yielding"} /\ main' = "ended" /\ outcome' = "cancelled"
           \/ main = "receipt" /\ main' = "unwinding" /\ outcome' = "cancelled"
           \/ UNCHANGED <<main, outcome>>
           \/ FALSE
    <3>1. ~(main = "posting" /\ CallSendCancelled(part))
      <4> SUFFICES ASSUME main = "posting", CallSendCancelled(part) PROVE FALSE
          OBVIOUS
      <4>1. part \in Tasks
          BY PostTasks DEF PTypes, Posted
      <4>2. pc[part] = "sending" /\ pc'[part] = "cancelled"
          BY <4>1 DEF CallSendCancelled, Receipts, Tables, TableTypes
      <4> QED
          BY <1>1, <4>2
    <3> QED
        BY <1>10, <3>1 DEF Interrupt
  <2>2. Broken'
      BY <2>1 DEF Broken
  <2> QED
      BY <1>1, <1>2, <2>1, <2>2 DEF PTypes, Posted, WaitOwn, ClosedOnce, OutcomeEarned, Trying
<1> QED
    BY <1>3, <1>4, <1>5, <1>6, <1>7, <1>8, <1>9, <1>10

(* Steps of the command that start, drive or cancel a task of the client.  *)
LEMMA ActiveMainKeeps ==
    ASSUME PInv,
           \/ Open \/ WaitTaskStarts \/ PostPart \/ PartSent \/ PartAnswered \/ PartRaises
           \/ main = "unwinding" /\ TaskCancel(Waiter) /\ Goto("settling")
           \/ CloseClient
    PROVE  PTypes' /\ Posted' /\ WaitOwn' /\ ClosedOnce' /\ OutcomeEarned'
<1> USE DEF PInv
<1>t. pc \in [Tasks -> Finished \cup {"idle", "sending", "waiting"}]
      /\ wrid \in [Waits -> Rids \cup {Blank}] /\ val \in [Waits -> Nat]
    BY DEF Receipts, Tables, TableTypes
<1>p. part # 0 => part \in Calls
    BY PostTasks DEF PTypes
<1>1. CASE Open
  <2>1. /\ UNCHANGED <<pc, wrid, val, closing, part, outcome, ctrlC>>
        /\ closed' = "none" /\ reader' = "recv" /\ main = "start" /\ main' = "yielding"
      BY <1>1 DEF Open, Goto, Connect, relayVars, taskVars
  <2>2. Complete' = Complete
      BY <2>1 DEF Complete
  <2> QED
      BY <2>1, <2>2 DEF PTypes, Posted, WaitOwn, ClosedOnce, OutcomeEarned, Trying
<1>2. CASE WaitTaskStarts
  <2>1. /\ UNCHANGED <<ws, reader, closing, closed, main, part, outcome, ctrlC>>
        /\ main = "yielding" /\ pc[Waiter] = "idle"
        /\ pc' = [pc EXCEPT ![Waiter] = "returned"] \/ pc' = [pc EXCEPT ![Waiter] = "waiting"]
        /\ wrid' = [wrid EXCEPT ![Waiter] = Rid]
        /\ pc'[Waiter] = "returned" => val'[Waiter] # 0
    <3>1. CASE WaitStart(Waiter, Rid)
        BY <1>2, <1>t, <3>1, PostTasks DEF WaitTaskStarts, WaitStart, postVars, connVars
    <3>2. ASSUME NEW n \in stash, log[n] = Rid, WaitFromStash(Waiter, n)
          PROVE  <2>1
      <4>1. n # 0
          BY LenProperties DEF Receipts, Tables, TableTypes
      <4> QED
          BY <1>2, <1>t, <3>2, <4>1, PostTasks DEF WaitTaskStarts, WaitFromStash, postVars, connVars
    <3> QED
        BY <1>2, <3>1, <3>2 DEF WaitTaskStarts
  <2>2. \A c \in Calls : pc'[c] = pc[c]
      BY <1>t, <2>1, PostTasks
  <2>3. pc'[Waiter] \in {"returned", "waiting"} /\ wrid'[Waiter] = Rid
      BY <1>t, <2>1, PostTasks
  <2>4. outcome # "ok" /\ outcome' # "ok"
      BY <2>1, PostTasks DEF OutcomeEarned, Complete
  <2> QED
      BY <2>1, <2>2, <2>3, <2>4, <1>p DEF PTypes, Posted, WaitOwn, ClosedOnce, OutcomeEarned,
                                          Trying
<1>3. CASE PostPart
  <2>1. /\ UNCHANGED <<ws, reader, closing, closed, wrid, val, outcome, ctrlC>>
        /\ main = "next" /\ main' = "posting" /\ part < Parts /\ part' = part + 1
        /\ pc[part + 1] = "idle" /\ pc' = [pc EXCEPT ![part + 1] = "sending"]
      BY <1>3 DEF PostPart, CallStart, connVars, relayVars
  <2>2. part + 1 \in Calls /\ part + 1 \in Tasks /\ part' \in 0 .. Parts /\ part \in Nat
      BY <2>1, PostTasks, PostAssumption DEF PTypes
  <2>3. /\ pc'[part + 1] = "sending" /\ pc'[Waiter] = pc[Waiter]
        /\ \A c \in Calls : c # part + 1 => pc'[c] = pc[c]
      BY <1>t, <2>1, <2>2, PostTasks
  <2>4. PTypes'
      BY <2>1, <2>2 DEF PTypes, Trying
  <2>5. Posted'
    <3>1. \A c \in Calls : c \in Nat /\ c # 0
        BY PostTasks
    <3>2. \A c \in Calls : c < part + 1 => pc'[c] = "returned"
        BY <1>p, <2>1, <2>2, <2>3, <3>1 DEF Posted
    <3>3. \A c \in Calls : c > part + 1 => pc'[c] = "idle"
        BY <2>1, <2>2, <2>3, <3>1 DEF Posted
    <3> QED
        BY <2>1, <2>2, <2>3, <3>2, <3>3 DEF Posted
  <2>6. outcome # "ok"
      BY <2>1, <2>2 DEF OutcomeEarned, Complete
  <2> QED
      BY <2>1, <2>3, <2>4, <2>5, <2>6 DEF WaitOwn, ClosedOnce, OutcomeEarned, Trying
<1>4. CASE PartSent
  <2>1. /\ UNCHANGED <<ws, reader, closing, closed, wrid, val, main, part, outcome, ctrlC>>
        /\ main = "posting" /\ pc[part] = "sending" /\ pc' = [pc EXCEPT ![part] = "waiting"]
      BY <1>4 DEF PartSent, CallSent, connVars, relayVars, postVars
  <2>2. part \in Calls /\ part \in Tasks /\ part \in Nat
      BY <1>p, <2>1, PostTasks DEF Posted
  <2>3. /\ pc'[part] = "waiting" /\ pc'[Waiter] = pc[Waiter]
        /\ \A c \in Calls : c # part => pc'[c] = pc[c]
      BY <1>t, <2>1, <2>2, PostTasks
  <2>4. outcome # "ok"
      BY <2>1, <2>2 DEF OutcomeEarned, Complete
  <2>5. Posted'
      BY <2>1, <2>2, <2>3, PostTasks DEF Posted
  <2> QED
      BY <2>1, <2>2, <2>3, <2>4, <2>5 DEF PTypes, WaitOwn, ClosedOnce, OutcomeEarned, Trying
<1>5. CASE PartAnswered \/ PartRaises
  <2>1. /\ UNCHANGED <<ws, reader, closing, closed, wrid, val, part, ctrlC>>
        /\ main = "posting" /\ pc[part] \in {"sending", "waiting"}
        /\ pc' = [pc EXCEPT ![part] = "failed"] \/ pc' = [pc EXCEPT ![part] = Outcome(part)]
        /\ \/ pc'[part] = "returned" /\ main' = "next" /\ outcome' = outcome
           \/ /\ main' = "unwinding" /\ outcome' \in {"timeout", "cancelled", "error"}
              /\ pc' = [pc EXCEPT ![part] = "failed"] \/ pc'[part] # "returned"
      BY <1>5 DEF PartAnswered, PartRaises, CallSendFails, CallResume, Raised, Goto, connVars,
                  relayVars
  <2>2. part \in Calls /\ part \in Tasks /\ part \in Nat /\ part # 0
      BY <1>p, <2>1, PostTasks DEF Posted
  <2>3. Outcome(part) \in Finished
      BY DEF Outcome, Finished
  <2>4. /\ pc'[part] \in Finished /\ pc'[Waiter] = pc[Waiter]
        /\ \A c \in Calls : c # part => pc'[c] = pc[c]
      BY <1>t, <2>1, <2>2, <2>3, PostTasks DEF Finished
  <2>5. \/ pc'[part] = "returned" /\ main' = "next" /\ outcome' = outcome
        \/ /\ main' = "unwinding" /\ outcome' \in {"timeout", "cancelled", "error"}
           /\ pc'[part] # "returned"
      BY <1>t, <2>1, <2>2
  <2>6. outcome # "ok"
      BY <2>1, <2>2 DEF OutcomeEarned, Complete
  <2>7. Posted'
      BY <2>1, <2>2, <2>4, <2>5, PostTasks DEF Posted
  <2>8. main' = "unwinding" => Broken'
      BY <2>1, <2>2, <2>4, <2>5 DEF Broken
  <2>9. PTypes' /\ WaitOwn' /\ ClosedOnce'
      BY <2>1, <2>4, <2>5 DEF PTypes, WaitOwn, ClosedOnce, Trying
  <2>10. OutcomeEarned'
      BY <2>5, <2>6, <2>8 DEF OutcomeEarned
  <2> QED
      BY <2>7, <2>9, <2>10
<1>6. CASE main = "unwinding" /\ TaskCancel(Waiter) /\ Goto("settling")
  <2>1. /\ UNCHANGED <<ws, reader, closing, closed, pc, wrid, val, part, outcome, ctrlC>>
        /\ main = "unwinding" /\ main' = "settling"
      BY <1>6 DEF TaskCancel, Goto, connVars, relayVars
  <2>2. Complete' = Complete /\ Broken' = Broken
      BY <2>1 DEF Complete, Broken
  <2> QED
      BY <2>1, <2>2 DEF PTypes, Posted, WaitOwn, ClosedOnce, OutcomeEarned, Trying
<1>7. CASE CloseClient
  <2>1. /\ UNCHANGED <<ws, reader, closed, pc, wrid, val, part, outcome, ctrlC>>
        /\ main = "closing" /\ main' = "closed" /\ closing' = "reader"
      BY <1>7 DEF CloseClient, CloseBegin, Goto, relayVars, taskVars
  <2>2. Complete' = Complete /\ Broken' = Broken
      BY <2>1 DEF Complete, Broken
  <2> QED
      BY <2>1, <2>2 DEF PTypes, Posted, WaitOwn, ClosedOnce, OutcomeEarned, Trying
<1> QED
    BY <1>1, <1>2, <1>3, <1>4, <1>5, <1>6, <1>7

(* Ctrl-C that reaches a task of the client or its close().                *)
LEMMA InterruptKeeps ==
    ASSUME PInv, Interrupt
    PROVE  PTypes' /\ Posted' /\ WaitOwn' /\ ClosedOnce' /\ OutcomeEarned'
<1> USE DEF PInv
<1>t. pc \in [Tasks -> Finished \cup {"idle", "sending", "waiting"}]
    BY DEF Receipts, Tables, TableTypes
<1>p. part # 0 => part \in Calls
    BY PostTasks DEF PTypes
<1>0. ctrlC' = TRUE /\ part' = part /\ Broken'
    BY DEF Interrupt, Broken
<1>1. CASE UNCHANGED vars
    BY <1>1, QuietMainKeeps
<1>2. CASE main = "posting" /\ CallSendCancelled(part) /\ main' = "unwinding"
           /\ outcome' = "cancelled"
  <2>1. /\ UNCHANGED <<ws, reader, closing, closed, wrid, val>>
        /\ pc' = [pc EXCEPT ![part] = "cancelled"]
      BY <1>2 DEF CallSendCancelled, connVars, relayVars
  <2>2. part \in Calls /\ part \in Tasks /\ part \in Nat
      BY <1>p, <1>2, PostTasks DEF Posted
  <2>3. /\ pc'[part] = "cancelled" /\ pc'[Waiter] = pc[Waiter]
        /\ \A c \in Calls : c # part => pc'[c] = pc[c]
      BY <1>t, <2>1, <2>2, PostTasks
  <2>4. Posted'
      BY <1>0, <1>2, <2>2, <2>3, PostTasks DEF Posted, Finished
  <2> QED
      BY <1>0, <1>2, <2>1, <2>2, <2>3, <2>4 DEF PTypes, WaitOwn, ClosedOnce, OutcomeEarned, Trying
<1>3. CASE (TaskCancel(part) \/ TaskCancel(Waiter)) /\ UNCHANGED <<main, outcome>>
  <2>1. UNCHANGED <<ws, reader, closing, closed, pc, wrid, val, main, outcome, part>>
      BY <1>0, <1>3 DEF TaskCancel, connVars, relayVars
  <2>2. Complete' = Complete
      BY <2>1 DEF Complete
  <2> QED
      BY <1>0, <2>1, <2>2 DEF PTypes, Posted, WaitOwn, ClosedOnce, OutcomeEarned, Trying
<1>4. CASE main = "closed" /\ CloseCancelled /\ UNCHANGED <<main, outcome>>
  <2>1. /\ UNCHANGED <<ws, reader, pc, wrid, val, main, outcome, part>>
        /\ closing = "ws" /\ closing' = "idle" /\ closed' = "cancelled"
      BY <1>0, <1>4 DEF CloseCancelled, relayVars, taskVars
  <2>2. Complete' = Complete
      BY <2>1 DEF Complete
  <2> QED
      BY <1>0, <1>4, <2>1, <2>2 DEF PTypes, Posted, WaitOwn, ClosedOnce, OutcomeEarned, Trying
<1> QED
    BY <1>1, <1>2, <1>3, <1>4 DEF Interrupt

-----------------------------------------------------------------------------
(* At the start the command has not connected.                             *)
LEMMA PostInit == PInit => PInv
<1> SUFFICES ASSUME PInit PROVE PInv
    OBVIOUS
<1>1. Connection /\ Receipts
    BY InitConnection, InitReceipts DEF PInit
<1>2. /\ main = "start" /\ part = 0 /\ outcome = "none" /\ ctrlC = FALSE
      /\ ws = "none" /\ closing = "idle" /\ closed = "none"
      /\ \A t \in Tasks : pc[t] = "idle"
    BY DEF PInit, Init
<1>3. PTypes
  <2>1. part \in 0 .. Parts
      BY <1>2, PostAssumption
  <2>2. ctrlC \in BOOLEAN
      BY <1>2, Zenon
  <2> QED
      BY <1>2, <2>1, <2>2, Zenon DEF PTypes
<1>4. Posted /\ WaitOwn
    BY <1>2, PostTasks DEF Posted, WaitOwn, Trying
<1>5. ClosedOnce
    BY <1>2 DEF ClosedOnce, Trying
<1>6. OutcomeEarned
    BY <1>2 DEF OutcomeEarned
<1> QED
    BY <1>1, <1>3, <1>4, <1>5, <1>6 DEF PInv

(* Every step keeps the invariant.                                         *)
LEMMA PostStep == PInv /\ [PNext]_runVars => PInv'
<1> SUFFICES ASSUME PInv, [PNext]_runVars PROVE PInv'
    OBVIOUS
<1>1. [Next]_vars
    BY PNextIsNext DEF PInv
<1>2. Connection' /\ Receipts'
    BY <1>1, NextConnection, NextReceipts DEF PInv
<1>3. MainStep => PTypes' /\ Posted' /\ WaitOwn' /\ ClosedOnce' /\ OutcomeEarned'
    BY QuietMainKeeps, ActiveMainKeeps DEF MainStep, Unwind
<1>4. UNCHANGED runVars => PTypes' /\ Posted' /\ WaitOwn' /\ ClosedOnce' /\ OutcomeEarned'
    BY DEF runVars, vars, connVars, callVars, relayVars, taskVars, postVars, PInv, PTypes,
       Posted, WaitOwn, ClosedOnce, OutcomeEarned, Complete, Broken
<1>5. PTypes' /\ Posted' /\ WaitOwn' /\ ClosedOnce' /\ OutcomeEarned'
    BY <1>3, <1>4, LoopKeeps, InterruptKeeps DEF PNext
<1> QED
    BY <1>2, <1>5 DEF PInv

(* The invariant holds in every reachable state.                           *)
LEMMA PostInvariant == PSpec => []PInv
<1>1. PSpec => PInit /\ [][PNext]_runVars
    BY PTL DEF PSpec
<1> QED
    BY <1>1, PostInit, PostStep, PTL

(* run_post drives the client only as RpcClient allows, so that all that   *)
(* is proved of the client holds of it.                                    *)
THEOREM CommandIsRpcClient == PSpec => Spec
<1>1. PInit => Init
    BY DEF PInit
<1>2. PInv /\ [PNext]_runVars => [Next]_vars
    BY PNextIsNext DEF PInv
<1>3. PSpec => PInit /\ [][PNext]_runVars
    BY PTL DEF PSpec
<1> QED
    BY <1>1, <1>2, <1>3, PostInvariant, PTL DEF Spec

(* IsMailbox, for run_post: to the command the relay is a mailbox, in      *)
(* which a receipt that comes before, during or after the posts, even      *)
(* while Ctrl-C unwinds the command, goes to its wait or is kept.          *)
THEOREM CommandSeesMailbox == PSpec => IsMailbox
    BY CommandIsRpcClient, RelayIsMailbox, PTL

(* PostsInOrder, for run_post and post_message_chunked: nothing is sent    *)
(* before the wait is registered, and no part before the one before it is  *)
(* answered.                                                               *)
THEOREM PartsArePostedInOrder == PSpec => []PostsInOrder
<1>1. PInv => PostsInOrder
  <2> SUFFICES ASSUME PInv, NEW c \in Calls, pc[c] # "idle"
               PROVE  pc[Waiter] # "idle" /\ \A d \in 1 .. c - 1 : pc[d] = "returned"
      BY DEF PostsInOrder
  <2>1. c \in Nat /\ part \in Nat /\ c <= part /\ part # 0
      BY PostTasks, PostAssumption DEF PInv, Posted, PTypes
  <2>2. \A d \in 1 .. c - 1 : d \in Calls /\ d < part
      BY <2>1, PostAssumption
  <2> QED
      BY <2>1, <2>2 DEF PInv, Posted, WaitOwn
<1> QED
    BY <1>1, PostInvariant, PTL

(* NothingLeftBehind: after the try statement of run_post no task runs on, *)
(* no table has an entry, and the connection is gone unless close() failed *)
(* or was interrupted.                                                     *)
THEOREM CommandLeavesNothing == PSpec => []NothingLeftBehind
<1>1. PInv => NothingLeftBehind
  <2> SUFFICES ASSUME PInv, main = "ended", closed # "none"
               PROVE  /\ \A t \in Tasks : pc[t] \in Finished \cup {"idle"}
                      /\ pending = {} /\ \A r \in Rids : waiters[r] = NoWait
                      /\ ws = "none" \/ closed \in {"raised", "cancelled"}
      BY DEF NothingLeftBehind
  <2>1. pc[Waiter] \in Finished
      BY DEF PInv, WaitOwn
  <2>2. \A c \in Calls : pc[c] \in Finished \cup {"idle"}
      BY PostTasks DEF PInv, Posted, PTypes, Finished
  <2>3. \A t \in Tasks : pc[t] \in Finished \cup {"idle"}
      BY <2>1, <2>2, PostTasks DEF Tasks
  <2>4. pending = {}
      BY <2>2 DEF PInv, Receipts, Tables, TableTypes, NoLeakedEntry, Finished
  <2>5. \A r \in Rids : waiters[r] = NoWait
      BY <2>1, PostTasks DEF PInv, Receipts, Tables, TableTypes, NoLeakedEntry, Finished
  <2> QED
      BY <2>3, <2>4, <2>5 DEF PInv, ClosedOnce, Connection, ConnTypes
<1> QED
    BY <1>1, PostInvariant, PTL

(* ResultSound, for what run_post returns or raises: success means the     *)
(* receipt of the command's own request id, an answer to every part and a  *)
(* closed client; a failure in spite of all that is due to Ctrl-C or to a  *)
(* reader that had failed.                                                 *)
THEOREM CommandReportsTheTruth == PSpec => []ResultSound
<1>1. PInv => ResultSound
  <2> SUFFICES ASSUME PInv, main = "ended"
               PROVE  /\ outcome = "ok" =>
                             Complete /\ closed = "ok" /\ log[val[Waiter]] = Rid
                      /\ Complete /\ outcome # "ok" =>
                             ctrlC \/ (outcome = "error" /\ reader = "failed")
      BY DEF ResultSound, Complete
  <2>1. ASSUME outcome = "ok"
        PROVE  Complete /\ closed = "ok" /\ log[val[Waiter]] = Rid
    <3>1. Complete /\ closed = "ok"
        BY <2>1 DEF PInv, OutcomeEarned
    <3>2. val[Waiter] # 0 /\ wrid[Waiter] = Rid
        BY <3>1 DEF PInv, WaitOwn, Complete
    <3> QED
        BY <3>1, <3>2, PostTasks DEF PInv, Receipts, ReceiptExclusive
  <2>2. ASSUME Complete, outcome # "ok"
        PROVE  ctrlC \/ (outcome = "error" /\ reader = "failed")
    <3>1. part # 0
        BY <2>2, PostTasks DEF PInv, Posted, PTypes, Complete
    <3>2. part \in Calls
        BY <3>1, PostTasks DEF PInv, PTypes
    <3>3. Broken => ctrlC
        BY <2>2, <3>2 DEF Broken, Complete
    <3> QED
        BY <2>2, <3>1, <3>3 DEF PInv, OutcomeEarned
  <2> QED
      BY <2>1, <2>2
<1> QED
    BY <1>1, PostInvariant, PTL

=============================================================================
