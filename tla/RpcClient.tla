----------------------------- MODULE RpcClient -----------------------------
(***************************************************************************)
(* RpcProxyClientBase (src/rpcproxy/client/base.py): one WebSocket, one    *)
(* reader task, any number of tasks that call the server (_call_remote)    *)
(* or wait for a relayed envelope (wait_relay_predicate), and close().     *)
(*                                                                         *)
(* Everything runs on one event loop: a step of the model is what a task   *)
(* does between two awaits.  Method names, arguments and JSON are left     *)
(* out; a call is named by its call_id (a fresh uuid: used once), a        *)
(* receipt by its number in the order of publication.  The order of the    *)
(* OrderedDict _relay_stash is the order of those numbers, because only    *)
(* the newest receipt is ever inserted.                                    *)
(*                                                                         *)
(* External: the server (answers any call sent, or never; relays any       *)
(* envelope; closes at any time), websockets and asyncio.                  *)
(***************************************************************************)
EXTENDS Naturals, Sequences, FiniteSets, FiniteSetsExt

CONSTANTS
    Calls,          \* executions of _call_remote
    Waits,          \* executions of wait_relay_predicate
    NoWait,         \* "no waiter registered"
    Rids,           \* request ids
    Blank,          \* a request id that is empty after strip()
    StashMax,       \* relay_stash_max_size
    TimedTasks,     \* the calls and waits that have a timeout
    LateTimers,     \* a timer may fire after the future is done and before its
                    \* task runs again (asyncio.wait_for of Python 3.12 on)
    MaxConns,       \* bound: connections opened
    MaxEnvelopes    \* bound: envelopes published

VARIABLES
    ws,         \* _ws: "none", "open", or "closed" by the peer or by close()
    conn,       \* number of the current or last connection
    reader,     \* _reader_task: "none", where it awaits, or how it ended
    closing,    \* where close() awaits: "idle", "reader", "ws"
    closed,     \* outcome of the last close(): "none", "ok", "raised", "cancelled"
    pc,         \* where each call or wait is, or how it ended
    fut,        \* its future: "none", "pending", "result", "cancelled"
    interrupt,  \* what interrupted its await: "none", "timeout", "cancel"
    pending,    \* _pending: calls with a registered future
    callConn,   \* the connection a call uses
    waiters,    \* _relay_waiters: the wait registered for each request id
    wrid,       \* the request id of each wait
    val,        \* the receipt each wait got (0: none)
    stash,      \* _relay_stash: receipts nobody waited for
    log,        \* history: request ids of the published envelopes
    dropped     \* history: receipts superseded, evicted or cleared

connVars  == <<ws, conn, closing, closed>>
callVars  == <<pending, callConn>>
relayVars == <<waiters, wrid, val, stash, log, dropped>>
taskVars  == <<pc, fut, interrupt>>
vars      == <<connVars, reader, callVars, relayVars, taskVars>>

Tasks == Calls \cup Waits

ASSUME TaskAssumption ==
    /\ Calls \cap Waits = {}
    /\ NoWait \notin Waits
    /\ TimedTasks \subseteq Tasks

ASSUME RidAssumption == Blank \notin Rids

ASSUME StashMaxAssumption == StashMax \in Nat

ASSUME LateTimersAssumption == LateTimers \in BOOLEAN

ReaderAwaits == {"recv", "handling", "replying"}

Finished == {"returned", "timeout", "cancelled", "failed"}

-----------------------------------------------------------------------------
Init ==
    /\ ws = "none" /\ conn = 0 /\ reader = "none"
    /\ closing = "idle" /\ closed = "none"
    /\ pc = [t \in Tasks |-> "idle"]
    /\ fut = [t \in Tasks |-> "none"]
    /\ interrupt = [t \in Tasks |-> "none"]
    /\ pending = {} /\ callConn = [c \in Calls |-> 0]
    /\ waiters = [r \in Rids |-> NoWait]
    /\ wrid = [w \in Waits |-> Blank]
    /\ val = [w \in Waits |-> 0]
    /\ stash = {} /\ log = <<>> /\ dropped = {}

(***************************************************************************)
(* Cancel every unresolved future, empty both tables and the stash: the    *)
(* reader's finally block, close(), and _relay_cleanup.                    *)
(***************************************************************************)
Registered(t) == t \in pending \/ \E r \in Rids : waiters[r] = t

(* Mutant of Cleanup: only the relay's half is done.                       *)
CleanupRelayOnly ==
    /\ fut' = [t \in Tasks |->
                  IF t \in Waits /\ Registered(t) /\ fut[t] = "pending"
                  THEN "cancelled" ELSE fut[t]]
    /\ waiters' = [r \in Rids |-> NoWait]
    /\ stash' = {}
    /\ dropped' = dropped \cup stash
    /\ UNCHANGED <<pending, pc, interrupt, callConn, wrid, val, log>>

(* Mutant of Cleanup: only the calls' half is done.                        *)
CleanupCallsOnly ==
    /\ fut' = [t \in Tasks |->
                  IF t \in pending /\ fut[t] = "pending" THEN "cancelled" ELSE fut[t]]
    /\ pending' = {}
    /\ UNCHANGED <<pc, interrupt, callConn, relayVars>>

Cleanup ==
    /\ fut' = [t \in Tasks |->
                  IF Registered(t) /\ fut[t] = "pending" THEN "cancelled" ELSE fut[t]]
    /\ pending' = {}
    /\ waiters' = [r \in Rids |-> NoWait]
    /\ stash' = {}
    /\ dropped' = dropped \cup stash
    /\ UNCHANGED <<pc, interrupt, callConn, wrid, val, log>>

-----------------------------------------------------------------------------
(***************************************************************************)
(* connect() and the peer                                                  *)
(***************************************************************************)
Connect ==
    /\ ws = "none" /\ conn < MaxConns
    /\ ws' = "open" /\ conn' = conn + 1 /\ reader' = "recv"
    /\ closed' = "none"
    /\ UNCHANGED <<closing, callVars, relayVars, taskVars>>

PeerCloses ==
    /\ ws = "open"
    /\ ws' = "closed"
    /\ UNCHANGED <<conn, closing, closed, reader, callVars, relayVars, taskVars>>

-----------------------------------------------------------------------------
(***************************************************************************)
(* The reader task.  After close() has cancelled it, it takes no further   *)
(* step but to end.                                                        *)
(***************************************************************************)
ReaderRuns(at) == reader = at /\ closing # "reader"

(* _try_complete_pending: a response to a call in _pending.  The future    *)
(* may be done already.  A response that matches no call goes to           *)
(* on_unmatched_message and changes nothing.                               *)
RecvResponse(c) ==
    /\ ReaderRuns("recv")
    /\ c \in pending /\ callConn[c] = conn
    /\ pending' = pending \ {c}
    /\ fut' = [fut EXCEPT ![c] = IF @ = "pending" THEN "result" ELSE @]
    /\ UNCHANGED <<connVars, reader, callConn, relayVars, pc, interrupt>>

(* A frame answered without a handler: _ping_, _get_channel_id_, a chunk   *)
(* that completes nothing, a chunk push refused.                           *)
RecvAckOnly ==
    /\ ReaderRuns("recv")
    /\ reader' = "replying"
    /\ UNCHANGED <<connVars, callVars, relayVars, taskVars>>

(* _relay_publish: to the waiter if its future is pending, else to the     *)
(* stash, which keeps the newest receipt of a request id and evicts the    *)
(* oldest entry beyond StashMax.                                           *)
Receipt == Len(log) + 1

(* Mutant of Stashed: a full stash drops the newcomer.                     *)
StashedDroppingNew(rid) ==
    LET kept == {n \in stash : log[n] # rid} \cup {Receipt}
    IN  IF StashMax = 0 THEN stash
        ELSE IF Cardinality(kept) > StashMax THEN kept \ {Receipt}
        ELSE kept

Stashed(rid) ==
    LET kept == {n \in stash : log[n] # rid} \cup {Receipt}
    IN  IF StashMax = 0 THEN stash
        ELSE IF Cardinality(kept) > StashMax THEN kept \ {Min(kept)}
        ELSE kept

Wakes(rid) == waiters[rid] # NoWait /\ fut[waiters[rid]] = "pending"

(* Mutant of RelayPublish: a receipt for a waiter that is done is thrown   *)
(* away instead of stashed.                                                *)
RelayPublishDropping(rid) ==
    /\ log' = Append(log, rid)
    /\ waiters' = [waiters EXCEPT ![rid] = NoWait]
    /\ IF Wakes(rid)
       THEN /\ fut' = [fut EXCEPT ![waiters[rid]] = "result"]
            /\ val' = [val EXCEPT ![waiters[rid]] = Receipt]
            /\ UNCHANGED <<stash, dropped>>
       ELSE /\ stash' = IF waiters[rid] # NoWait THEN stash ELSE Stashed(rid)
            /\ dropped' = IF waiters[rid] # NoWait THEN dropped
                          ELSE dropped \cup ((stash \cup {Receipt}) \ Stashed(rid))
            /\ UNCHANGED <<fut, val>>
    /\ UNCHANGED wrid

RelayPublish(rid) ==
    /\ log' = Append(log, rid)
    /\ waiters' = [waiters EXCEPT ![rid] = NoWait]
    /\ IF Wakes(rid)
       THEN /\ fut' = [fut EXCEPT ![waiters[rid]] = "result"]
            /\ val' = [val EXCEPT ![waiters[rid]] = Receipt]
            /\ UNCHANGED <<stash, dropped>>
       ELSE /\ stash' = Stashed(rid)
            /\ dropped' = dropped \cup ((stash \cup {Receipt}) \ Stashed(rid))
            /\ UNCHANGED <<fut, val>>
    /\ UNCHANGED wrid

(* A whole envelope, or the chunk that completes one, is published before  *)
(* receive_envelope is awaited.                                            *)
RecvEnvelope(rid) ==
    /\ ReaderRuns("recv") /\ Len(log) < MaxEnvelopes
    /\ reader' = "handling"
    /\ RelayPublish(rid)
    /\ UNCHANGED <<connVars, callVars, pc, interrupt>>

(* An envelope with a blank request id is handled and not published.       *)
RecvBlankEnvelope ==
    /\ ReaderRuns("recv")
    /\ reader' = "handling"
    /\ UNCHANGED <<connVars, callVars, relayVars, taskVars>>

HandlingDone ==
    /\ ReaderRuns("handling")
    /\ reader' = "replying"
    /\ UNCHANGED <<connVars, callVars, relayVars, taskVars>>

(* ws.send of the reply.                                                   *)
ReplySent ==
    /\ ReaderRuns("replying") /\ ws = "open"
    /\ reader' = "recv"
    /\ UNCHANGED <<connVars, callVars, relayVars, taskVars>>

(* An exception that the reader loop does not catch: ConnectionClosed from *)
(* ws.send, an exception of receive_envelope, or is_chunk_envelope on a    *)
(* chunk whose version is missing.                                         *)
ReaderFails ==
    /\ reader' = "failed"
    /\ Cleanup
    /\ UNCHANGED connVars

ReplyFails == ReaderRuns("replying") /\ ws = "closed" /\ ReaderFails

HandlingRaises == ReaderRuns("handling") /\ ReaderFails

RecvRaises == ReaderRuns("recv") /\ ReaderFails

(* recv() raises ConnectionClosed: the loop ends.                          *)
ReaderSeesClose ==
    /\ ReaderRuns("recv") /\ ws = "closed"
    /\ reader' = "ended"
    /\ Cleanup
    /\ UNCHANGED connVars

(* A task that awaits wait_until_disconnected is cancelled, and with it    *)
(* the reader it awaits: the reader ends, on a connection that stays open. *)
DisconnectWaitCancelled ==
    /\ reader \in ReaderAwaits /\ closing # "reader"
    /\ reader' = "ended"
    /\ Cleanup
    /\ UNCHANGED connVars

Reader ==
    \/ \E c \in Calls : RecvResponse(c)
    \/ \E r \in Rids : RecvEnvelope(r)
    \/ RecvAckOnly \/ RecvBlankEnvelope
    \/ HandlingDone \/ ReplySent
    \/ ReplyFails \/ HandlingRaises \/ RecvRaises
    \/ ReaderSeesClose

-----------------------------------------------------------------------------
(***************************************************************************)
(* close()                                                                 *)
(***************************************************************************)
CloseBegin ==
    /\ closing = "idle" /\ reader # "none"
    /\ closing' = "reader"
    /\ UNCHANGED <<ws, conn, closed, reader, callVars, relayVars, taskVars>>

(* The cancelled reader leaves its await and runs its finally block.       *)
ReaderCancelled ==
    /\ closing = "reader" /\ reader \in ReaderAwaits
    /\ reader' = "ended"
    /\ Cleanup
    /\ UNCHANGED connVars

(* Mutant of CloseReaderDone: the reader task is not forgotten.            *)
CloseReaderKept ==
    /\ closing = "reader" /\ reader = "ended"
    /\ closing' = "ws" /\ ws' = "closed"
    /\ Cleanup
    /\ UNCHANGED <<conn, closed, reader>>

(* The reader has ended: forget it, clean up, start to close the socket.   *)
CloseReaderDone ==
    /\ closing = "reader" /\ reader = "ended"
    /\ reader' = "none" /\ closing' = "ws" /\ ws' = "closed"
    /\ Cleanup
    /\ UNCHANGED <<conn, closed>>

(* The reader has failed: awaiting it raises, and close() goes no further. *)
CloseRaises ==
    /\ closing = "reader" /\ reader = "failed"
    /\ closing' = "idle" /\ closed' = "raised"
    /\ UNCHANGED <<ws, conn, reader, callVars, relayVars, taskVars>>

CloseWs ==
    /\ closing = "ws"
    /\ ws' = "none" /\ closing' = "idle" /\ closed' = "ok"
    /\ UNCHANGED <<conn, reader, callVars, relayVars, taskVars>>

(* close() without a connection still cancels the waits and empties the    *)
(* stash: wait_relay_predicate needs no connection.                        *)
CloseUnconnected ==
    /\ closing = "idle" /\ reader = "none" /\ ws = "none"
    /\ closed' = "ok"
    /\ Cleanup
    /\ UNCHANGED <<ws, conn, closing, reader>>

(* The task in close() is cancelled.  While it awaits the reader, close()  *)
(* swallows the cancellation and goes on; in ws.close() it propagates and  *)
(* _ws stays set.                                                          *)
CloseCancelled ==
    /\ closing = "ws"
    /\ closing' = "idle" /\ closed' = "cancelled"
    /\ UNCHANGED <<ws, conn, reader, callVars, relayVars, taskVars>>

(* close() again, after a close() that left _ws set.                       *)
CloseAgain ==
    /\ closing = "idle" /\ reader = "none" /\ ws = "closed"
    /\ closing' = "ws"
    /\ Cleanup
    /\ UNCHANGED <<ws, conn, closed, reader>>

Close ==
    \/ CloseBegin \/ ReaderCancelled \/ CloseReaderDone \/ CloseRaises \/ CloseWs
    \/ CloseUnconnected \/ CloseCancelled \/ CloseAgain

-----------------------------------------------------------------------------
(***************************************************************************)
(* _call_remote                                                            *)
(***************************************************************************)
CallRefused(c) ==
    /\ pc[c] = "idle" /\ ws = "none"
    /\ pc' = [pc EXCEPT ![c] = "failed"]
    /\ UNCHANGED <<connVars, reader, callVars, relayVars, fut, interrupt>>

CallStart(c) ==
    /\ pc[c] = "idle" /\ ws # "none"
    /\ pc' = [pc EXCEPT ![c] = "sending"]
    /\ fut' = [fut EXCEPT ![c] = "pending"]
    /\ pending' = pending \cup {c}
    /\ callConn' = [callConn EXCEPT ![c] = conn]
    /\ UNCHANGED <<connVars, reader, relayVars, interrupt>>

(* The response may be there before ws.send returns.                       *)
CallSent(c) ==
    /\ pc[c] = "sending" /\ ws = "open" /\ callConn[c] = conn
    /\ pc' = [pc EXCEPT ![c] = "waiting"]
    /\ UNCHANGED <<connVars, reader, callVars, relayVars, fut, interrupt>>

(* ws.send raises; the finally block forgets the future.                   *)
CallSendFails(c) ==
    /\ pc[c] = "sending" /\ (ws # "open" \/ callConn[c] # conn)
    /\ pc' = [pc EXCEPT ![c] = "failed"]
    /\ pending' = pending \ {c}
    /\ fut' = [fut EXCEPT ![c] = IF @ = "pending" THEN "cancelled" ELSE @]
    /\ UNCHANGED <<connVars, reader, callConn, relayVars, interrupt>>

(* The caller is cancelled in ws.send.                                     *)
CallSendCancelled(c) ==
    /\ pc[c] = "sending"
    /\ pc' = [pc EXCEPT ![c] = "cancelled"]
    /\ pending' = pending \ {c}
    /\ fut' = [fut EXCEPT ![c] = IF @ = "pending" THEN "cancelled" ELSE @]
    /\ UNCHANGED <<connVars, reader, callConn, relayVars, interrupt>>

(***************************************************************************)
(* Awaiting a future, with wait_for when there is a timeout                *)
(***************************************************************************)

(* Mutant of TimerFires: the future is not cancelled.                      *)
TimerFiresSilently(t) ==
    /\ t \in TimedTasks /\ pc[t] = "waiting" /\ interrupt[t] = "none"
    /\ fut[t] = "pending" \/ LateTimers
    /\ interrupt' = [interrupt EXCEPT ![t] = "timeout"]
    /\ UNCHANGED <<connVars, reader, callVars, relayVars, pc, fut>>

(* The timer cancels the await: the future if it is pending; a future that *)
(* is done is left alone, and its task gets TimeoutError all the same.     *)
TimerFires(t) ==
    /\ t \in TimedTasks /\ pc[t] = "waiting" /\ interrupt[t] = "none"
    /\ fut[t] = "pending" \/ LateTimers
    /\ interrupt' = [interrupt EXCEPT ![t] = "timeout"]
    /\ fut' = [fut EXCEPT ![t] = IF @ = "pending" THEN "cancelled" ELSE @]
    /\ UNCHANGED <<connVars, reader, callVars, relayVars, pc>>

(* The task is cancelled by its owner (cli_post.run_post, Ctrl-C), which   *)
(* overrides a timer that has fired.                                       *)
TaskCancel(t) ==
    /\ pc[t] = "waiting" /\ interrupt[t] # "cancel"
    /\ interrupt' = [interrupt EXCEPT ![t] = "cancel"]
    /\ fut' = [fut EXCEPT ![t] = IF @ = "pending" THEN "cancelled" ELSE @]
    /\ UNCHANGED <<connVars, reader, callVars, relayVars, pc>>

(* wait_for before Python 3.12 swallows a cancellation that comes after    *)
(* the result.                                                             *)
CancelLost(t) == fut[t] = "result" /\ t \in TimedTasks /\ ~LateTimers

(* How the await ends once the future is done.                             *)
Outcome(t) ==
    IF interrupt[t] = "timeout" THEN "timeout"
    ELSE IF fut[t] = "result" /\ (interrupt[t] = "cancel" => CancelLost(t)) THEN "returned"
    ELSE "cancelled"

(* Mutant of CallResume: only a call that returns is taken out.            *)
CallResumeLeaking(c) ==
    /\ pc[c] = "waiting" /\ fut[c] # "pending"
    /\ pc' = [pc EXCEPT ![c] = Outcome(c)]
    /\ pending' = IF Outcome(c) = "returned" THEN pending \ {c} ELSE pending
    /\ UNCHANGED <<connVars, reader, callConn, relayVars, fut, interrupt>>

CallResume(c) ==
    /\ pc[c] = "waiting" /\ fut[c] # "pending"
    /\ pc' = [pc EXCEPT ![c] = Outcome(c)]
    /\ pending' = pending \ {c}
    /\ UNCHANGED <<connVars, reader, callConn, relayVars, fut, interrupt>>

-----------------------------------------------------------------------------
(***************************************************************************)
(* wait_relay_predicate                                                    *)
(***************************************************************************)
HasStashed(rid) == \E n \in stash : log[n] = rid

(* The receipt n stashed for the request id is popped and returned.        *)
WaitFromStash(w, n) ==
    /\ pc[w] = "idle" /\ n \in stash
    /\ pc' = [pc EXCEPT ![w] = "returned"]
    /\ wrid' = [wrid EXCEPT ![w] = log[n]]
    /\ val' = [val EXCEPT ![w] = n]
    /\ stash' = stash \ {n}
    /\ UNCHANGED <<connVars, reader, callVars, waiters, log, dropped, fut, interrupt>>

(* ValueError for a blank request id.                                      *)
WaitBlank(w) ==
    /\ pc[w] = "idle"
    /\ pc' = [pc EXCEPT ![w] = "failed"]
    /\ UNCHANGED <<connVars, reader, callVars, relayVars, fut, interrupt>>

(* RuntimeError for a request id somebody waits for already.               *)
WaitRefused(w, rid) ==
    /\ pc[w] = "idle" /\ ~HasStashed(rid) /\ waiters[rid] # NoWait
    /\ pc' = [pc EXCEPT ![w] = "failed"]
    /\ UNCHANGED <<connVars, reader, callVars, relayVars, fut, interrupt>>

WaitStart(w, rid) ==
    /\ pc[w] = "idle" /\ ~HasStashed(rid) /\ waiters[rid] = NoWait
    /\ pc' = [pc EXCEPT ![w] = "waiting"]
    /\ fut' = [fut EXCEPT ![w] = "pending"]
    /\ wrid' = [wrid EXCEPT ![w] = rid]
    /\ waiters' = [waiters EXCEPT ![rid] = w]
    /\ UNCHANGED <<connVars, reader, callVars, val, stash, log, dropped, interrupt>>

(* Mutant of WaitResume: the entry of the request id is removed, whoever   *)
(* registered it.                                                          *)
WaitResumeAnyEntry(w) ==
    /\ pc[w] = "waiting" /\ fut[w] # "pending"
    /\ pc' = [pc EXCEPT ![w] = Outcome(w)]
    /\ waiters' = [waiters EXCEPT ![wrid[w]] = NoWait]
    /\ UNCHANGED <<connVars, reader, callVars, wrid, val, stash, log, dropped, fut, interrupt>>

(* The finally block removes the entry only if it is still this wait's.    *)
WaitResume(w) ==
    /\ pc[w] = "waiting" /\ fut[w] # "pending"
    /\ pc' = [pc EXCEPT ![w] = Outcome(w)]
    /\ waiters' = [r \in Rids |->
                      IF r = wrid[w] /\ waiters[r] = w THEN NoWait ELSE waiters[r]]
    /\ UNCHANGED <<connVars, reader, callVars, wrid, val, stash, log, dropped, fut, interrupt>>

-----------------------------------------------------------------------------
CallStep(c) ==
    \/ CallRefused(c) \/ CallStart(c) \/ CallSent(c) \/ CallSendFails(c)
    \/ CallSendCancelled(c) \/ CallResume(c)

WaitStep(w) ==
    \/ \E n \in stash : WaitFromStash(w, n)
    \/ \E r \in Rids : WaitRefused(w, r) \/ WaitStart(w, r)
    \/ WaitBlank(w) \/ WaitResume(w)

Next ==
    \/ Connect \/ PeerCloses \/ Reader \/ DisconnectWaitCancelled \/ Close
    \/ \E c \in Calls : CallStep(c)
    \/ \E w \in Waits : WaitStep(w)
    \/ \E t \in TimedTasks : TimerFires(t)
    \/ \E t \in Tasks : TaskCancel(t)

Spec == Init /\ [][Next]_vars

(***************************************************************************)
(* Fairness: the event loop runs what is ready (the reader between two     *)
(* frames, a cancelled or resolved await, close()), a timer that is due    *)
(* fires, receive_envelope returns, and ws.send and ws.close end (the      *)
(* keepalive of websockets breaks a connection whose peer is gone).  No    *)
(* fairness for the server, for callers, or for failures.                  *)
(***************************************************************************)
Fairness ==
    /\ WF_vars(HandlingDone) /\ WF_vars(ReplySent \/ ReplyFails)
    /\ WF_vars(ReaderSeesClose)
    /\ WF_vars(ReaderCancelled) /\ WF_vars(CloseReaderDone \/ CloseRaises) /\ WF_vars(CloseWs)
    /\ \A c \in Calls : WF_vars(CallSent(c) \/ CallSendFails(c)) /\ WF_vars(CallResume(c))
    /\ \A w \in Waits : WF_vars(WaitResume(w))
    /\ \A t \in TimedTasks : WF_vars(TimerFires(t))

FairSpec == Spec /\ Fairness

-----------------------------------------------------------------------------
(***************************************************************************)
(* Safety                                                                  *)
(***************************************************************************)

(* Every variable keeps its shape; without a socket there is no reader.    *)
TypeOK ==
    /\ ws \in {"none", "open", "closed"}
    /\ conn \in Nat
    /\ reader \in ReaderAwaits \cup {"none", "ended", "failed"}
    /\ closing \in {"idle", "reader", "ws"}
    /\ closed \in {"none", "ok", "raised", "cancelled"}
    /\ pc \in [Tasks -> Finished \cup {"idle", "sending", "waiting"}]
    /\ fut \in [Tasks -> {"none", "pending", "result", "cancelled"}]
    /\ interrupt \in [Tasks -> {"none", "timeout", "cancel"}]
    /\ pending \subseteq Calls
    /\ callConn \in [Calls -> Nat]
    /\ waiters \in [Rids -> Waits \cup {NoWait}]
    /\ wrid \in [Waits -> Rids \cup {Blank}]
    /\ val \in [Waits -> Nat]
    /\ log \in Seq(Rids)
    /\ stash \subseteq DOMAIN log
    /\ dropped \subseteq DOMAIN log
    /\ ws = "none" => reader = "none"

(* Whoever awaits an unresolved future can still be woken: its future is   *)
(* in the table that responses, envelopes and the cleanup go through.  The *)
(* finally block of an older wait, a late response or a cleanup between    *)
(* two awaits must not take it out.                                        *)
NoLostWakeup ==
    /\ \A c \in Calls : fut[c] = "pending" => c \in pending
    /\ \A w \in Waits : fut[w] = "pending" => waiters[wrid[w]] = w

(* The tables hold only tasks that are still inside their call: whichever  *)
(* way a call or a wait ends, its entry is gone.                           *)
NoLeakedEntry ==
    /\ \A c \in pending : pc[c] \in {"sending", "waiting"}
    /\ \A r \in Rids : waiters[r] # NoWait =>
          pc[waiters[r]] = "waiting" /\ wrid[waiters[r]] = r

(* A receipt is never stashed under a request id that has a registered     *)
(* waiter, so that no waiter sleeps next to its receipt.                   *)
StashWaiterExclusive == \A n \in stash : waiters[log[n]] = NoWait

(* The stash is bounded and holds, of each request id, the newest receipt. *)
StashSound ==
    /\ Cardinality(stash) <= StashMax
    /\ \A n \in stash : \A m \in DOMAIN log : log[m] = log[n] => m <= n

(* A receipt reaches at most one wait, one for its own request id, and is  *)
(* not kept for a second one.                                              *)
ReceiptExclusive ==
    \A w \in Waits : val[w] # 0 =>
        /\ val[w] \in DOMAIN log /\ log[val[w]] = wrid[w]
        /\ val[w] \notin stash
        /\ \A v \in Waits : val[v] = val[w] => v = w

(* No receipt is lost: each one is stashed, was dropped for a newer one,   *)
(* for lack of room or by a cleanup, or belongs to a wait that returns it  *)
(* unless its owner cancels it.                                            *)
ReceiptAccounted ==
    \A n \in DOMAIN log :
        \/ n \in stash
        \/ n \in dropped
        \/ \E w \in Waits : /\ val[w] = n
                            /\ \/ pc[w] \in {"waiting", "returned"}
                               \/ interrupt[w] = "cancel"

(* A call that awaits its response awaits it from the current connection,  *)
(* before close() has forgotten the reader: the reader or close() will     *)
(* resolve or cancel it.  (A call made after the reader has stopped on an  *)
(* open connection waits for close() or its timeout.)                      *)
AwaitsCurrentConnection ==
    \A c \in Calls : pc[c] = "waiting" /\ fut[c] = "pending" =>
        callConn[c] = conn /\ reader # "none"

Asking == {w \in Waits : fut[w] = "pending"}

Mailbox == INSTANCE ReceiptMailbox WITH asking <- Asking

(* To its callers the relay is the mailbox of ReceiptMailbox, whatever the *)
(* connection, timers and cancellations do: the receipt of a request id    *)
(* goes to the wait that can still take it, else to the stash, the oldest  *)
(* leave first, and nobody falls asleep beside a receipt.                  *)
IsMailbox == Mailbox!Spec

-----------------------------------------------------------------------------
(***************************************************************************)
(* Liveness                                                                *)
(***************************************************************************)

(* When the connection is lost, or is being closed, while the reader is    *)
(* alive, every call and every wait ends.                                  *)
DisconnectWakesAll ==
    \A t \in Tasks :
        pc[t] = "waiting" /\ reader \in ReaderAwaits /\ (ws = "closed" \/ closing = "reader")
            ~> pc[t] \in Finished

=============================================================================
