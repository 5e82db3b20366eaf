------------------------------ MODULE RunPost ------------------------------
(***************************************************************************)
(* rpcproxy post (cli_post.run_post and post_cmd): connect, start to wait  *)
(* for the receipt, post the body as one call or as one call for each      *)
(* chunk (post_message_auto), await the receipt, and on every way out      *)
(* cancel the wait and close the client.  The client is RpcClient with the *)
(* calls 1 .. Parts and the wait Waiter; the user may press Ctrl-C once,   *)
(* which cancels the task that runs run_post.                              *)
(*                                                                         *)
(* Main is "next" or "unwinding" between two awaits: nothing else runs.    *)
(***************************************************************************)
EXTENDS RpcClient

CONSTANTS
    Parts,      \* post_message calls the body needs
    Waiter,     \* wait_task
    Rid         \* the request id

VARIABLES
    main,       \* where run_post is
    part,       \* the call it makes
    outcome,    \* what the try statement or close() raised, "ok" if nothing
    ctrlC       \* the user has pressed Ctrl-C

postVars == <<main, part, outcome, ctrlC>>
runVars  == <<vars, postVars>>

ASSUME PostAssumption ==
    /\ Parts \in Nat \ {0} /\ Calls = 1 .. Parts
    /\ Waits = {Waiter} /\ Rid \in Rids
    /\ TimedTasks = Tasks

PInit ==
    /\ Init
    /\ main = "start" /\ part = 0 /\ outcome = "none" /\ ctrlC = FALSE

Goto(place) == main' = place /\ UNCHANGED <<part, outcome, ctrlC>>

(***************************************************************************)
(* connect() is outside the try statement.  When it has returned,          *)
(* sleep(0) lets wait_task register before the first call is sent.         *)
(***************************************************************************)
Open ==
    /\ main = "start"
    /\ Connect
    /\ Goto("yielding")

OpenFails ==
    /\ main = "start"
    /\ main' = "ended" /\ outcome' = "error"
    /\ UNCHANGED <<vars, part, ctrlC>>

WaitTaskStarts ==
    /\ main = "yielding"
    /\ \/ WaitStart(Waiter, Rid)
       \/ \E n \in stash : log[n] = Rid /\ WaitFromStash(Waiter, n)
    /\ UNCHANGED postVars

(* Mutant of Yielded: without sleep(0) the first call comes first.         *)
NotYielded ==
    /\ main = "yielding"
    /\ main' = "next"
    /\ UNCHANGED <<vars, part, outcome, ctrlC>>

Yielded ==
    /\ main = "yielding" /\ pc[Waiter] # "idle"
    /\ main' = "next"
    /\ UNCHANGED <<vars, part, outcome, ctrlC>>

(***************************************************************************)
(* The try statement                                                       *)
(***************************************************************************)

(* The next post_message, or all are answered and wait_task is awaited.    *)
PostPart ==
    /\ main = "next" /\ part < Parts
    /\ part' = part + 1
    /\ CallStart(part + 1)
    /\ main' = "posting"
    /\ UNCHANGED <<outcome, ctrlC>>

AwaitReceipt ==
    /\ main = "next" /\ part = Parts
    /\ main' = "receipt"
    /\ UNCHANGED <<vars, part, outcome, ctrlC>>

PartSent ==
    /\ main = "posting"
    /\ CallSent(part)
    /\ UNCHANGED postVars

PartAnswered ==
    /\ main = "posting"
    /\ CallResume(part) /\ pc'[part] = "returned"
    /\ Goto("next")

(* How an exception of a call or of wait_task is reported.                 *)
Raised(t) ==
    CASE pc'[t] = "timeout"   -> "timeout"
      [] pc'[t] = "cancelled" -> "cancelled"
      [] OTHER                -> "error"

PartRaises ==
    /\ main = "posting"
    /\ \/ CallSendFails(part)
       \/ CallResume(part) /\ pc'[part] # "returned"
    /\ main' = "unwinding" /\ outcome' = Raised(part)
    /\ UNCHANGED <<part, ctrlC>>

GotReceipt ==
    /\ main = "receipt" /\ pc[Waiter] = "returned"
    /\ main' = "closing" /\ outcome' = "ok"
    /\ UNCHANGED <<vars, part, ctrlC>>

WaitRaises ==
    /\ main = "receipt" /\ pc[Waiter] \in Finished \ {"returned"}
    /\ UNCHANGED vars
    /\ main' = "unwinding" /\ outcome' = Raised(Waiter)
    /\ UNCHANGED <<part, ctrlC>>

-----------------------------------------------------------------------------
(***************************************************************************)
(* except BaseException, and finally                                       *)
(***************************************************************************)

(* Mutant of Unwind: the wait is left to its timer.                        *)
UnwindLeavingWait ==
    /\ main = "unwinding"
    /\ UNCHANGED vars
    /\ Goto("closing")

(* An unfinished wait_task is cancelled and awaited.                       *)
Unwind ==
    /\ main = "unwinding"
    /\ \/ pc[Waiter] \in Finished /\ UNCHANGED vars /\ Goto("closing")
       \/ TaskCancel(Waiter) /\ Goto("settling")

(* Its CancelledError or TimeoutError is swallowed, its result dropped.    *)
Settled ==
    /\ main = "settling" /\ pc[Waiter] \in Finished
    /\ UNCHANGED vars
    /\ Goto("closing")

CloseClient ==
    /\ main = "closing"
    /\ CloseBegin
    /\ Goto("closed")

(* Mutant of Return: an exception of close() is ignored.                   *)
ReturnAnyway ==
    /\ main = "closed" /\ closing = "idle"
    /\ UNCHANGED vars
    /\ Goto("ended")

(* What close() raises replaces the result or the exception.               *)
Return ==
    /\ main = "closed" /\ closing = "idle"
    /\ main' = "ended"
    /\ outcome' = CASE closed = "ok"        -> outcome
                    [] closed = "raised"    -> "error"
                    [] closed = "cancelled" -> "cancelled"
    /\ UNCHANGED <<vars, part, ctrlC>>

-----------------------------------------------------------------------------
(***************************************************************************)
(* Ctrl-C cancels the task at its await.  In connect() and in sleep(0) it  *)
(* leaves run_post at once, without close().                               *)
(***************************************************************************)
Interrupt ==
    /\ ~ctrlC /\ ctrlC' = TRUE
    /\ \/ /\ main \in {"start", "yielding"}
          /\ main' = "ended" /\ outcome' = "cancelled"
          /\ UNCHANGED vars
       \/ /\ main = "posting" /\ CallSendCancelled(part)
          /\ main' = "unwinding" /\ outcome' = "cancelled"
       \/ /\ main = "posting" /\ TaskCancel(part)
          /\ UNCHANGED <<main, outcome>>
       \/ /\ main = "receipt" /\ TaskCancel(Waiter)
          /\ UNCHANGED <<main, outcome>>
       \/ /\ main = "receipt" /\ pc[Waiter] \in Finished
          /\ main' = "unwinding" /\ outcome' = "cancelled"
          /\ UNCHANGED vars
       \/ /\ main = "closed" /\ CloseCancelled
          /\ UNCHANGED <<main, outcome>>
       \/ /\ main = "settling" \/ (main = "closed" /\ closing = "reader")  \* swallowed
          /\ UNCHANGED <<vars, main, outcome>>
    /\ UNCHANGED part

(* What the loop runs while run_post awaits: the reader, wait_task, the    *)
(* timers, the steps of close().  receive_envelope of _PostCliClient does  *)
(* not raise.                                                              *)
Suspended ==
    main \notin {"next", "unwinding", "ended"} /\ ~(main = "closed" /\ closing = "idle")

LoopStep ==
    /\ \/ Reader /\ ~HandlingRaises
       \/ PeerCloses
       \/ ReaderCancelled \/ CloseReaderDone \/ CloseRaises \/ CloseWs
       \/ WaitResume(Waiter)
       \/ \E t \in Tasks : TimerFires(t)
    /\ Suspended
    /\ UNCHANGED postVars

MainStep ==
    \/ Open \/ OpenFails \/ WaitTaskStarts \/ Yielded
    \/ PostPart \/ AwaitReceipt \/ PartSent \/ PartAnswered \/ PartRaises
    \/ GotReceipt \/ WaitRaises \/ Unwind \/ Settled \/ CloseClient \/ Return

PNext == MainStep \/ Interrupt \/ LoopStep

(***************************************************************************)
(* Fairness: as in RpcClient, for the loop and for run_post itself.  The   *)
(* server need not answer.                                                 *)
(***************************************************************************)
PSpec ==
    /\ PInit /\ [][PNext]_runVars
    /\ WF_runVars(MainStep)
    /\ WF_runVars(HandlingDone /\ Suspended /\ UNCHANGED postVars)
    /\ WF_runVars((ReplySent \/ ReplyFails) /\ Suspended /\ UNCHANGED postVars)
    /\ WF_runVars(ReaderSeesClose /\ Suspended /\ UNCHANGED postVars)
    /\ WF_runVars((ReaderCancelled \/ CloseReaderDone \/ CloseRaises \/ CloseWs)
                      /\ Suspended /\ UNCHANGED postVars)
    /\ WF_runVars(WaitResume(Waiter) /\ Suspended /\ UNCHANGED postVars)
    /\ \A t \in Tasks : WF_runVars(TimerFires(t) /\ Suspended /\ UNCHANGED postVars)

-----------------------------------------------------------------------------
(***************************************************************************)
(* Properties                                                              *)
(***************************************************************************)

(* The command ends, whatever the server, the connection, the reader task  *)
(* and the user do: a call and the wait have their timeouts, and close()   *)
(* ends.                                                                   *)
RunEnds == <>(main = "ended")

(* Once it has connected and entered the try statement, the command leaves *)
(* no task and no table entry behind, and the connection only if close()   *)
(* could not release it.                                                   *)
NothingLeftBehind ==
    main = "ended" /\ closed # "none" =>
        /\ \A t \in Tasks : pc[t] \in Finished \cup {"idle"}
        /\ pending = {} /\ \A r \in Rids : waiters[r] = NoWait
        /\ ws = "none" \/ closed \in {"raised", "cancelled"}

(* What it prints is what happened: the receipt is one of its own request  *)
(* id, every part was answered and everything was released.  If the        *)
(* receipt and all answers are there and it still fails, then Ctrl-C or    *)
(* close() after a failed reader is the reason, never a timeout.           *)
ResultSound ==
    main = "ended" =>
        LET complete == pc[Waiter] = "returned" /\ \A c \in Calls : pc[c] = "returned"
        IN  /\ outcome = "ok" => complete /\ closed = "ok" /\ log[val[Waiter]] = Rid
            /\ complete /\ outcome # "ok" => ctrlC \/ (outcome = "error" /\ reader = "failed")

(* Nothing is sent before the wait is there to be woken, and a part only   *)
(* after the answer to the one before.                                     *)
PostsInOrder ==
    \A c \in Calls : pc[c] # "idle" =>
        /\ pc[Waiter] # "idle"
        /\ \A d \in 1 .. c - 1 : pc[d] = "returned"

=============================================================================
