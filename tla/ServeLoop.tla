----------------------------- MODULE ServeLoop -----------------------------
(***************************************************************************)
(* rpcproxy demo, adb and playwright: run_demo, run_adb, run_playwright.   *)
(* Connect a HandlerClient, report a token (demo only), serve envelopes    *)
(* until the reader stops, and close: the client, then the session of the  *)
(* handler (AdbRpcProxyClient.close, PlaywrightRpcProxyClient.close).      *)
(*                                                                         *)
(* The adb shell or browser that handlers open lazily is one resource      *)
(* here, used and closed under the lock of its session; AdbSession and     *)
(* PlaywrightSession model it in detail.  The calls of run_demo have no    *)
(* timeout, those of the other two have the default.                       *)
(*                                                                         *)
(* Ctrl-C comes at most once, at any await, and cancels the task of the    *)
(* command.  When that task has ended, asyncio.run cancels all others: a   *)
(* handler that waited for the lock runs up to its first await, and        *)
(* neither AdbSession nor PlaywrightSession opens anything before that.    *)
(***************************************************************************)
EXTENDS HandlerClient

CONSTANT Token      \* the call set_state("token", ...) of run_demo

VARIABLES
    command,    \* "demo", or "device" for adb and playwright
    main,       \* where the command's task is
    session,    \* the handler's session: "none" or "open"
    holder,     \* the pipeline that holds the session's _lock
    released,   \* how session.close() has ended, as closed for the client
    ctrlC       \* the user has pressed Ctrl-C

serveVars == <<command, main, session, holder, released, ctrlC>>
loopVars  == <<allVars, serveVars>>

NoOne == 0      \* pipelines are numbered from 1

ASSUME TokenAssumption ==
    Token \in Calls \ TimedTasks /\ \A p \in Pipelines : \A k \in 1 .. Parts[p] : Token # <<p, k>>

SInit ==
    /\ HInit
    /\ command \in {"demo", "device"}
    /\ main = "start" /\ session = "none" /\ holder = NoOne
    /\ released = "none" /\ ctrlC = FALSE

Goto(place) == main' = place /\ UNCHANGED <<command, session, holder, released, ctrlC>>

(***************************************************************************)
(* The task of the command                                                 *)
(***************************************************************************)
Open ==
    /\ main = "start"
    /\ Connect
    /\ Goto(IF command = "demo" THEN "pushing" ELSE "serving")

OpenFails ==
    /\ main = "start"
    /\ UNCHANGED vars
    /\ Goto("closing")

(* _push_demo_token: set_state.                                            *)
PushToken ==
    /\ main = "pushing"
    /\ CallStart(Token) \/ CallSent(Token)
    /\ UNCHANGED serveVars

PushEnds ==
    /\ main = "pushing"
    /\ CallSendFails(Token) \/ CallResume(Token)
    /\ Goto(IF pc'[Token] = "returned" THEN "serving" ELSE "closing")

(* Mutant of Served: only the end of the connection is noticed.            *)
ServedAtDisconnect ==
    /\ main = "serving" /\ reader = "ended"
    /\ UNCHANGED vars
    /\ Goto("closing")

(* wait_until_disconnected returns, or raises what the reader raised.      *)
Served ==
    /\ main = "serving" /\ reader \in {"ended", "failed"}
    /\ UNCHANGED vars
    /\ Goto("closing")

CloseClient ==
    /\ main = "closing"
    /\ CloseBegin \/ CloseUnconnected
    /\ Goto("closed")

(* close() of the client has returned, and session.close() is called.      *)
ClientClosed == main = "closed" /\ closing = "idle" /\ closed = "ok" /\ command = "device"

(* The session is not closed if closing the client has raised.             *)
SkipSession ==
    /\ main = "closed" /\ closing = "idle" /\ ~ClientClosed
    /\ UNCHANGED vars
    /\ Goto("ended")

(* Mutant of AwaitLock: a session that is in use is not closed.            *)
AwaitLockNever ==
    /\ ClientClosed /\ holder # NoOne
    /\ UNCHANGED vars
    /\ Goto("ended")

AwaitLock ==
    /\ ClientClosed /\ holder # NoOne
    /\ UNCHANGED vars
    /\ Goto("locking")

(* session.close() ends, and with it the command.                          *)
SessionEnds(how) == main' = "ended" /\ released' = how /\ UNCHANGED <<command, holder, ctrlC>>

(* With the lock: there is nothing to close, or the drain task of the adb  *)
(* shell is cancelled and awaited, or the pages and the browser are closed.*)
TakeLock ==
    /\ ClientClosed \/ main = "locking"
    /\ holder = NoOne
    /\ UNCHANGED vars
    /\ \/ session = "none" /\ SessionEnds("ok") /\ UNCHANGED session
       \/ session = "open" /\ (Goto("draining") \/ Goto("stopping"))

(* The drain task of the shell is over; if it had failed, this raises.     *)
Drained ==
    /\ main = "draining"
    /\ UNCHANGED vars
    /\ \/ Goto("stopping")
       \/ SessionEnds("raised") /\ UNCHANGED session

(* The process has ended (terminate, or kill after five seconds), or the   *)
(* browser is closed, whether or not its close() raised.                   *)
SessionStopped ==
    /\ main = "stopping"
    /\ UNCHANGED vars
    /\ SessionEnds("ok") /\ session' = "none"

CloseSession == SkipSession \/ AwaitLock \/ TakeLock \/ Drained \/ SessionStopped

MainStep ==
    /\ \/ Open \/ OpenFails \/ PushToken \/ PushEnds
       \/ Served \/ CloseClient \/ CloseSession
    /\ UNCHANGED handlerVars

-----------------------------------------------------------------------------
(* Ctrl-C.  Inside wait_until_disconnected it cancels the reader, and the  *)
(* command goes on as after a disconnect.  While the drain task is awaited *)
(* it is swallowed; at the other awaits of session.close() it leaves the   *)
(* session as it is.                                                       *)
Interrupt ==
    /\ ~ctrlC /\ ctrlC' = TRUE
    /\ \/ /\ \/ main = "start" /\ main' = "closing" /\ UNCHANGED vars
             \/ main = "pushing" /\ main' = "closing" /\ CallSendCancelled(Token)
             \/ main = "pushing" /\ TaskCancel(Token) /\ UNCHANGED main
             \/ main = "serving" /\ DisconnectWaitCancelled /\ UNCHANGED main
             \/ main = "serving" /\ reader \in {"ended", "failed"} /\ main' = "closing" /\ UNCHANGED vars
             \/ main = "closed" /\ closing = "reader" /\ UNCHANGED <<vars, main>>  \* swallowed
             \/ main = "closed" /\ CloseCancelled /\ UNCHANGED main
             \/ main = "draining" /\ UNCHANGED <<vars, main>>                      \* swallowed
          /\ UNCHANGED released
       \/ /\ main \in {"locking", "stopping"} /\ main' = "ended" /\ released' = "cancelled"
          /\ UNCHANGED vars
    /\ UNCHANGED <<command, session, holder, handlerVars>>

-----------------------------------------------------------------------------
(***************************************************************************)
(* The handlers of adb and playwright.  One of them at a time has the      *)
(* session's lock, for all of its command or for a part of it; the command *)
(* has it while main is "draining" or "stopping".                          *)
(***************************************************************************)
SessionStep(newHolder, newSession) ==
    /\ holder' = newHolder /\ session' = newSession
    /\ UNCHANGED <<allVars, command, main, released, ctrlC>>

Lock(p) ==
    /\ command = "device" /\ pl[p] = "handler"
    /\ holder = NoOne /\ main \notin {"draining", "stopping"}
    /\ SessionStep(p, session)

Unlock == holder # NoOne /\ SessionStep(NoOne, session)

(* A handler opens the session, or ends a shell that has timed out or died.*)
OpenSession == holder # NoOne /\ session = "none" /\ SessionStep(holder, "open")
DropSession == holder # NoOne /\ session = "open" /\ SessionStep(holder, "none")

UseSession == (\E p \in Pipelines : Lock(p)) \/ Unlock \/ OpenSession \/ DropSession

(* A handler that ends under the lock releases it.                         *)
PipelineStep(p) ==
    /\ Pipeline(p)
    /\ holder' = IF holder = p THEN NoOne ELSE holder
    /\ UNCHANGED <<command, main, session, released, ctrlC>>

(* What the loop runs while the command's task awaits.  connect() and the  *)
(* first step of set_state are one step, so are the end of the try block   *)
(* and the first step of close(), and the two parts of close() unless the  *)
(* second waits for the lock.                                              *)
Suspended ==
    \/ main = "serving"
    \/ main = "pushing" /\ pc[Token] # "idle"
    \/ main = "closed" /\ closing # "idle"
    \/ main \in {"locking", "draining", "stopping"}

Waiting(A) == A /\ Suspended /\ UNCHANGED <<handlerVars, serveVars>>

ClosingStep == ReaderCancelled \/ CloseReaderDone \/ CloseRaises \/ CloseWs

(* default_call_timeout is None in the demo.                               *)
Timer == command = "device" /\ \E t \in TimedTasks : TimerFires(t)

LoopStep ==
    \/ Waiting(Timer)
    \/ Waiting(\/ PeerCloses \/ ClosingStep
               \/ \E c \in Calls : RecvResponse(c)
               \/ RecvAckOnly \/ RecvBlankEnvelope \/ ReplySent
               \/ ReplyFails \/ RecvRaises \/ ReaderSeesClose)
    \/ Suspended /\ Handled /\ UNCHANGED serveVars
    \/ Suspended /\ (\E r \in Rids : Spawn(r)) /\ UNCHANGED serveVars
    \/ Suspended /\ \E p \in Pipelines : PipelineStep(p)
    \/ Suspended /\ UseSession

SNext == MainStep \/ Interrupt \/ LoopStep

(***************************************************************************)
(* Fairness: the loop runs what is ready, timers fire, handlers return,    *)
(* ws.send and ws.close end, and so do the awaits of session.close().      *)
(* Only the demo, whose calls have no timeout, relies on a server that     *)
(* answers each call that stays pending.                                   *)
(***************************************************************************)
SSpec ==
    /\ SInit /\ [][SNext]_loopVars
    /\ WF_loopVars(MainStep /\ UNCHANGED handlerVars)
    /\ WF_loopVars(Suspended /\ Handled /\ UNCHANGED serveVars)
    /\ WF_loopVars(Waiting(ReplySent \/ ReplyFails))
    /\ WF_loopVars(Waiting(ReaderSeesClose))
    /\ WF_loopVars(Waiting(ClosingStep))
    /\ \A p \in Pipelines : WF_loopVars(Suspended /\ PipelineStep(p))
    /\ \A t \in TimedTasks : WF_loopVars(Waiting(command = "device" /\ TimerFires(t)))
    /\ \A c \in Calls : SF_loopVars(Waiting(command = "demo" /\ RecvResponse(c)))

-----------------------------------------------------------------------------
(***************************************************************************)
(* Properties                                                              *)
(***************************************************************************)

(* The command ends when the connection is lost, when the reader fails and *)
(* on Ctrl-C, although set_state has no timeout: if it is pending then, it *)
(* is cancelled.                                                           *)
ServeEnds == main # "start" /\ (ctrlC \/ ws = "closed" \/ reader = "failed") ~> main = "ended"

(* Every envelope's pipeline ends or the command does: the reader is not   *)
(* blocked by handlers and posts (it reads the answers they wait for), a   *)
(* slot comes back, and nobody is left waiting on a connection without a   *)
(* reader.  With timeouts this needs no answers.                           *)
PipelinesEnd == \A p \in Pipelines : pl[p] = "created" ~> pl[p] = "done" \/ main = "ended"

(* When the command has ended, the session is closed, although pipelines   *)
(* use it and open it while the client is being closed and while close()   *)
(* waits for the lock.  It is left only if close() of the client raised or *)
(* was interrupted, or session.close() itself: by the failed drain task of *)
(* the adb shell or by Ctrl-C.                                             *)
SessionReleased ==
    main = "ended" /\ session = "open" =>
        closed \in {"raised", "cancelled"} \/ released \in {"raised", "cancelled"}

(* After the command, unless it was interrupted, connection and session    *)
(* are released (README: close() in finally releases the connection;       *)
(* docstring of AdbRpcProxyClient: close() releases the shell process).    *)
CloseReleasesAll == main = "ended" /\ ~ctrlC => ws = "none" /\ session = "none"

=============================================================================
