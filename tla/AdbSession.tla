----------------------------- MODULE AdbSession -----------------------------
(***************************************************************************)
(* AdbSession (src/rpcproxy/handlers/adb_handler.py): the commands that go *)
(* through one persistent `adb shell` (tap, swipe, input_text), close(),   *)
(* and the commands that only run short-lived adb processes (ping,         *)
(* screenshot).  The first and close() run under _lock, an asyncio.Lock: a *)
(* queue whose head holds the lock.  Commands come from pipelines, which   *)
(* outlive close().                                                        *)
(*                                                                         *)
(* The shell executes the lines it reads in order and writes, for each,    *)
(* its output and the end marker.  Output is a sequence of tokens: the     *)
(* name of a command for the output of its line, and the two halves of the *)
(* marker, which a read may separate.                                      *)
(*                                                                         *)
(* Left out: the checks on arguments, which answer before a command does   *)
(* anything else, and the file that a screenshot is written to.            *)
(***************************************************************************)
EXTENDS Naturals, Sequences, FiniteSets

CONSTANTS
    Commands,           \* executions of a shell command
    Shots,              \* executions of ping or screenshot
    Closer,             \* the execution of close()
    MaxShells           \* bound: shells started

VARIABLES
    queue,      \* tasks in _lock: the holder and then the waiters
    pc,         \* where each task is
    proc,       \* _proc: "none", "running", "exited", or "reaped" (has a returncode)
    drain,      \* _stderr_drain: "none", "running" (or ended), "failed"
    buf,        \* _shell_rx_buf
    stdin,      \* lines the shell has not executed
    stdout,     \* output the session has not read
    shells,     \* shells started
    adb,        \* the short-lived adb processes that run: <<task, step>>
    output      \* what each command returned as its output

shellVars == <<proc, drain, buf, stdin, stdout, shells>>
vars == <<queue, pc, shellVars, adb, output>>

Locking == Commands \cup {Closer}
Tasks   == Locking \cup Shots

ASSUME CommandsAssumption ==
    /\ Closer \notin Commands /\ Shots \cap Locking = {}
    /\ {"m1", "m2"} \cap Commands = {}

Marker == <<"m1", "m2">>

Init ==
    /\ queue = <<>>
    /\ pc = [t \in Tasks |-> "idle"]
    /\ proc = "none" /\ drain = "none"
    /\ buf = <<>> /\ stdin = <<>> /\ stdout = <<>>
    /\ shells = 0 /\ adb = {}
    /\ output = [c \in Commands |-> <<>>]

Holds(t) == queue # <<>> /\ t = Head(queue)

(* End a task: release the lock if it has it.                              *)
Leave(t, how) ==
    /\ queue' = IF t \in Shots THEN queue ELSE Tail(queue)
    /\ pc' = [pc EXCEPT ![t] = how]

-----------------------------------------------------------------------------
(***************************************************************************)
(* _stop_shell_unlocked: await the cancelled drain task, end the process   *)
(* (terminate, after five seconds kill) and forget it and what was read.   *)
(* One step: the awaits in it are under the lock, and what the shell does  *)
(* meanwhile is forgotten with it.                                         *)
(* A drain task that has failed raises here, and nothing else is done.     *)
(***************************************************************************)
StopShell ==
    IF drain = "failed"
    THEN UNCHANGED shellVars
    ELSE /\ proc' = "none" /\ drain' = "none"
         /\ buf' = <<>> /\ stdin' = <<>> /\ stdout' = <<>>
         /\ UNCHANGED shells

(* close() or a command asks for the lock.                                 *)
Acquire(t) ==
    /\ pc[t] = "idle"
    /\ pc' = [pc EXCEPT ![t] = "locked"]
    /\ queue' = Append(queue, t)
    /\ UNCHANGED <<shellVars, adb, output>>

Close ==
    /\ Holds(Closer)
    /\ StopShell
    /\ Leave(Closer, IF drain = "failed" THEN "failed" ELSE "returned")
    /\ UNCHANGED <<adb, output>>

-----------------------------------------------------------------------------
(***************************************************************************)
(* _run_adb_oneshot and _exec_out_screencap: a process that the task       *)
(* awaits at one step.  "device" is get-state (_ensure_device), "shot" is  *)
(* get-serialno or screencap.                                              *)
(***************************************************************************)
Oneshot(t, step) ==
    /\ pc' = [pc EXCEPT ![t] = step]
    /\ adb' = adb \cup {<<t, step>>}

ShotStarts(t) ==
    /\ pc[t] = "idle" /\ Oneshot(t, "device")
    /\ UNCHANGED <<queue, shellVars, output>>

Exited(t, step) == pc[t] = step /\ <<t, step>> \notin adb

ShotDeviceReady(t) ==
    /\ Exited(t, "device") /\ Oneshot(t, "shot")
    /\ UNCHANGED <<queue, shellVars, output>>

ShotReturns(t) ==
    /\ Exited(t, "shot") /\ Leave(t, "returned")
    /\ UNCHANGED <<shellVars, adb, output>>

(* A bad exit code, a device that is not ready, no PNG data.               *)
OneshotFails(t) ==
    /\ Exited(t, "device") \/ Exited(t, "shot")
    /\ Leave(t, "failed")
    /\ UNCHANGED <<shellVars, adb, output>>

(* Mutant of OneshotTimesOut: a ping takes the timeout for an answer.      *)
OneshotIgnored(t) ==
    /\ <<t, pc[t]>> \in adb
    /\ Leave(t, IF t \in Shots THEN "returned" ELSE "failed")
    /\ UNCHANGED <<shellVars, adb, output>>

(* The task stops waiting; the process is left running.                    *)
OneshotTimesOut(t) ==
    /\ <<t, pc[t]>> \in adb
    /\ Leave(t, "failed")
    /\ UNCHANGED <<shellVars, adb, output>>

OneshotExits ==
    /\ \E p \in adb : adb' = adb \ {p}
    /\ UNCHANGED <<queue, pc, shellVars, output>>

Shot(t) == ShotStarts(t) \/ ShotDeviceReady(t) \/ ShotReturns(t)

-----------------------------------------------------------------------------
(***************************************************************************)
(* A command, once it holds the lock                                       *)
(***************************************************************************)

(* _ensure_shell_unlocked finds a shell without a returncode.              *)
ReuseShell(c) ==
    /\ Holds(c) /\ pc[c] = "locked" /\ proc \in {"running", "exited"}
    /\ pc' = [pc EXCEPT ![c] = "writing"]
    /\ UNCHANGED <<queue, shellVars, adb, output>>

(* It stops what is left and asks for the state of the device.             *)
RestartShell(c) ==
    /\ Holds(c) /\ pc[c] = "locked"
    /\ proc \in {"none", "reaped"} /\ drain # "failed"
    /\ StopShell
    /\ Oneshot(c, "device")
    /\ UNCHANGED <<queue, output>>

(* The drain task had failed, or adb cannot run.                           *)
RestartFails(c) ==
    /\ Holds(c) /\ pc[c] = "locked" /\ proc \in {"none", "reaped"}
    /\ StopShell
    /\ Leave(c, "failed")
    /\ UNCHANGED <<adb, output>>

(* The device is ready: start a shell.                                     *)
StartShell(c) ==
    /\ Exited(c, "device") /\ shells < MaxShells
    /\ proc' = "running" /\ drain' = "running"
    /\ buf' = <<>> /\ shells' = shells + 1
    /\ pc' = [pc EXCEPT ![c] = "writing"]
    /\ UNCHANGED <<queue, stdin, stdout, adb, output>>

(* _run_shell_line: the shell may die at any time, also before it reads.   *)
WriteLine(c) ==
    /\ Holds(c) /\ pc[c] = "writing" /\ proc # "reaped"
    /\ stdin' = Append(stdin, c)
    /\ pc' = [pc EXCEPT ![c] = "reading"]
    /\ UNCHANGED <<queue, proc, drain, buf, stdout, shells, adb, output>>

(* Mutant of WriteFails: the lock is not released.                         *)
WriteFailsHolding(c) ==
    /\ Holds(c) /\ pc[c] = "writing" /\ proc \in {"exited", "reaped"}
    /\ pc' = [pc EXCEPT ![c] = "failed"]
    /\ UNCHANGED <<queue, shellVars, adb, output>>

(* A returncode appeared, or drain() raises: the pipe is broken.           *)
WriteFails(c) ==
    /\ Holds(c) /\ pc[c] = "writing" /\ proc \in {"exited", "reaped"}
    /\ Leave(c, "failed")
    /\ UNCHANGED <<shellVars, adb, output>>

MarkerAt(s, i) == i + 1 <= Len(s) /\ s[i] = "m1" /\ s[i + 1] = "m2"

Complete == \E i \in 1 .. Len(buf) : MarkerAt(buf, i)

(* A read returns any part of what the shell has written.                  *)
ReadChunk(c) ==
    /\ Holds(c) /\ pc[c] = "reading" /\ ~Complete
    /\ \E n \in 1 .. Len(stdout) :
          /\ buf' = buf \o SubSeq(stdout, 1, n)
          /\ stdout' = SubSeq(stdout, n + 1, Len(stdout))
    /\ UNCHANGED <<queue, pc, proc, drain, stdin, shells, adb, output>>

(* Mutant of ReadAbandoned: the shell is left running.                     *)
ReadAbandonedKeeping(c) ==
    /\ Holds(c) /\ pc[c] = "reading" /\ ~Complete
    /\ Leave(c, "failed")
    /\ UNCHANGED <<shellVars, adb, output>>

(* Timeout, end of file, or a read that makes the output too large, also   *)
(* when it holds the marker: nothing is awaited between the two.           *)
ReadAbandoned(c) ==
    /\ Holds(c) /\ pc[c] = "reading" /\ ~Complete
    /\ StopShell
    /\ Leave(c, "failed")
    /\ UNCHANGED <<adb, output>>

(* The output up to the first marker is returned; the rest stays.          *)
ReturnOutput(c) ==
    /\ Holds(c) /\ pc[c] = "reading" /\ Complete
    /\ LET idx == CHOOSE i \in 1 .. Len(buf) :
                      MarkerAt(buf, i) /\ \A j \in 1 .. i - 1 : ~MarkerAt(buf, j)
       IN  /\ output' = [output EXCEPT ![c] = SubSeq(buf, 1, idx - 1)]
           /\ buf' = SubSeq(buf, idx + Len(Marker), Len(buf))
    /\ Leave(c, "returned")
    /\ UNCHANGED <<proc, drain, stdin, stdout, shells, adb>>

Command(c) ==
    \/ ReuseShell(c) \/ RestartShell(c) \/ RestartFails(c) \/ StartShell(c)
    \/ WriteLine(c) \/ WriteFails(c)
    \/ ReadChunk(c) \/ ReadAbandoned(c) \/ ReturnOutput(c)

-----------------------------------------------------------------------------
(***************************************************************************)
(* The shell process                                                       *)
(***************************************************************************)
ShellExecutes ==
    /\ proc = "running" /\ stdin # <<>>
    /\ stdin' = Tail(stdin)
    /\ stdout' = Append(stdout, Head(stdin)) \o Marker
    /\ UNCHANGED <<queue, pc, proc, drain, buf, shells, adb, output>>

ShellDies ==
    /\ proc = "running" /\ proc' = "exited"
    /\ UNCHANGED <<queue, pc, drain, buf, stdin, stdout, shells, adb, output>>

(* The event loop notices: returncode is set.                              *)
ShellReaped ==
    /\ proc = "exited" /\ proc' = "reaped"
    /\ UNCHANGED <<queue, pc, drain, buf, stdin, stdout, shells, adb, output>>

(* readline raises ValueError in the drain task.                           *)
DrainFails ==
    /\ drain = "running" /\ drain' = "failed"
    /\ UNCHANGED <<queue, pc, proc, buf, stdin, stdout, shells, adb, output>>

Shell == ShellExecutes \/ ShellDies \/ ShellReaped \/ DrainFails

Next ==
    \/ \E t \in Locking : Acquire(t)
    \/ \E c \in Commands : Command(c)
    \/ \E t \in Shots : Shot(t)
    \/ \E t \in Tasks : OneshotFails(t) \/ OneshotTimesOut(t)
    \/ Close \/ Shell \/ OneshotExits

Spec == Init /\ [][Next]_vars

(* Timeouts end a read and the wait for a process; asyncio serves the lock *)
(* in the order of the queue.                                              *)
FairSpec ==
    /\ Spec
    /\ \A t \in Tasks : WF_vars(OneshotFails(t) \/ OneshotTimesOut(t))
    /\ \A c \in Commands : WF_vars(Command(c))
    /\ WF_vars(Close)

-----------------------------------------------------------------------------
(***************************************************************************)
(* Properties                                                              *)
(***************************************************************************)

(* The output a command returns is that of its own line, although commands *)
(* share one pipe, the shell dies, reads split the marker and earlier      *)
(* commands were given up with their output still to come.  Nothing is     *)
(* claimed once a drain task has failed: the shell can then not be stopped *)
(* any more and outlives a command that is given up.                       *)
OutputIsOwn ==
    drain # "failed" => \A c \in Commands : pc[c] = "returned" => output[c] = <<c>>

(* A short-lived adb process that nobody awaits any more belongs to a      *)
(* command that has failed, under the lock or not: an answer that counts   *)
(* never leaves one behind.                                                *)
StraysAccounted ==
    \A p \in adb : pc[p[1]] = p[2] \/ pc[p[1]] = "failed"

(* Every command is answered, also behind commands that time out and with  *)
(* adb processes that never end.                                           *)
CommandsAnswered ==
    \A t \in Commands \cup Shots :
        pc[t] \in {"locked", "device"} ~> pc[t] \in {"returned", "failed"}

=============================================================================
