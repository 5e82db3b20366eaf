----------------------------- MODULE AdbProofs -----------------------------
(***************************************************************************)
(* Proofs about AdbSession for every number of commands and shells: no adb *)
(* process is lost unnoticed, commands that share one shell get their own  *)
(* output, and those that need no shell are answered.                      *)
(***************************************************************************)
EXTENDS AdbSession, TLAPS, SequenceTheorems

Places == {"idle", "locked", "device", "shot", "writing", "reading", "returned", "failed"}

(* Commands, one-shot commands and close() are different tasks.            *)
LEMMA TaskKinds ==
    /\ Closer \in Locking /\ Closer \in Tasks /\ Closer \notin Shots
    /\ \A c \in Commands : c \in Locking /\ c \in Tasks /\ c # Closer /\ c \notin Shots
    /\ \A t \in Locking : t \in Tasks /\ t \notin Shots
    /\ \A t \in Shots : t \in Tasks /\ t \notin Locking
    /\ \A c \in Commands : c # "m1" /\ c # "m2"
    BY CommandsAssumption DEF Tasks, Locking

-----------------------------------------------------------------------------
(***************************************************************************)
(* Short-lived processes                                                   *)
(***************************************************************************)

(* A process is that of a step of its task, and close() starts none.       *)
StrayInv ==
    /\ pc \in [Tasks -> Places]
    /\ pc[Closer] \in {"idle", "locked", "returned", "failed"}
    /\ \A c \in Commands : pc[c] # "shot"
    /\ adb \subseteq (Tasks \ {Closer}) \X {"device", "shot"}
    /\ StraysAccounted

(* A task that awaits none has none, unless it has failed.                 *)
LEMMA NoneAwaited ==
    ASSUME StrayInv, NEW t \in Tasks, pc[t] # "failed", <<t, pc[t]>> \notin adb
    PROVE  \A p \in adb : p[1] # t
<1>1. \A p \in adb : p = <<p[1], p[2]>>
    BY DEF StrayInv
<1> QED
    BY <1>1 DEF StrayInv, StraysAccounted

(* close() has no process of its own.                                      *)
LEMMA NoneOfCloser ==
    ASSUME StrayInv
    PROVE  \A p \in adb : p[1] # Closer
    BY DEF StrayInv

(* A task moves on: it fails, or it has no process, or starts its only     *)
(* one.                                                                    *)
LEMMA StrayMove ==
    ASSUME StrayInv, NEW t \in Tasks, NEW w \in Places, pc' = [pc EXCEPT ![t] = w],
           t = Closer => w \in {"locked", "returned", "failed"},
           t \in Commands => w # "shot",
           \/ adb' = adb /\ (w = "failed" \/ \A p \in adb : p[1] # t)
           \/ /\ adb' = adb \cup {<<t, w>>} /\ w \in {"device", "shot"} /\ t # Closer
              /\ \A p \in adb : p[1] # t
    PROVE  StrayInv'
<1>1. /\ pc' \in [Tasks -> Places] /\ pc'[t] = w
      /\ \A u \in Tasks : u # t => pc'[u] = pc[u]
    BY DEF StrayInv
<1>2. /\ pc'[Closer] \in {"idle", "locked", "returned", "failed"}
      /\ \A c \in Commands : pc'[c] # "shot"
    BY <1>1, TaskKinds DEF StrayInv
<1>3. adb' \subseteq (Tasks \ {Closer}) \X {"device", "shot"}
    BY DEF StrayInv
<1>4. \A p \in adb : p[1] \in Tasks
    BY DEF StrayInv
<1>5. \A p \in adb : pc'[p[1]] = p[2] \/ pc'[p[1]] = "failed"
    BY <1>1, <1>4 DEF StrayInv, StraysAccounted
<1>6. StraysAccounted'
    BY <1>1, <1>5 DEF StraysAccounted
<1> QED
    BY <1>1, <1>2, <1>3, <1>6 DEF StrayInv

(* At the start there are no processes.                                    *)
LEMMA StrayInit == Init => StrayInv
    BY TaskKinds DEF Init, StrayInv, StraysAccounted, Places

(* Every step keeps the account of the processes.                          *)
LEMMA StrayStep == StrayInv /\ [Next]_vars => StrayInv'
<1> SUFFICES ASSUME StrayInv, [Next]_vars PROVE StrayInv'
    OBVIOUS
<1>t. \A x \in {"locked", "writing", "reading", "idle"} : \A t \in Tasks :
          pc[t] = x => <<t, pc[t]>> \notin adb /\ pc[t] # "failed"
    BY DEF StrayInv
<1>u. ASSUME UNCHANGED pc, adb' \subseteq adb PROVE StrayInv'
    BY <1>u DEF StrayInv, StraysAccounted
<1>1. CASE UNCHANGED vars
    BY <1>1, <1>u DEF vars
<1>2. CASE OneshotExits \/ Shell
    BY <1>2, <1>u DEF OneshotExits, Shell, ShellExecutes, ShellDies, ShellReaped, DrainFails
<1>3. ASSUME NEW t \in Locking, Acquire(t) PROVE StrayInv'
  <2>1. t \in Tasks /\ pc[t] = "idle" /\ pc' = [pc EXCEPT ![t] = "locked"] /\ adb' = adb
      BY <1>3, TaskKinds DEF Acquire
  <2>2. \A p \in adb : p[1] # t
      BY <1>t, <2>1, NoneAwaited
  <2> QED
      BY <2>1, <2>2, StrayMove DEF Places
<1>4. CASE Close
  <2>1. PICK w \in {"failed", "returned"} : pc' = [pc EXCEPT ![Closer] = w] /\ adb' = adb
      BY <1>4 DEF Close, Leave
  <2> QED
      BY <2>1, NoneOfCloser, TaskKinds, StrayMove DEF Places
<1>5. ASSUME NEW t \in Shots, Shot(t) PROVE StrayInv'
  <2>0. t \in Tasks /\ t # Closer /\ t \notin Commands
      BY TaskKinds
  <2>1. CASE ShotStarts(t)
    <3>1. pc[t] = "idle" /\ pc' = [pc EXCEPT ![t] = "device"] /\ adb' = adb \cup {<<t, "device">>}
        BY <2>1 DEF ShotStarts, Oneshot
    <3>2. \A p \in adb : p[1] # t
        BY <1>t, <2>0, <3>1, NoneAwaited
    <3> QED
        BY <2>0, <3>1, <3>2, StrayMove DEF Places
  <2>2. CASE ShotDeviceReady(t)
    <3>1. /\ pc[t] = "device" /\ <<t, pc[t]>> \notin adb /\ pc' = [pc EXCEPT ![t] = "shot"]
          /\ adb' = adb \cup {<<t, "shot">>}
        BY <2>2 DEF ShotDeviceReady, Oneshot, Exited
    <3>2. \A p \in adb : p[1] # t
        BY <2>0, <3>1, NoneAwaited
    <3> QED
        BY <2>0, <3>1, <3>2, StrayMove DEF Places
  <2>3. CASE ShotReturns(t)
    <3>1. /\ pc[t] = "shot" /\ <<t, pc[t]>> \notin adb /\ pc' = [pc EXCEPT ![t] = "returned"]
          /\ adb' = adb
        BY <2>3 DEF ShotReturns, Leave, Exited
    <3>2. \A p \in adb : p[1] # t
        BY <2>0, <3>1, NoneAwaited
    <3> QED
        BY <2>0, <3>1, <3>2, StrayMove DEF Places
  <2> QED
      BY <1>5, <2>1, <2>2, <2>3 DEF Shot
<1>6. ASSUME NEW t \in Tasks, OneshotFails(t) \/ OneshotTimesOut(t) PROVE StrayInv'
  <2>1. pc' = [pc EXCEPT ![t] = "failed"] /\ adb' = adb
      BY <1>6 DEF OneshotFails, OneshotTimesOut, Leave
  <2> QED
      BY <2>1, StrayMove DEF Places
<1>7. ASSUME NEW c \in Commands, Command(c) PROVE StrayInv'
  <2>0. c \in Tasks /\ c # Closer
      BY TaskKinds
  <2>1. CASE RestartFails(c) \/ WriteFails(c) \/ ReadAbandoned(c)
    <3>1. pc' = [pc EXCEPT ![c] = "failed"] /\ adb' = adb
        BY <2>1 DEF RestartFails, WriteFails, ReadAbandoned, Leave
    <3> QED
        BY <2>0, <3>1, StrayMove DEF Places
  <2>2. CASE ReadChunk(c)
      BY <2>2, <1>u DEF ReadChunk
  <2>3. CASE ReuseShell(c) \/ StartShell(c) \/ WriteLine(c) \/ ReturnOutput(c)
    <3>1. PICK w \in {"writing", "reading", "returned"} :
              pc' = [pc EXCEPT ![c] = w] /\ adb' = adb
        BY <2>3 DEF ReuseShell, StartShell, WriteLine, ReturnOutput, Leave
    <3>2. pc[c] # "failed" /\ <<c, pc[c]>> \notin adb
        BY <1>t, <2>0, <2>3 DEF ReuseShell, StartShell, WriteLine, ReturnOutput, Exited
    <3>3. \A p \in adb : p[1] # c
        BY <2>0, <3>2, NoneAwaited
    <3> QED
        BY <2>0, <3>1, <3>3, StrayMove DEF Places
  <2>4. CASE RestartShell(c)
    <3>1. pc[c] = "locked" /\ pc' = [pc EXCEPT ![c] = "device"] /\ adb' = adb \cup {<<c, "device">>}
        BY <2>4 DEF RestartShell, Oneshot
    <3>2. \A p \in adb : p[1] # c
        BY <1>t, <2>0, <3>1, NoneAwaited
    <3> QED
        BY <2>0, <3>1, <3>2, StrayMove DEF Places
  <2> QED
      BY <1>7, <2>1, <2>2, <2>3, <2>4 DEF Command
<1> QED
    BY <1>1, <1>2, <1>3, <1>4, <1>5, <1>6, <1>7 DEF Next

(* _run_adb_oneshot: a process that nobody awaits belongs to a task that   *)
(* has failed, whoever else has timed out.                                 *)
THEOREM StraysAreAccounted == Spec => []StraysAccounted
<1>1. Spec => []StrayInv
    BY StrayInit, StrayStep, PTL DEF Spec
<1> QED
    BY <1>1, PTL DEF StrayInv

-----------------------------------------------------------------------------
(***************************************************************************)
(* The output of commands                                                  *)
(***************************************************************************)
Tokens == Commands \cup {"m1", "m2"}

(* A drain task that has failed keeps its shell for ever, and nothing more *)
(* is said of the pipes.                                                   *)
Types ==
    /\ queue \in Seq(Locking)
    /\ drain # "failed" =>
          /\ buf \in Seq(Tokens) /\ stdout \in Seq(Tokens) /\ stdin \in Seq(Commands)
          /\ output \in [Commands -> Seq(Tokens)]

(* Between asking for the device and the end of its output a command has   *)
(* the lock.                                                               *)
Inner == {"device", "writing", "reading"}

Lock == \A c \in Commands : pc[c] \in Inner => Holds(c)

(* A shell is started only after the last one was stopped, drain task      *)
(* included.                                                               *)
Fresh == \A c \in Commands : pc[c] = "device" => drain = "none"

(* What is in the pipes: nothing, or the line of the command c that reads, *)
(* or its output.                                                          *)
Quiet == buf = <<>> /\ stdout = <<>> /\ stdin = <<>>

Pipe(c) ==
    \/ stdin = <<c>> /\ buf = <<>> /\ stdout = <<>>
    \/ stdin = <<>> /\ buf \o stdout = <<c, "m1", "m2">>

(* As long as shells can be stopped, the pipes belong to the reader.       *)
Flow ==
    drain # "failed" =>
        /\ \A c \in Commands : pc[c] = "reading" => Pipe(c)
        /\ (\A c \in Commands : pc[c] # "reading") => Quiet

Inv == StrayInv /\ Types /\ Lock /\ Fresh /\ Flow /\ OutputIsOwn

(* How a task may move: in place, into the queue, or out of it as its      *)
(* head.                                                                   *)
Moves(t, w) ==
    /\ pc' = [pc EXCEPT ![t] = w]
    /\ \/ queue' = queue /\ (t \in Commands /\ w \in Inner => Holds(t))
       \/ t \in Locking /\ queue' = Append(queue, t) /\ w \notin Inner
       \/ Holds(t) /\ queue' = Tail(queue) /\ w \notin Inner

(* A move of a task through the queue keeps the lock's order and leaves    *)
(* the other tasks where they are.                                         *)
LEMMA MoveKeepsLock ==
    ASSUME Inv, NEW t \in Tasks, NEW w \in Places, Moves(t, w)
    PROVE  /\ queue' \in Seq(Locking) /\ Lock'
           /\ pc'[t] = w /\ \A c \in Commands : c # t => pc'[c] = pc[c]
<1>1. /\ pc'[t] = w /\ \A u \in Tasks : u # t => pc'[u] = pc[u]
    BY DEF Inv, StrayInv, Moves
<1>2. \A c \in Commands : c # t => pc'[c] = pc[c]
    BY <1>1, TaskKinds
<1>3. queue \in Seq(Locking) /\ Lock
    BY DEF Inv, Types
<1>4. CASE queue' = queue /\ (t \in Commands /\ w \in Inner => Holds(t))
    BY <1>1, <1>2, <1>3, <1>4 DEF Lock, Holds
<1>5. CASE t \in Locking /\ queue' = Append(queue, t) /\ w \notin Inner
  <2>1. /\ queue' \in Seq(Locking) /\ queue' # <<>>
        /\ queue # <<>> => Head(queue') = Head(queue)
      BY <1>3, <1>5, AppendProperties, HeadTailProperties, LenProperties, EmptySeq
  <2>2. \A u \in Tasks : Holds(u) => Holds(u)'
      BY <2>1 DEF Holds
  <2> QED
      BY <1>1, <1>2, <1>3, <1>5, <2>1, <2>2, TaskKinds DEF Lock
<1>6. CASE Holds(t) /\ queue' = Tail(queue) /\ w \notin Inner
  <2>1. queue' \in Seq(Locking)
      BY <1>3, <1>6, HeadTailProperties DEF Holds
  <2>2. \A c \in Commands : c # t => pc[c] \notin Inner
      BY <1>3, <1>6 DEF Lock, Holds
  <2> QED
      BY <1>1, <1>2, <1>6, <2>1, <2>2 DEF Lock
<1> QED
    BY <1>1, <1>2, <1>4, <1>5, <1>6 DEF Moves

(* While a task holds the lock no other command is inside it.              *)
LEMMA HolderAlone ==
    ASSUME Lock, NEW t, Holds(t)
    PROVE  \A c \in Commands : c # t => pc[c] \notin Inner
    BY DEF Lock, Holds

(* A step that leaves the shell alone and neither begins nor ends a read.  *)
LEMMA ShellAlone ==
    ASSUME Inv, StrayInv', NEW t \in Tasks, NEW w \in Places, Moves(t, w),
           t \in Commands => /\ w \notin {"device", "reading", "returned"}
                             /\ pc[t] # "reading",
           UNCHANGED <<shellVars, output>>
    PROVE  Inv'
<1>1. /\ queue' \in Seq(Locking) /\ Lock'
      /\ pc'[t] = w /\ \A c \in Commands : c # t => pc'[c] = pc[c]
    BY MoveKeepsLock
<1>2. /\ \A c \in Commands : pc'[c] = "reading" <=> pc[c] = "reading"
      /\ \A c \in Commands : pc'[c] \in {"device", "returned"} => pc'[c] = pc[c]
    BY <1>1
<1>3. /\ drain' = drain /\ buf' = buf /\ stdin' = stdin /\ stdout' = stdout /\ output' = output
    BY DEF shellVars
<1>4. Types'
    BY <1>1, <1>3 DEF Inv, Types
<1>5. Fresh' /\ OutputIsOwn'
    BY <1>2, <1>3 DEF Inv, Fresh, OutputIsOwn
<1>6. Flow'
    BY <1>2, <1>3 DEF Inv, Flow, Pipe, Quiet
<1> QED
    BY <1>1, <1>4, <1>5, <1>6 DEF Inv

(* Stopping the shell, by the holder of the lock: unless the drain task    *)
(* has failed, nothing of the old shell is left.                           *)
LEMMA StopKeeps ==
    ASSUME Inv, StrayInv', NEW t \in Tasks, NEW w \in Places, Moves(t, w), Holds(t), StopShell,
           t \in Commands => w \in {"device", "failed"},
           w = "device" => drain # "failed",
           output' = output
    PROVE  Inv'
<1>1. /\ queue' \in Seq(Locking) /\ Lock'
      /\ pc'[t] = w /\ \A c \in Commands : c # t => pc'[c] = pc[c]
    BY MoveKeepsLock
<1>2. \A c \in Commands : c # t => pc[c] \notin Inner
    BY HolderAlone DEF Inv
<1>3. CASE drain = "failed"
  <2>1. /\ drain' = "failed" /\ buf' = buf /\ stdin' = stdin /\ stdout' = stdout
      BY <1>3 DEF StopShell, shellVars
  <2>2. Fresh'
      BY <1>1, <1>2, <1>3 DEF Fresh, Inner
  <2> QED
      BY <1>1, <2>1, <2>2 DEF Inv, Types, Flow, OutputIsOwn
<1>4. CASE drain # "failed"
  <2>1. drain' = "none" /\ buf' = <<>> /\ stdin' = <<>> /\ stdout' = <<>>
      BY <1>4 DEF StopShell
  <2>2. Types'
      BY <1>1, <1>4, <2>1, EmptySeq DEF Inv, Types
  <2>3. Fresh' /\ Flow'
      BY <1>1, <1>2, <2>1 DEF Fresh, Flow, Quiet, Inner
  <2>4. OutputIsOwn'
      BY <1>1, <1>4 DEF Inv, OutputIsOwn
  <2> QED
      BY <1>1, <2>2, <2>3, <2>4 DEF Inv
<1> QED
    BY <1>3, <1>4

(* What a read takes from the pipe is still there for the reader.          *)
LEMMA ReadMoves ==
    ASSUME buf \in Seq(Tokens), stdout \in Seq(Tokens), NEW n \in 1 .. Len(stdout)
    PROVE  /\ buf \o SubSeq(stdout, 1, n) \in Seq(Tokens)
           /\ SubSeq(stdout, n + 1, Len(stdout)) \in Seq(Tokens)
           /\ (buf \o SubSeq(stdout, 1, n)) \o SubSeq(stdout, n + 1, Len(stdout)) = buf \o stdout
<1> DEFINE a == SubSeq(stdout, 1, n)
           b == SubSeq(stdout, n + 1, Len(stdout))
<1>1. /\ Len(stdout) \in Nat /\ Len(buf) \in Nat
      /\ n \in Nat /\ n >= 1 /\ n <= Len(stdout)
    BY LenProperties
<1>2. /\ a \in Seq(Tokens) /\ Len(a) = n /\ \A i \in 1 .. n : a[i] = stdout[i]
    BY <1>1, SubSeqProperties
<1>3. /\ b \in Seq(Tokens) /\ Len(b) = Len(stdout) - n
      /\ \A i \in 1 .. Len(stdout) - n : b[i] = stdout[n + i]
    BY <1>1, SubSeqProperties
<1> HIDE DEF a, b
<1>4. a \o b = stdout
  <2>1. /\ a \o b \in Seq(Tokens) /\ Len(a \o b) = Len(a) + Len(b)
        /\ \A i \in 1 .. Len(a) + Len(b) :
              (a \o b)[i] = IF i <= Len(a) THEN a[i] ELSE b[i - Len(a)]
      BY <1>2, <1>3, ConcatProperties, Zenon
  <2>2. Len(a \o b) = Len(stdout) /\ Len(a) + Len(b) = Len(stdout)
      BY <1>1, <1>2, <1>3, <2>1
  <2>3. ASSUME NEW i \in 1 .. Len(stdout) PROVE (a \o b)[i] = stdout[i]
    <3>1. CASE i <= n
        BY <1>1, <1>2, <2>1, <2>2, <3>1
    <3>2. CASE ~(i <= n)
      <4>1. i - n \in 1 .. Len(stdout) - n /\ n + (i - n) = i
          BY <1>1, <3>2
      <4>2. b[i - n] = stdout[i]
          BY <1>3, <4>1
      <4> QED
          BY <1>2, <2>1, <2>2, <3>2, <4>2
    <3> QED
        BY <3>1, <3>2
  <2> QED
      BY <2>1, <2>2, <2>3, SeqEqual
<1>5. (buf \o a) \o b = buf \o (a \o b) /\ buf \o a \in Seq(Tokens)
  <2>0. a \in Seq(Tokens) /\ b \in Seq(Tokens)
      BY <1>2, <1>3
  <2>1. (buf \o a) \o b = buf \o (a \o b)
    <3>1. \A s, t, u \in Seq(Tokens) : (s \o t) \o u = s \o (t \o u)
        BY ONLY ConcatAssociative
    <3> QED
        BY <2>0, <3>1
  <2>2. buf \o a \in Seq(Tokens)
      BY <1>2, ConcatProperties, Zenon
  <2> QED
      BY <2>1, <2>2
<1> QED
    BY <1>2, <1>3, <1>4, <1>5 DEF a, b

(* The first marker in what was read of a command's output ends exactly    *)
(* that output.                                                            *)
LEMMA FirstMarker ==
    ASSUME Types, drain # "failed", NEW c \in Commands, buf \o stdout = <<c, "m1", "m2">>,
           Complete
    PROVE  /\ stdout = <<>>
           /\ \A i \in 1 .. Len(buf) : MarkerAt(buf, i) => i = 2
           /\ SubSeq(buf, 1, 1) = <<c>> /\ SubSeq(buf, 2 + Len(Marker), Len(buf)) = <<>>
<1>1. /\ Len(buf) \in Nat /\ Len(stdout) \in Nat /\ Len(buf) + Len(stdout) = 3
      /\ \A i \in 1 .. Len(buf) : buf[i] = (buf \o stdout)[i]
  <2>1. buf \in Seq(Tokens) /\ stdout \in Seq(Tokens)
      BY DEF Types
  <2>2. /\ Len(buf \o stdout) = Len(buf) + Len(stdout)
        /\ \A i \in 1 .. Len(buf) + Len(stdout) :
              (buf \o stdout)[i] = IF i <= Len(buf) THEN buf[i] ELSE stdout[i - Len(buf)]
      BY <2>1, ConcatProperties, Zenon
  <2>3. Len(buf) \in Nat /\ Len(stdout) \in Nat
      BY <2>1, LenProperties
  <2>4. Len(buf \o stdout) = 3
      OBVIOUS
  <2> QED
      BY <2>2, <2>3, <2>4
<1>b. /\ (buf \o stdout)[1] = c /\ (buf \o stdout)[2] = "m1" /\ (buf \o stdout)[3] = "m2"
    OBVIOUS
<1>2. PICK i \in 1 .. Len(buf) : MarkerAt(buf, i)
    BY DEF Complete
<1>3. \A j \in 1 .. Len(buf) : MarkerAt(buf, j) => j = 2
  <2>1. SUFFICES ASSUME NEW j \in 1 .. Len(buf), MarkerAt(buf, j) PROVE j = 2
      OBVIOUS
  <2>2. j + 1 <= Len(buf) /\ buf[j] = "m1"
      BY <2>1 DEF MarkerAt
  <2>3. j = 1 \/ j = 2
      BY <1>1, <2>2
  <2>4. j # 1
      BY <1>1, <1>b, <2>2, TaskKinds
  <2> QED
      BY <2>3, <2>4
<1>4. Len(buf) = 3 /\ Len(stdout) = 0
  <2>1. 2 + 1 <= Len(buf)
      BY <1>2, <1>3 DEF MarkerAt
  <2>2. \A k, m \in Nat : 2 + 1 <= k /\ k + m = 3 => k = 3 /\ m = 0
      OBVIOUS
  <2> QED
      BY <1>1, <2>1, <2>2, Zenon
<1>5. buf = <<c, "m1", "m2">> /\ stdout = <<>>
  <2>1. stdout = <<>>
      BY <1>4, EmptySeq DEF Types
  <2> QED
      BY <2>1, ConcatEmptySeq DEF Types
<1>6. SubSeq(buf, 1, 1) = <<c>> /\ SubSeq(buf, 4, Len(buf)) = <<>>
  <2> HIDE <1>5
  <2>0. buf[1] = c /\ \A k \in 1 .. Len(buf) : buf[k] \in Tokens
      BY <1>5, ElementOfSeq DEF Types
  <2>1. /\ SubSeq(buf, 1, 1) \in Seq(Tokens) /\ Len(SubSeq(buf, 1, 1)) = 1
        /\ SubSeq(buf, 1, 1)[1] = c
      BY <1>4, <2>0, SubSeqProperties
  <2>2. SubSeq(buf, 4, Len(buf)) \in Seq(Tokens) /\ Len(SubSeq(buf, 4, Len(buf))) = 0
      BY <1>4, SubSeqProperties
  <2>3. SubSeq(buf, 1, 1) = <<c>>
    <3>1. <<c>> \in Seq(Tokens) /\ Len(<<c>>) = 1 /\ <<c>>[1] = c
        BY DEF Tokens
    <3> DEFINE x == SubSeq(buf, 1, 1)
               y == <<c>>
    <3>2. x \in Seq(Tokens) /\ y \in Seq(Tokens) /\ Len(x) = 1 /\ Len(y) = 1 /\ x[1] = y[1]
        BY <2>1, <3>1
    <3> HIDE DEF x, y
    <3>3. \A k \in 1 .. Len(x) : x[k] = y[k]
        BY <3>2
    <3>4. x = y
        BY <3>2, <3>3, SeqEqual
    <3> QED
        BY <3>4 DEF x, y
  <2>4. SubSeq(buf, 4, Len(buf)) = <<>>
      BY <2>2, EmptySeq
  <2> QED
      BY <2>3, <2>4
<1>7. Len(Marker) = 2
    BY DEF Marker
<1> QED
    BY <1>3, <1>5, <1>6, <1>7

(* A fresh shell: the pipes are empty, since nobody else can be reading.   *)
LEMMA StartShellKeeps ==
    ASSUME Inv, StrayInv', NEW c \in Commands, StartShell(c)
    PROVE  Inv'
<1>1. /\ pc[c] = "device" /\ drain' = "running" /\ buf' = <<>> /\ pc' = [pc EXCEPT ![c] = "writing"]
      /\ queue' = queue /\ stdin' = stdin /\ stdout' = stdout /\ output' = output
    BY DEF StartShell, Exited
<1>2. Holds(c) /\ drain = "none"
    BY <1>1 DEF Inv, Lock, Fresh, Inner
<1>3. \A d \in Commands : d # c => pc[d] \notin Inner
    BY <1>2, HolderAlone DEF Inv
<1>4. Quiet
    BY <1>1, <1>2, <1>3 DEF Inv, Flow, Inner
<1>5. /\ queue' \in Seq(Locking) /\ Lock'
      /\ pc'[c] = "writing" /\ \A d \in Commands : d # c => pc'[d] = pc[d]
  <2>1. c \in Tasks /\ "writing" \in Places /\ Moves(c, "writing")
      BY <1>1, <1>2, TaskKinds DEF Moves, Places
  <2> QED
      BY <2>1, MoveKeepsLock
<1>6. Types'
    BY <1>1, <1>2, <1>5, EmptySeq DEF Inv, Types
<1>7. Fresh' /\ Flow'
    BY <1>1, <1>3, <1>4, <1>5 DEF Fresh, Flow, Quiet, Inner
<1>8. OutputIsOwn'
    BY <1>1, <1>2, <1>5 DEF Inv, OutputIsOwn
<1> QED
    BY <1>5, <1>6, <1>7, <1>8 DEF Inv

(* The only line in the pipes is that of the command that now reads.       *)
LEMMA WriteLineKeeps ==
    ASSUME Inv, StrayInv', NEW c \in Commands, WriteLine(c)
    PROVE  Inv'
<1>1. /\ Holds(c) /\ pc[c] = "writing" /\ pc' = [pc EXCEPT ![c] = "reading"]
      /\ stdin' = Append(stdin, c) /\ queue' = queue
      /\ drain' = drain /\ buf' = buf /\ stdout' = stdout /\ output' = output
    BY DEF WriteLine
<1>2. \A d \in Commands : d # c => pc[d] \notin Inner
    BY <1>1, HolderAlone DEF Inv
<1>3. /\ queue' \in Seq(Locking) /\ Lock'
      /\ pc'[c] = "reading" /\ \A d \in Commands : d # c => pc'[d] = pc[d]
  <2>1. c \in Tasks /\ "reading" \in Places /\ Moves(c, "reading")
      BY <1>1, TaskKinds DEF Moves, Places
  <2> QED
      BY <2>1, MoveKeepsLock
<1>4. Types'
    BY <1>1, <1>3, AppendProperties DEF Inv, Types
<1>5. Fresh' /\ OutputIsOwn'
    BY <1>1, <1>3 DEF Inv, Fresh, OutputIsOwn
<1>6. ASSUME drain # "failed" PROVE Pipe(c)'
  <2>1. Quiet
      BY <1>1, <1>2, <1>6 DEF Inv, Flow, Inner
  <2> QED
      BY <1>1, <2>1 DEF Pipe, Quiet
<1>7. Flow'
    BY <1>1, <1>2, <1>3, <1>6 DEF Flow, Inner
<1> QED
    BY <1>3, <1>4, <1>5, <1>7 DEF Inv

(* A step that moves bytes from pipe to pipe for the command that reads.   *)
LEMMA PipeKeeps ==
    ASSUME Inv, StrayInv', UNCHANGED <<queue, pc, drain, output>>,
           drain # "failed" => /\ buf' \in Seq(Tokens) /\ stdout' \in Seq(Tokens)
                               /\ stdin' \in Seq(Commands)
                               /\ \A c \in Commands : pc[c] = "reading" => Pipe(c)'
                               /\ \E c \in Commands : pc[c] = "reading"
    PROVE  Inv'
<1>1. Types' /\ Lock' /\ Fresh' /\ OutputIsOwn'
    BY DEF Inv, Types, Lock, Fresh, OutputIsOwn, Holds
<1>2. Flow'
    BY DEF Flow
<1> QED
    BY <1>1, <1>2 DEF Inv

(* A read takes a piece of the pipe into the buffer.                       *)
LEMMA ReadChunkKeeps ==
    ASSUME Inv, StrayInv', NEW c \in Commands, ReadChunk(c)
    PROVE  Inv'
<1>1. PICK n \in 1 .. Len(stdout) :
          /\ Holds(c) /\ pc[c] = "reading"
          /\ buf' = buf \o SubSeq(stdout, 1, n)
          /\ stdout' = SubSeq(stdout, n + 1, Len(stdout))
          /\ stdin' = stdin /\ UNCHANGED <<queue, pc, drain, output>>
    BY DEF ReadChunk
<1>2. ASSUME drain # "failed"
      PROVE  /\ buf' \in Seq(Tokens) /\ stdout' \in Seq(Tokens) /\ stdin' \in Seq(Commands)
             /\ buf' \o stdout' = buf \o stdout
    BY <1>1, <1>2, ReadMoves DEF Inv, Types
<1>4. ASSUME NEW d \in Commands, pc[d] = "reading", drain # "failed" PROVE Pipe(d)'
  <2>1. Pipe(d)
      BY <1>4 DEF Inv, Flow
  <2>2. stdout # <<>>
      BY <1>1
  <2> QED
      BY <1>1, <1>2, <1>4, <2>1, <2>2 DEF Pipe
<1> QED
    BY <1>1, <1>2, <1>4, PipeKeeps

(* What the shell writes for a line.                                       *)
LEMMA LineOutput ==
    ASSUME NEW c \in Commands
    PROVE  <<c>> \o Marker = <<c, "m1", "m2">>
<1> DEFINE x == <<c>>
           y == Marker
           z == <<c, "m1", "m2">>
<1>1. /\ x \in Seq(Tokens) /\ y \in Seq(Tokens) /\ z \in Seq(Tokens)
      /\ Len(x) = 1 /\ Len(y) = 2 /\ Len(z) = 3
      /\ x[1] = z[1] /\ y[1] = z[2] /\ y[2] = z[3]
    BY DEF Tokens, Marker
<1> HIDE DEF x, y, z
<1>2. /\ x \o y \in Seq(Tokens) /\ Len(x \o y) = Len(x) + Len(y)
      /\ \A i \in 1 .. Len(x) + Len(y) :
            (x \o y)[i] = IF i <= Len(x) THEN x[i] ELSE y[i - Len(x)]
    BY <1>1, ConcatProperties, Zenon
<1>3. Len(x \o y) = 3 /\ (x \o y)[1] = x[1] /\ (x \o y)[2] = y[1] /\ (x \o y)[3] = y[2]
    BY <1>1, <1>2
<1>4. \A i \in 1 .. 3 : i = 1 \/ i = 2 \/ i = 3
    OBVIOUS
<1>5. \A i \in 1 .. Len(z) : (x \o y)[i] = z[i]
    BY <1>1, <1>3, <1>4
<1>6. x \o y = z
    BY <1>1, <1>2, <1>3, <1>5, SeqEqual
<1> QED
    BY <1>6 DEF x, y, z

(* The shell executes the next line and writes its output.                 *)
LEMMA ShellExecutesKeeps ==
    ASSUME Inv, StrayInv', ShellExecutes
    PROVE  Inv'
<1>1. /\ stdin # <<>> /\ stdin' = Tail(stdin) /\ stdout' = Append(stdout, Head(stdin)) \o Marker
      /\ buf' = buf /\ UNCHANGED <<queue, pc, drain, output>>
    BY DEF ShellExecutes
<1>3. ASSUME drain # "failed"
      PROVE  buf' \in Seq(Tokens) /\ stdout' \in Seq(Tokens) /\ stdin' \in Seq(Commands)
  <2>0. Tail(stdin) \in Seq(Commands) /\ Head(stdin) \in Commands
      BY <1>1, <1>3, HeadTailProperties DEF Inv, Types
  <2>1. Head(stdin) \in Tokens /\ Marker \in Seq(Tokens) /\ stdout \in Seq(Tokens)
      BY <1>3, <2>0 DEF Inv, Types, Tokens, Marker
  <2>2. Append(stdout, Head(stdin)) \in Seq(Tokens)
      BY <2>1, AppendProperties
  <2>3. Append(stdout, Head(stdin)) \o Marker \in Seq(Tokens)
      BY <2>1, <2>2, ConcatProperties
  <2> QED
      BY <1>1, <1>3, <2>0, <2>3 DEF Inv, Types
<1>4. ASSUME NEW c \in Commands, pc[c] = "reading", drain # "failed" PROVE Pipe(c)'
  <2>1. stdin = <<c>> /\ buf = <<>> /\ stdout = <<>>
      BY <1>1, <1>4 DEF Inv, Flow, Pipe
  <2>2. Head(stdin) = c /\ Tail(stdin) = <<>>
      BY <2>1
  <2>3. Append(stdout, c) \o Marker = <<c, "m1", "m2">>
    <3>1. Append(stdout, c) = <<c>>
        BY <2>1
    <3> QED
        BY <3>1, LineOutput
  <2>4. buf' \o stdout' = stdout'
      BY <1>1, <1>3, <1>4, <2>1, ConcatEmptySeq
  <2> QED
      BY <1>1, <2>2, <2>3, <2>4 DEF Pipe
<1>5. ASSUME drain # "failed" PROVE \E c \in Commands : pc[c] = "reading"
    BY <1>1, <1>5 DEF Inv, Flow, Quiet
<1> QED
    BY <1>1, <1>3, <1>4, <1>5, PipeKeeps

(* The command returns the output of its line and leaves empty pipes.      *)
LEMMA ReturnOutputKeeps ==
    ASSUME Inv, StrayInv', NEW c \in Commands, ReturnOutput(c)
    PROVE  Inv'
<1> DEFINE First(i) == MarkerAt(buf, i) /\ \A j \in 1 .. i - 1 : ~MarkerAt(buf, j)
           idx == CHOOSE i \in 1 .. Len(buf) : First(i)
<1>1. /\ Holds(c) /\ pc[c] = "reading" /\ Complete
      /\ pc' = [pc EXCEPT ![c] = "returned"]
      /\ drain' = drain /\ stdin' = stdin /\ stdout' = stdout
    BY DEF ReturnOutput, Leave
<1>2. queue' = Tail(queue)
    BY TaskKinds DEF ReturnOutput, Leave
<1>3. /\ output' = [output EXCEPT ![c] = SubSeq(buf, 1, idx - 1)]
      /\ buf' = SubSeq(buf, idx + Len(Marker), Len(buf))
    BY DEF ReturnOutput
<1>4. \A d \in Commands : d # c => pc[d] \notin Inner
    BY <1>1, HolderAlone DEF Inv
<1>5. /\ queue' \in Seq(Locking) /\ Lock'
      /\ pc'[c] = "returned" /\ \A d \in Commands : d # c => pc'[d] = pc[d]
  <2>1. c \in Tasks /\ "returned" \in Places /\ Moves(c, "returned")
      BY <1>1, <1>2, TaskKinds DEF Moves, Places, Inner
  <2> QED
      BY <2>1, MoveKeepsLock
<1>9. Fresh'
    BY <1>1, <1>5 DEF Inv, Fresh
<1>10. Types' /\ Flow' /\ OutputIsOwn'
  <2>1. CASE drain = "failed"
      BY <1>1, <1>5, <2>1 DEF Types, Flow, OutputIsOwn
  <2>2. CASE drain # "failed"
    <3>1. Pipe(c)
        BY <1>1, <2>2 DEF Inv, Flow
    <3>2. buf # <<>>
        BY <1>1 DEF Complete
    <3>3. stdin = <<>> /\ buf \o stdout = <<c, "m1", "m2">>
        BY <3>1, <3>2 DEF Pipe
    <3>4. /\ stdout = <<>> /\ \A i \in 1 .. Len(buf) : MarkerAt(buf, i) => i = 2
          /\ SubSeq(buf, 1, 1) = <<c>> /\ SubSeq(buf, 2 + Len(Marker), Len(buf)) = <<>>
        BY <1>1, <2>2, <3>3, FirstMarker DEF Inv
    <3>5. idx = 2
      <4>1. 2 \in 1 .. Len(buf) /\ MarkerAt(buf, 2)
          BY <1>1, <3>4 DEF Complete
      <4>2. \A j \in 1 .. 2 - 1 : ~MarkerAt(buf, j)
        <5>1. \A j \in 1 .. 2 - 1 : j \in 1 .. Len(buf) /\ j # 2
            BY <4>1
        <5> QED
            BY <3>4, <5>1
      <4>3. First(2)
          BY <4>1, <4>2
      <4>4. \A i \in 1 .. Len(buf) : First(i) => i = 2
          BY <3>4
      <4> HIDE DEF First
      <4> QED
          BY <4>1, <4>3, <4>4
    <3> HIDE DEF idx
    <3>6. idx - 1 = 1
        BY <3>5
    <3>7. output' = [output EXCEPT ![c] = <<c>>] /\ buf' = <<>>
        BY <1>3, <3>4, <3>5, <3>6
    <3>8. output'[c] = <<c>> /\ \A d \in Commands : d # c => output'[d] = output[d]
        BY <2>2, <3>7 DEF Inv, Types
    <3>t. Types'
      <4>1. <<c>> \in Seq(Tokens) /\ <<>> \in Seq(Tokens)
          BY DEF Tokens
      <4> QED
          BY <1>1, <1>5, <2>2, <3>7, <4>1 DEF Inv, Types
    <3>9. Flow'
        BY <1>1, <1>4, <1>5, <3>3, <3>4, <3>7 DEF Flow, Quiet, Inner
    <3>10. OutputIsOwn'
        BY <1>1, <1>5, <2>2, <3>8 DEF Inv, OutputIsOwn
    <3> QED
        BY <3>t, <3>9, <3>10
  <2> QED
      BY <2>1, <2>2
<1> QED
    BY <1>5, <1>9, <1>10 DEF Inv

(* At the start there is no shell and nobody is inside the lock.           *)
LEMMA FlowInit == Init => Inv
<1> SUFFICES ASSUME Init PROVE Inv
    OBVIOUS
<1>1. StrayInv
    BY StrayInit
<1>2. Types
    BY EmptySeq DEF Init, Types
<1>3. Lock /\ Fresh /\ Flow /\ OutputIsOwn
    BY TaskKinds DEF Init, Lock, Fresh, Flow, Quiet, OutputIsOwn, Inner
<1> QED
    BY <1>1, <1>2, <1>3 DEF Inv

(* Every step keeps the invariant.                                         *)
LEMMA FlowStep == Inv /\ [Next]_vars => Inv'
<1> SUFFICES ASSUME Inv, [Next]_vars PROVE Inv'
    OBVIOUS
<1>0. StrayInv'
    BY StrayStep DEF Inv
<1>1. CASE UNCHANGED vars
    BY <1>0, <1>1 DEF vars, shellVars, Inv, Types, Lock, Fresh, Flow, Pipe, Quiet, OutputIsOwn, Holds
<1>2. CASE OneshotExits \/ ShellDies \/ ShellReaped
    BY <1>0, <1>2 DEF OneshotExits, ShellDies, ShellReaped, shellVars, Inv, Types, Lock, Fresh,
                      Flow, Pipe, Quiet, OutputIsOwn, Holds
<1>3. CASE DrainFails
  <2>1. drain = "running" /\ drain' = "failed" /\ UNCHANGED <<queue, pc>>
      BY <1>3 DEF DrainFails
  <2>2. Fresh'
      BY <2>1 DEF Inv, Fresh
  <2> QED
      BY <1>0, <2>1, <2>2 DEF Inv, Types, Lock, Flow, OutputIsOwn, Holds
<1>4. CASE ShellExecutes
    BY <1>0, <1>4, ShellExecutesKeeps
<1>5. ASSUME NEW t \in Locking, Acquire(t) PROVE Inv'
  <2>1. /\ t \in Tasks /\ "locked" \in Places /\ Moves(t, "locked") /\ pc[t] = "idle"
        /\ UNCHANGED <<shellVars, output>>
      BY <1>5, TaskKinds DEF Acquire, Moves, Places, Inner
  <2> QED
      BY <1>0, <2>1, ShellAlone
<1>6. CASE Close
  <2>1. PICK w \in {"failed", "returned"} :
            /\ Closer \in Tasks /\ Closer \notin Commands /\ w \in Places
            /\ Moves(Closer, w) /\ Holds(Closer) /\ StopShell /\ output' = output
      BY <1>6, TaskKinds DEF Close, Leave, Moves, Places, Inner
  <2> QED
      BY <1>0, <2>1, StopKeeps
<1>7. ASSUME NEW t \in Shots, Shot(t) PROVE Inv'
  <2>1. PICK w \in {"device", "shot", "returned"} :
            /\ t \in Tasks /\ t \notin Commands /\ w \in Places
            /\ Moves(t, w) /\ UNCHANGED <<shellVars, output>>
      BY <1>7, TaskKinds
         DEF Shot, ShotStarts, ShotDeviceReady, ShotReturns, Oneshot, Leave, Moves, Places
  <2> QED
      BY <1>0, <2>1, ShellAlone
<1>8. ASSUME NEW t \in Tasks, OneshotFails(t) \/ OneshotTimesOut(t) PROVE Inv'
  <2>1. /\ pc[t] \in {"device", "shot"} /\ "failed" \in Places \ Inner
        /\ pc' = [pc EXCEPT ![t] = "failed"]
        /\ queue' = IF t \in Shots THEN queue ELSE Tail(queue)
        /\ UNCHANGED <<shellVars, output>>
      BY <1>8 DEF OneshotFails, OneshotTimesOut, Exited, Leave, Places, Inner, Inv, StrayInv
  <2>2. t \in Shots \/ t \in Commands
    <3>1. t # Closer
        BY <2>1 DEF Inv, StrayInv
    <3> QED
        BY <3>1 DEF Tasks, Locking
  <2>3. CASE t \in Shots
    <3>1. t \notin Commands
        BY <2>3, TaskKinds
    <3>2. Moves(t, "failed")
        BY <2>1, <2>3, <3>1 DEF Moves
    <3> QED
        BY <1>0, <2>1, <3>1, <3>2, ShellAlone
  <2>4. CASE t \in Commands
    <3>1. Holds(t) /\ t \notin Shots
        BY <2>1, <2>4, TaskKinds DEF Inv, StrayInv, Lock, Inner
    <3>2. Moves(t, "failed")
        BY <2>1, <2>4, <3>1 DEF Moves
    <3> QED
        BY <1>0, <2>1, <3>2, ShellAlone
  <2> QED
      BY <2>2, <2>3, <2>4
<1>9. ASSUME NEW c \in Commands, Command(c) PROVE Inv'
  <2>0. c \in Tasks /\ c \notin Shots
      BY TaskKinds
  <2>1. CASE ReuseShell(c) \/ WriteFails(c)
    <3>1. PICK w \in {"writing", "failed"} :
              /\ w \in Places /\ Moves(c, w) /\ pc[c] # "reading"
              /\ UNCHANGED <<shellVars, output>>
        BY <2>0, <2>1 DEF ReuseShell, WriteFails, Leave, Moves, Places, Inner
    <3> QED
        BY <1>0, <2>0, <3>1, ShellAlone
  <2>2. CASE RestartShell(c) \/ RestartFails(c) \/ ReadAbandoned(c)
    <3>1. PICK w \in {"device", "failed"} :
              /\ w \in Places /\ Moves(c, w) /\ Holds(c) /\ StopShell /\ output' = output
              /\ (w = "device" => drain # "failed")
        BY <2>0, <2>2
           DEF RestartShell, RestartFails, ReadAbandoned, Oneshot, Leave, Moves, Places, Inner
    <3> QED
        BY <1>0, <2>0, <3>1, StopKeeps
  <2>3. CASE StartShell(c)
      BY <1>0, <2>3, StartShellKeeps
  <2>4. CASE WriteLine(c)
      BY <1>0, <2>4, WriteLineKeeps
  <2>5. CASE ReadChunk(c)
      BY <1>0, <2>5, ReadChunkKeeps
  <2>6. CASE ReturnOutput(c)
      BY <1>0, <2>6, ReturnOutputKeeps
  <2> QED
      BY <1>9, <2>1, <2>2, <2>3, <2>4, <2>5, <2>6 DEF Command
<1> QED
    BY <1>1, <1>2, <1>3, <1>4, <1>5, <1>6, <1>7, <1>8, <1>9 DEF Next, Shell

(* _run_shell_line and _ensure_shell_unlocked: what a command returns is   *)
(* the output of its own line, however reads split it and whatever earlier *)
(* commands left behind, as long as no drain task has failed.              *)
THEOREM CommandsGetTheirOutput == Spec => []OutputIsOwn
<1>1. Spec => []Inv
    BY FlowInit, FlowStep, PTL DEF Spec
<1> QED
    BY <1>1, PTL DEF Inv

-----------------------------------------------------------------------------
(***************************************************************************)
(* Liveness of the commands without a lock.  The prover knows nothing of   *)
(* ENABLED, so that the fairness of FairSpec is stated with the guard of   *)
(* its step written out: a task that awaits an adb process can always be   *)
(* told of its end, of a failure or of the timeout.                        *)
(***************************************************************************)
Awaits(t)   == pc[t] \in {"device", "shot"}
Answered(t) == pc[t] \in {"returned", "failed"}

PromptOneshot(t) == []<>~Awaits(t) \/ []<><<OneshotFails(t) \/ OneshotTimesOut(t)>>_vars
Prompt           == \A t \in Tasks : PromptOneshot(t)

(* The part of CommandsAnswered for ping and screenshot.                   *)
ShotsAnswered == \A t \in Shots : pc[t] = "device" ~> pc[t] \in {"returned", "failed"}

(* Nobody else moves a ping or a screenshot.                               *)
LEMMA ShotMoves ==
    ASSUME StrayInv, [Next]_vars, NEW t \in Shots, Awaits(t)
    PROVE  Awaits(t)' \/ Answered(t)'
<1>1. t \in Tasks /\ pc \in [Tasks -> Places]
    BY TaskKinds DEF StrayInv
<1> USE DEF Awaits, Answered, Leave, Oneshot
<1>2. CASE UNCHANGED vars
    BY <1>2 DEF vars
<1>3. ASSUME NEW u \in Locking, Acquire(u) PROVE Awaits(t)'
    BY <1>1, <1>3, TaskKinds DEF Acquire
<1>4. ASSUME NEW u \in Commands, Command(u) PROVE Awaits(t)'
    BY <1>1, <1>4, TaskKinds DEF Command, ReuseShell, RestartShell, RestartFails, StartShell,
       WriteLine, WriteFails, ReadChunk, ReadAbandoned, ReturnOutput
<1>5. ASSUME NEW u \in Shots, Shot(u) PROVE Awaits(t)' \/ Answered(t)'
    BY <1>1, <1>5, TaskKinds DEF Shot, ShotStarts, ShotDeviceReady, ShotReturns
<1>6. ASSUME NEW u \in Tasks, OneshotFails(u) \/ OneshotTimesOut(u)
      PROVE  Awaits(t)' \/ Answered(t)'
    BY <1>1, <1>6 DEF OneshotFails, OneshotTimesOut
<1>7. CASE Close
    BY <1>1, <1>7, TaskKinds DEF Close
<1>8. CASE Shell \/ OneshotExits
    BY <1>8 DEF Shell, ShellExecutes, ShellDies, ShellReaped, DrainFails, OneshotExits
<1> QED
    BY <1>2, <1>3, <1>4, <1>5, <1>6, <1>7, <1>8 DEF Next

(* _run_adb_oneshot: ping and screenshot are answered, for any number of   *)
(* them and of adb processes that never end, whatever the shell and its    *)
(* lock are doing: they wait for two processes, each with a timeout.       *)
THEOREM ShotsAreAnswered == Spec /\ Prompt => ShotsAnswered
<1>1. ASSUME NEW t \in Shots
      PROVE  Spec /\ Prompt => (pc[t] = "device" ~> pc[t] \in {"returned", "failed"})
  <2>1. StrayInv /\ Awaits(t) /\ [Next]_vars => Awaits(t)' \/ Answered(t)'
      BY ShotMoves
  <2>2. StrayInv /\ <<OneshotFails(t) \/ OneshotTimesOut(t)>>_vars => Answered(t)'
      BY TaskKinds DEF StrayInv, OneshotFails, OneshotTimesOut, Leave, Answered
  <2>3. pc[t] = "device" => Awaits(t)
      BY DEF Awaits
  <2>4. Answered(t) <=> pc[t] \in {"returned", "failed"}
      BY DEF Answered
  <2>5. Prompt => PromptOneshot(t)
      BY TaskKinds DEF Prompt
  <2>6. Spec => []StrayInv
      BY StrayInit, StrayStep, PTL DEF Spec
  <2> QED
      BY <2>1, <2>2, <2>3, <2>4, <2>5, <2>6, PTL DEF Spec, PromptOneshot
<1> QED
    BY <1>1 DEF ShotsAnswered

=============================================================================
