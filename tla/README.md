# A TLA+ model of rpcproxy

rpcproxy is an asyncio WebSocket client for a relay that speaks the
fastapi-websocket-rpc wire format, with handlers that drive a browser or an
Android device on behalf of remote callers, and a login flow that hands out API
keys. The modules here model its stateful parts, TLC checks them on small
instances, and TLAPS proves every safety property of theirs, and some of the
liveness properties, for every value of the constants.

## 1. The system and its hard parts

| Component | State | Operations | Interacts with |
|---|---|---|---|
| `client/base.py` | socket, reader task, `_pending`, `_relay_waiters`, `_relay_stash` | `connect`, `close`, `_call_remote`, `wait_relay_predicate`, reader loop | server; subclass `receive_envelope`; `ChunkReassembler` |
| `client/chunking.py` | `_pending`, an ordered table of incomplete transfers | `encode_chunked_bodies`, `push`, `clear` | called by `post_message_chunked` and by the reader |
| `client/handler_client.py` | `_handler_sem`, one task per envelope | `receive_envelope`, pipeline | the user's handler; posts through the base client |
| `auth/sessions.py` | `_sessions` | create, look up, complete, remove | request threads, the application |
| `auth/api_key.py` | `_records` of the callees, `_api_keys` of a caller | generate, parse, mask, issue, verify, revoke, save, remove | the authorization server |
| `auth/local_authorization.py` | HTTP server, one thread per request | `start`, `stop`, GET, POST | sessions, issuer, push callback |
| `handlers/adb_handler.py` | one `adb shell`, its receive buffer, a drain task, a lock; one process for each ping and screenshot | tap, swipe, input_text, ping, screenshot, close | run inside pipelines |
| `handlers/playwright_handler.py` | driver, browser, context, page map, a lock | open_page, execute_js, request, close_page, close | run inside pipelines |
| `fastapi_ws_rpc/wire.py` | none | frame constructors and predicates | the reader, and the peer's end of the same protocol |
| `cli_post.py` | the task of `run_post`, its `wait_task` | connect, wait and post, unwind, close | base client |
| `demo_loop.py`, `adb_loop.py`, `playwright_loop.py` | the task of the command | connect, `set_state`, serve, close | handler client, device session |
| `cli.py`, `logging_config.py` | none | options, log files | all of the above |

What is hard to test:

- **Futures and tables.** A call or wait registers a future, sleeps, and takes
  its entry out when it wakes. Responses, envelopes, timers, cancellation, the
  reader's `finally` and `close()` all touch the same tables between its going
  to sleep and its waking up; a second wait may reuse the request id.
- **Ends of the connection.** The peer closes, `close()` runs, the reader
  fails; each must wake everybody, and a new connection must inherit nothing.
- **The relay's receipts.** Each must reach one wait, now or later, within a
  bounded stash.
- **Chunks** come in any order, repeated or damaged, for more transfers than
  there is room for.
- **Slots.** A pipeline may end in seven ways, and must return its slot in each;
  it posts over the connection whose reader has started it.
- **Threads without locks** in the login flow; the clock moves between two
  looks at a session.
- **A shared pipe to a shell** that may die or stall; **a browser** that starts
  lazily, in three steps, each of which may fail.
- **Commands outlive `close()`**: nothing cancels a pipeline.
- **Ctrl-C** arrives at any await of a command, also inside the `except` and
  `finally` that clean up after an earlier failure, and some awaits swallow it.
- **Ids of two speakers.** Client and server draw call ids independently, and a
  frame may hold a request, a response, both or neither.

`PROJECT.json` lists these hazards at their lines, with the properties that
would notice them.

## 2. Modules

| Module | Models | Extends |
|---|---|---|
| `ChunkReassembler` | the sender's slices and the receiver's table | |
| `RpcClient` | `RpcProxyClientBase` | instance of `ReceiptMailbox` |
| `ReceiptMailbox` | abstract: what `wait_relay_predicate` promises | |
| `HandlerClient` | `HandlerPostMessageClient` composed with the client | `RpcClient` |
| `ServeLoop` | `run_demo`, `run_adb`, `run_playwright` | `HandlerClient` |
| `RunPost` | `run_post` | `RpcClient` |
| `Wire` | the frames, as a conversation of the reader with a peer | |
| `LoginAuthorization` | sessions, key records, the HTTP server's threads | |
| `ApiKeys` | texts of keys, records, the caller's store | |
| `AdbSession` | the persistent shell, and the one-shot processes | |
| `PlaywrightSession` | the browser session | |
| `ChunkReassemblerProofs` | theorems about `ChunkReassembler` | `ChunkReassembler` |
| `RpcClientProofs` | theorems about `RpcClient`, and that it is a `ReceiptMailbox` | `RpcClient` |
| `HandlerClientProofs` | theorems about `HandlerClient` and `ServeLoop` | `ServeLoop`, `RpcClientProofs` |
| `RunPostProofs` | theorems about `RunPost` | `RunPost`, `RpcClientProofs` |
| `LoginProofs`, `AdbProofs`, `PlaywrightProofs` | theorems about `LoginAuthorization`, `AdbSession`, `PlaywrightSession` | their module |
| `FormatProofs` | theorems about what is written down and parsed elsewhere | `ApiKeys`, `Wire` |
| `MC*` | small instances for TLC | their module |

Definitions whose comment begins "Mutant of" are wrong versions of the
definition below them. No specification uses them; they show that each property
notices a plausible mistake in the code.

### ChunkReassembler

`pending` is `_pending`, oldest first. `Touched(e)` is the table after the
lookup in `push`: the transfer inserted with an eviction, or moved to the end.
The actions are the ways out of `push`: refused before the lookup
(`PushMalformed`), refused after it (`PushRejected`, which has already moved
the entry), stored (`PushPartial`), completed (`PushComplete`), completed and
found damaged (`PushCorrupt`); and `Clear`. The relay is external: a genuine
envelope may arrive `MaxCopies` times (a bound for each transfer), in any order
or never; `Damaged` holds envelopes that differ from what the sender made. The
digest is the set of the digested bytes, hence free of collisions; base64, JSON
and gzip are left out.
`DeliveriesPaid` says nothing of a transfer that the relay itself has cut anew
into fewer chunks (`Recut`; no instance has one): the receiver takes the count
that the envelopes agree on and cannot know the sender's.

### RpcClient

A step is what a task does between two awaits. The reader waits in `recv`,
`handling` (the subclass's `receive_envelope`) or `replying`, and ends as
`ended` or `failed`. `Cleanup` is the body of its `finally` block and of
`close()`. A call goes `idle`, `sending`, `waiting` and then to an outcome; a
wait is the same without `sending`. `fut` is the future; a task can be woken
(`fut` done) long before it runs (`CallResume`, `WaitResume`), and everything
else may happen in between. `interrupt` records a timer or a cancellation.
Receipts are numbered; since only the newest one is ever inserted into the
`OrderedDict`, its order is the order of the numbers and the stash is a set.

`LateTimers` distinguishes the two behaviours of `asyncio.wait_for` among the
supported Python versions: up to 3.11 a timer that fires on a completed future
is ignored, from 3.12 on the task gets `TimeoutError`.

A task may also be cancelled (`TaskCancel`, `CallSendCancelled`): by Ctrl-C, by
`run_post` for its `wait_task`. Up to Python 3.11 `wait_for` swallows a
cancellation that finds the future done (`CancelLost`). `wait_until_disconnected`
awaits the reader task, so that cancelling it cancels the reader
(`DisconnectWaitCancelled`); `close()` may be cancelled in `ws.close()`
(`CloseCancelled`) and called again (`CloseAgain`). `close()` while another
`close()` runs, and `connect()` during `connect()`, are not modelled: no caller
does either.

`ReceiptMailbox` says what this machinery amounts to for its users: a receipt is
handed to the wait that asks for it, or kept, the newest for each request id,
with the oldest dropped when there is no room, and only then. `Asking`, the waits with a
pending future, is the refinement mapping; connections, futures, timers and
tasks disappear.

### HandlerClient

Pipeline `n` belongs to the `n`-th published envelope and its `k`-th part is the
call `<<n, k>>` of `RpcClient`, so that a reply in one post and one in chunks
differ only in `Parts[n]`. `WakeNext` is the hand-over in `asyncio.Semaphore`:
a released slot is given to the first waiter that was not woken; that waiter
stays in the queue until it runs; a newcomer takes a free slot only if nobody
is in the queue. `receive_envelope` does not await and does not raise, hence
`HandlingRaises` is absent. `RepliesWhole` is about replies in several parts: a
part that fails, times out or is lost with its connection ends the reply, although
the pipeline lives on and the client may be connected anew.

### LoginAuthorization

A request thread takes one step for each access to what threads share. The
look-up, the reading of the clock and the write back of
`get_pending_session` are separate steps. Keys are named by their number in the
order of issue. The application creates and removes sessions, revokes keys and
supplies the push callback, which may raise before or after the key went out.

### ServeLoop, RunPost

These compose the client with the task that runs a command. `main` is where that
task is. asyncio runs one task at a time: what the loop does (`LoopStep`) happens
only while the command's task is suspended, and steps without an await between
them are one step. Ctrl-C comes at most once, at any await, and does there what
cancellation does: it leaves `connect`, interrupts a call or a wait, cancels the
reader under `wait_until_disconnected`, or is swallowed where `close()` awaits the
reader.

In `ServeLoop` the shell or browser is one resource, `session`, opened, used and
dropped by the handler that has the session's lock (`holder`); the two modules
below have the details. `close()` of a device client closes the client and then
the session, await by await: `AwaitLock` while a handler has the lock (and may
still open the session), `TakeLock`, `Drained` for the drain task of the shell,
which raises if that task has failed, and `SessionStopped` for the process or the
browser. Pipelines run on meanwhile. Ctrl-C is swallowed at the drain task and
propagates at the other awaits, with the session left as it is; `released` says
how `session.close()` has ended. When the command's task has ended, `asyncio.run`
cancels the pipelines; one that waited for the lock gets no further than its first
await, before which neither handler opens anything. The demo's calls have
no timeout, those of the device commands have the default one. `RunPost` has one
call for each chunk and the wait that is registered, through `sleep(0)`, before
the first of them.

### Wire, ApiKeys

A frame of `Wire` has at most one request and one response; a call id is text,
a number or null, and both ends turn it into text as `str()` does. The peer
answers in any order, late, again or never, and may send a frame that is a
response and a request at once. The reader may end at any time (`ReaderEnds`), and
it ends on a call of the peer whose handling raises (`ReadFails`): `_dispatch_inbound`
catches neither what `is_chunk_envelope` and `receive_envelope` raise nor what
`ws.send` of the reply does. That call is never answered, what was pending is
cancelled, and frames that come later are not read.

The text of a key is the sequence of its pieces between underscores, and
`Segments` are the pieces the regular expression accepts. The expression accepts
the dots of a masked key: a masked key parses, and can be saved by a caller.

### AdbSession, PlaywrightSession

`queue` is the `asyncio.Lock`: its head holds the lock. The shell is a process
that executes lines in order and may die at any time; `exited` and `reaped` are
before and after the event loop has noticed. A stuck drain task is `failed`:
`_stop_shell_unlocked` then raises before it does anything. `ping` and
`screenshot` start processes of their own, outside the lock; one that times out
is left running. `_stop_shell_unlocked` is one step: it runs under the lock, and what the shell does
meanwhile is forgotten with it. Playwright's objects are numbered; each of its calls
may raise, and the browser may vanish at any time, though not a single page by itself.

## 3. What TLC checks

| Run | Instance | Shows |
|---|---|---|
| `chunks` | bodies of a full and a short chunk, of two full ones and of none (one empty chunk), two places, two copies of the chunks of one body; an envelope with other bytes, one with an index past the end, one with another count | `TypeOK`, `DeliveredIsPosted`, `OnlyDamageIsRejected`, `TableSound`, `DeliveriesPaid`, `DeliveredWhenAllArrived`, `EvictedOnlyWhenStale` |
| `receipts` | a timed wait and an untimed one, two request ids, two connections, three envelopes, stash of one | `NoLostWakeup`, `ReceiptAccounted`, refinement `IsMailbox` |
| `rpc_calls` | a timed call and an untimed wait, two connections, an envelope, late timers | `TypeOK`, `NoLeakedEntry`, `AwaitsCurrentConnection`, `DisconnectWakesAll` |
| `handler` | four pipelines, one with a reply in two parts and one with a timeout, two slots, one connection | `SlotsConserved`, `NoIdleSlot`, `StartedInOrder`, `RepliesWhole` |
| `serve` | each command, two envelopes with replies of 1 and 2 parts, one slot, a session that handlers lock, open and drop, Ctrl-C at any await | `SessionReleased`, `ServeEnds`, `PipelinesEnd` |
| `run_post` | a body of two chunks, receipts of the command's request id and of another, late timers, Ctrl-C | `NothingLeftBehind`, `ResultSound`, `PostsInOrder`, `RunEnds` |
| `wire` | two call ids at both ends, a built-in method, `receive_envelope` and an unknown one, two frames of the peer, a reader that fails or ends | `OwnResult`, `RepliesExpected`, `PeerCallsAnswered`, `AnswersArrive` |
| `login` | two requests, a session that expires after one tick and one created anew | `PushedKeysVerify`, `NoReuseAfterCompletion`, `ExpiredOnArrivalRejected` |
| `api_keys` | two callees, two key ids, two secrets; texts with too few and too many pieces, illegal pieces, wrong prefixes | `VerifiesExactlyIssued`, `MaskedKeyUseless` |
| `adb` | two commands, a ping or screenshot, close, two shells | `OutputIsOwn`, `StraysAccounted`, `CommandsAnswered` |
| `playwright` | three commands, close, three objects of each kind | `BrowserOwned`, `DriversAccounted`, `PagesTracked` |
| `serve_reader_failed` | as `serve` | a counterexample to `CloseReleasesAll`, see below |

Why the bounds are enough. The races need one entry, its owner, a successor for
the same key and one intruder: two waits for two request ids, with one timed,
contain a wait that is interrupted and its successor under the same id, and two
rivals under different ones. A call has an entry that nobody else uses; what it
shares with a wait is the reader and the cleanup, for which one of each is enough.
Two connections are the least with which something may survive a reconnection. A
stash or table of one or two places with one more claimant is the least with which
the eviction chooses, and three envelopes of two ids contain a receipt that
replaces one of its own id and one that evicts another. Repetition and damage
concern the chunks of one transfer, and the others compete with it for a place. Four
pipelines for two slots are the least with which a slot is freed while a woken
waiter has not run and a newcomer arrives. Three commands on one lock contain a
holder, a waiter and a latecomer; for the shell, whose state is larger, `close()`
is the third. A command serves with one connection in its life, and two pipelines
for one slot contain one that holds it and one that waits. A body of two chunks has
a part before and a part after an answer. Two call ids that both ends use, with two
frames, contain an answer that comes twice, an answer to the other call before
it, and a call of the peer with the id of ours. Two callees that may draw the same
key id and the same secret contain every confusion between two keys. Two requests
and two sessions contain a confirmation and a latecomer, two confirmations that
overlap, and a thread that writes an old session back over a new one. Where an
instance leaves a combination out (pipelines across a reconnection, a third
request), the theorems of section 4 have no bound.
Symmetry is used where the permuted values are interchangeable in the
configuration (`receipts`: request ids; `login`: requests; `playwright`: commands),
and in no run with a liveness property.

**Deadlock** is not checked: every instance is a finite set of calls, requests
or commands, after which nothing is left to do. That nobody waits for ever is
what the liveness properties say. (`api_keys`, whose caller may always remove a
key, has no such end, and deadlock is checked there.)

**Fairness.** Weak fairness for what the event loop runs when it is ready: the
reader between two frames, a task whose future is done, a cancelled await,
`close()`, the command's own task. Timers that are due fire. `ws.send` and
`ws.close` end, because the keepalive of `websockets` breaks a connection whose
peer is gone; handlers return, and with that the session's lock comes back; the
drain task ends when it is cancelled, and a shell or browser that is closed ends. There is none for the server, for callers, for
Ctrl-C and for failures, with one exception: the demo's calls have no timeout,
and `PipelinesEnd` then relies on a server that answers (strong fairness of each
response being read); for the device commands it relies on the timers alone. In
`Wire` both ends read what has arrived, the client as long as its reader runs, and
the peer need not answer. In
`AdbSession` weak fairness of a command stands for its timeouts and for the lock
being first come, first served.

### Where documentation and code disagree

`serve_reader_failed` is expected to end in a counterexample. When the reader
task has failed (sending a reply raised, or `is_chunk_envelope` raised at
`base.py:421`, outside the `try`), `close()` awaits it at `base.py:139` and
raises what it raised. The connection is not released, and the `close` of the
device clients never reaches the session, although `README.md:170` says that
`finally` calls `close()`, which releases the connection.

More behaviours are in the models and worth knowing; no property excludes them.

- With `LateTimers`, that is with Python 3.12 on, a timer that fires between the
  publication of a receipt and the resumption of its wait loses the receipt.
  `ReceiptAccounted` is checked, and proved, without late timers only.
- `confirm_authorization` pushes the key before `complete_session` looks at the
  session again, so that a confirmation may answer 400 although its key has been
  issued, recorded and pushed.
- A handler that waits for the lock while `close()` stops the shell or the
  browser starts another one afterwards, where the event loop lives on
  (`AdbSession`, `PlaywrightSession`). Under the commands it does not:
  `asyncio.run` cancels it.
- `session.close()` may leave the session: it raises after a failed drain task of
  the shell (`adb_handler.py:102`), and Ctrl-C cuts it short at every other await.
  `SessionReleased` names both.
- A driver of Playwright whose browser could not be launched is forgotten by the
  next start. `DriversAccounted` allows one for each failed launch.
- A call of the server that makes the reader fail is not answered, nor is any
  later one (`Wire`); `PeerCallsAnswered` is about a reader that runs.
- Ctrl-C between `connect()` and the `try` of `run_post` leaves the wait and the
  connection to `asyncio.run`, which cancels them.
- A lost connection cancels the calls of `run_post`, which then ends with
  `CancelledError`, not with one of the errors `post_cmd` reports.
- A server's call of an unknown method is never answered (`Wire`).

## 4. What is proved

TLAPS checks the following for every value of the constants, under the named
assumptions of the modules: sizes, limits and lifetimes are naturals, positive
where the code needs it; tasks of different kinds are different; a body is a
sequence, there are finitely many transfers, and a damaged digest is the
transfer's own or none; a secret has no dots and the text of a key is made of
strings. Every invariant and action property and every refinement that a run
checks is a theorem here, and so are two of the liveness properties and a part of
a third; what each needs beyond itself is below.

**Fairness in proofs.** TLAPS does not know ENABLED, and WF is defined by it. The
theorems about liveness therefore assume weak fairness with the guard written
out: `Promptly(ready, A)` says that `ready` is false again and again or `A` is
taken again and again, and that is `WF_vars(A)` where `ready` is the guard of
`A`. `Prompt` in `RpcClientProofs` is the formula `Fairness` of `RpcClient`,
clause by clause, with `CanHandle`, `CanReply`, `Woken` and the others as guards:
they are the conjuncts of the actions that have no prime. `SPrompt` and the
`Prompt` of `AdbProofs` restate in the same way those clauses of `SSpec` and
`FairSpec` that the theorem needs, so that the theorem also says which fairness
the property rests on. No theorem assumes anything of a server or of a user, and
of handlers only `CommandsEnd` does: that they give the session's lock back.

**ChunkReassemblerProofs.** Three invariants.

- `IInv == TypeOK /\ TableSound /\ RecencyOrder /\ DeliveredIsPosted`.
  `TableSound` alone is not inductive: that a fresh entry is not evicted by its
  own insertion needs the shape of the table after the lookup (`TouchedShape`).
  `DeliveredIsPosted` follows from the digest. Eviction needs `RecencyOrder`:
  whoever is behind the oldest entry was touched after it, so a full table names
  `max_pending` transfers that were (`EvictedIsStale`).
- `FaithInv` adds, for transfers of which nothing damaged has arrived, that the
  entry is a part of what was posted (`Intact`) and that what arrived is held
  until it is delivered or dropped (`Kept`). That the last chunk passes the checks
  of `push` is then a fact about bodies of any length: the slices, the short last
  one and the single empty one included, join to the body (`JoinOfSlices`).
- `PaidInv` adds the account of copies (`Paid`): a chunk that is held is paid for
  as well as one that was delivered.

`JoinOfSlices` is about a recursive function (`FlattenSeq`) for every input. It is
proved without an induction scheme: the prefixes of the body satisfy the
function's recursion (`FlattenByPrefixes`), and a first position where the two
differ cannot exist (`LeastNumber`, from the library's `WFMin`).
Results: `TypeCorrect`, `TableIsSound`, `DeliveryIntegrity`, `EvictionIsLRU`,
`OnlyDamageRaises`, `AllArrivedIsDelivered`, `EveryDeliveryIsPaid`.

**RpcClientProofs.** Three layers. (`StashWaiterExclusive`, `StashSound` and
`ReceiptExclusive` are parts of them that TLC does not check on their own: what
a caller sees of them is in `IsMailbox`.) `Tables` ties futures, tables and program
counters together: a pending future is registered, an entry belongs to a task
that is inside its call, and a registered wait knows its id (`WaitSound`,
without which a cleanup could cancel the wrong future). `Connection` adds that
a reader exists only with a socket and that a pending call belongs to the
current connection. `Receipts` adds the account of every receipt. Results:
`WakeupsAreNeverLost`, `EntriesNeverLeak`, `NoWaiterBesideItsReceipt`,
`TypeCorrect`, `CallsAwaitTheCurrentConnection`, `StashIsSound`,
`ReceiptsAreExclusive`, and, if `~LateTimers`, `ReceiptsAreNotLost`.

`RelayIsMailbox`: `RpcClient` implements `ReceiptMailbox`. The step proof uses
`NoWaiterBesideItsReceipt` and `Tables`: that nobody asks for what is in the box,
and that the future that a publication completes is the one registered for its
request id. Most actions of the client are stutters; the ones that are not are
the eviction from a full stash, which drops the oldest receipts, and the cleanup,
which may end several waits at once.

Steps and liveness. `Steady` is `Connection` with `Fresh`, that a future exists
from the registration on and that only a completed one has been interrupted. Two
lemmas say what any step may do, `TaskMoves` to a task and `ReaderMoves` to the
reader; they carry all that follows.

- `OutcomesNeverChange`: an outcome and a completed future are final.
- `NobodySleepsPastTheReader`: in the step in which the reader ends nobody is left
  pending. This is the step property on which the liveness rests.
- `LostConnectionsWakeAll` (`DisconnectWakesAll`): on a closed socket the reader
  goes from `recv` or `handling` to `replying`, each with a fair step of its own,
  and ends; then every future is done and the loop resumes its task.
- `TimeoutsBoundEveryWait`: with a timeout a task ends without any of that, also
  on a connection that has lost its reader.
- `CloseAlwaysEnds`: `close()` goes from the reader to the socket to its end,
  whichever way the reader ends meanwhile.

**HandlerClientProofs.** The invariant `HInv` adds to the types the order
`Ordered`: who has started, who queues and who has just been created form an
initial segment each, and a woken waiter is not behind one that is not woken.
With it the first of the queue is known, which `NoIdleSlot` and
`StartedInOrder` need and do not contain. Counting is by `CountExcept`: one
pipeline changes the number of holders by at most one. Results:
`SlotsAreConserved`, `SlotsAreNeverIdle`, `HandlersStartInOrder`. The module is
composed of actions of `RpcClient`, and the lemma `HandlerIsRpcClient` says so; it
carries over what holds of every client, such as `NoLostWakeup` (`PostsAreWoken`).
`RepliesAreWhole` rests on `Progress`: nothing is sent before the handler has
returned; while a pipeline posts, the parts before its own are answered and those
after it were not sent; and when it is done, all parts are answered or it stopped
at one that failed. It has no bound on connections, so it covers the pipeline that
survives a reconnection, which the run does not. `EnvelopesAreHandledOnce` says
that a pipeline only moves forward.

For the commands of `ServeLoop`: every step is one of the handler client or one
of the few things a command does beside it (`SNextCases`), and these are steps of
`RpcClient` that touch no pipeline. So `HInv` holds of the commands too, and with
it what it gives the handler client (`CommandsAreHandlerClients`). `SInv` adds that
a `close()` which is over has an outcome (`CloseSettled`) and that the demo has no
session (`SessionSound`), and gives `CommandsReleaseTheirSession`: no interleaving
of handlers with the two parts of `close()` leaves the session open, only an
exception or Ctrl-C inside one of them does.

`CommandsEnd` (`ServeEnds`): `CommandInv` adds where the command's task is and what
may then be pending (`CommandSound`): a report of the token is unsettled only
beside a living reader, Ctrl-C settles it, and a command that serves after Ctrl-C
has no reader any more. So there are five places from which a doomed command must
end (`DoomedCases`): the report being sent, settled, or pending with the connection
lost; serving with the reader stopped, or with the connection lost. From each it
goes to `close()` and from there, through the session's lock, to the end;
pipelines, timers and the server may do what they like. (`SPrompt` assumes that a
command which waits for that lock gets it: `asyncio.Lock` serves its waiters in
order. TLC's run needs no such clause, because there the handlers return.) The order matters: a report that ends well takes the command on
to serving, and never back.

**RunPostProofs.** `CommandIsRpcClient`: `run_post` uses the client only as
`RpcClient` allows, so `Connection` and `Receipts` hold of it, and the relay is a
mailbox to it (`CommandSeesMailbox`). `PInv` adds where
the command is: which parts are answered (`Posted`), that the wait is the
command's own and over before `close()` (`WaitOwn`), one connection and one
`close()` (`ClosedOnce`), and the reason for each outcome (`OutcomeEarned`).
Ctrl-C may come at every await, also while an earlier exception unwinds; the
outcome is therefore tied to what has been answered at each of these points and
not only at the end. Results: `PartsArePostedInOrder`, `CommandLeavesNothing`,
`CommandReportsTheTruth`.

**LoginProofs.** `KeyInv` follows a key (`KeysRecorded`: recorded, pushed,
reported) and the clock (`InTime`: who gets a key arrived before the end of the
session it resolved). `ReuseInv` adds that a session number belongs to one caller
wherever it is found, in the store or in a thread's hands (`Owned`), and that a
confirmed session is never pending again (`Spent`). `Owned` is what makes the
writes of stale copies harmless: a thread writes back only what its own caller's
session was. Results: `KeysThatWentOutVerify`, `LatecomersGetNoKey`,
`ConfirmedOnce`.

**FormatProofs.** Keys: a record is there exactly for an issued key and has the
hash of the one secret it was issued with (`Recorded`); parsing inverts
generating, for every alphabet. Results: `KeysVerifyExactly`,
`MaskedKeysAreUseless`. Wire: the peer's call or our reply to it is on its way
only once, and only while the peer waits for it (`Once`). Results:
`CallsGetTheirResult`, `RepliesAreExpected`.

**AdbProofs.** `StrayInv`: a process without a task that awaits it belongs to one
that failed. `Flow`: between two commands the pipes are empty, and during one they
hold its line or what is left of its output, however the reads split it. It is not
inductive without the lock (`Lock`) and without `Fresh`, that a shell is started
only when the last one is stopped, its drain task included. A drain task that has
failed ends what can be said of the pipes, and `OutputIsOwn` claims nothing from
then on. Results:
`StraysAreAccounted`, `CommandsGetTheirOutput`. `ShotsAreAnswered` is the part of
`CommandsAnswered` for ping and screenshot: two processes, each with a timeout, and
nobody else moves the task.

**PlaywrightProofs.** `BrowserOwned` needs that a browser is launched only where
none is left, while the launcher holds the lock (`Lock`, `LaunchesOne`). The
drivers are counted: those that are not the session's are at most as many as the
launches that raised, and where no browser runs and nobody is between a driver and
its browser, the same holds of all drivers (`DriversLost`), so that the next start
may forget the session's. `PagesTracked` needs that whoever closes a page took it out of
the map first (`TakenFirst`). Results: `OneBrowser`, `DriversAreAccounted`,
`PagesAreTracked`.

**Only model-checked.** `PipelinesEnd`, `RunEnds`, `PeerCallsAnswered`,
`AnswersArrive`, and `CommandsAnswered` for the commands that use the lock. In each
the wait is as long as a queue, a list of parts or the frames on their way, and its
proof is an induction over that length inside temporal logic: the library's
induction theorems take an operator as a parameter, which the provers cannot
instantiate. The expected counterexample of `serve_reader_failed` is TLC's as well.

## 5. What is not modelled

- Option parsing, log files, HTML, exit codes: input and output only.
- JSON, base64, gzip and SHA-256: a frame is its fields, a body its bytes, a
  digest free of collisions.
- Argument checks of the ADB commands, the screenshot's file; how requests are
  prepared and responses encoded in the Playwright handler.
- `looks_like_rpc_response_only` of the wire format, which has no caller.
- The server. The models let it do anything the protocol allows.
- Types and exceptions, which are declarations.

## 6. What is left

Every component with state has a module, the commands are composed with the client
they run, and the relay has an abstract specification that it refines. All
invariants, action properties and refinements are proved, and of the liveness
properties those whose argument has a fixed number of stages. Left are the five
named above, which wait for a prover that can use an induction theorem. Their
single steps are within reach in the form of section 4, and some are there: a
woken task ends (`WokenEnds`), a timed one does (`TimeoutsBoundEveryWait`), a
pipeline moves only forward (`EnvelopesAreHandledOnce`).
