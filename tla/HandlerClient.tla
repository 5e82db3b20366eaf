--------------------------- MODULE HandlerClient ---------------------------
(***************************************************************************)
(* HandlerPostMessageClient (src/rpcproxy/client/handler_client.py) on top *)
(* of RpcClient.  Every envelope with a request id starts a pipeline task, *)
(* which takes one of MaxInflight slots (an asyncio.Semaphore), runs the   *)
(* user's handler and posts the result: in one call, or, when the body is  *)
(* large, in one call for each chunk.                                      *)
(*                                                                         *)
(* Pipeline n is the one of the n-th envelope; its k-th part is the call   *)
(* <<n, k>> of RpcClient.  The event loop starts tasks in the order of     *)
(* their creation and resumes them in the order they were woken.           *)
(* receive_envelope itself does not await and does not raise; nothing      *)
(* cancels a pipeline, close() included.                                   *)
(***************************************************************************)
EXTENDS RpcClient

CONSTANTS
    MaxInflight,    \* max_inflight
    Parts           \* calls that each reply takes; its length bounds the pipelines

VARIABLES
    pl,         \* where each pipeline is
    slots,      \* _value of _handler_sem
    part        \* the part each pipeline posts

handlerVars == <<pl, slots, part>>
allVars     == <<vars, handlerVars>>

Pipelines == DOMAIN Parts

ASSUME InflightAssumption == MaxInflight \in Nat \ {0}

ASSUME PartsAssumption == Parts \in Seq(Nat \ {0})

ASSUME CallsAssumption ==
    \A p \in Pipelines : \A k \in 1 .. Parts[p] : <<p, k>> \in Calls

(* Inside the semaphore: a slot is handed to a waiter when it is woken.    *)
Holding == {"woken", "handler", "posting"}

Holders == {p \in Pipelines : pl[p] \in Holding}

(* The waiters of the semaphore; one that was woken stays in its queue     *)
(* until it runs.                                                          *)
Queue  == {p \in Pipelines : pl[p] \in {"queued", "woken"}}
Queued == {p \in Pipelines : pl[p] = "queued"}

First(s) == CHOOSE p \in s : \A q \in s : p <= q

HInit ==
    /\ Init
    /\ pl = [p \in Pipelines |-> "none"]
    /\ slots = MaxInflight
    /\ part = [p \in Pipelines |-> 0]

-----------------------------------------------------------------------------
(***************************************************************************)
(* The semaphore                                                           *)
(***************************************************************************)

(* The first waiter that was not woken gets a slot of the n that are free. *)
WakeNext(newpl, n) ==
    LET waiting == {q \in Pipelines : newpl[q] = "queued"}
    IN  IF waiting = {} \/ n = 0
        THEN pl' = newpl /\ slots' = n
        ELSE pl' = [newpl EXCEPT ![First(waiting)] = "woken"] /\ slots' = n - 1

Release(p) == WakeNext([pl EXCEPT ![p] = "done"], slots + 1)

(* Mutant of Enter: a free slot is taken although others wait.             *)
EnterOvertaking(p) ==
    /\ pl[p] = "created"
    /\ \A q \in Pipelines : pl[q] = "created" => p <= q
    /\ IF slots > 0
       THEN pl' = [pl EXCEPT ![p] = "handler"] /\ slots' = slots - 1
       ELSE pl' = [pl EXCEPT ![p] = "queued"] /\ UNCHANGED slots
    /\ UNCHANGED <<part, vars>>

(* The task starts: it takes a free slot unless somebody is in the queue.  *)
Enter(p) ==
    /\ pl[p] = "created"
    /\ \A q \in Pipelines : pl[q] = "created" => p <= q
    /\ IF slots > 0 /\ Queue = {}
       THEN pl' = [pl EXCEPT ![p] = "handler"] /\ slots' = slots - 1
       ELSE pl' = [pl EXCEPT ![p] = "queued"] /\ UNCHANGED slots
    /\ UNCHANGED <<part, vars>>

(* Mutant of Resume: the slots that were freed meanwhile stay unused.      *)
ResumeAlone(p) ==
    /\ pl[p] = "woken" /\ p = First(Queue)
    /\ pl' = [pl EXCEPT ![p] = "handler"]
    /\ UNCHANGED <<slots, part, vars>>

(* A woken task runs; it passes on a slot that was freed meanwhile.        *)
Resume(p) ==
    /\ pl[p] = "woken" /\ p = First(Queue)
    /\ WakeNext([pl EXCEPT ![p] = "handler"], slots)
    /\ UNCHANGED <<part, vars>>

-----------------------------------------------------------------------------
(***************************************************************************)
(* The pipeline                                                            *)
(***************************************************************************)

(* receive_envelope with a request id: one task for each envelope.         *)
Spawn(r) ==
    /\ Receipt \in Pipelines
    /\ RecvEnvelope(r)
    /\ pl' = [pl EXCEPT ![Receipt] = "created"]
    /\ UNCHANGED <<slots, part>>

(* The handler returns a body to post.                                     *)
HandlerReturns(p) ==
    /\ pl[p] = "handler"
    /\ pl' = [pl EXCEPT ![p] = "posting"]
    /\ part' = [part EXCEPT ![p] = 1]
    /\ UNCHANGED <<slots, vars>>

(* Mutant of HandlerEnds: the slot is kept.                                *)
HandlerEndsHolding(p) ==
    /\ pl[p] = "handler"
    /\ pl' = [pl EXCEPT ![p] = "done"]
    /\ UNCHANGED <<slots, part, vars>>

(* It raises, sets skip_post, or returns a body that cannot be encoded.    *)
HandlerEnds(p) ==
    /\ pl[p] = "handler"
    /\ Release(p)
    /\ UNCHANGED <<part, vars>>

Call(p) == <<p, part[p]>>

PostSends(p) ==
    /\ pl[p] = "posting"
    /\ CallStart(Call(p)) \/ CallSent(Call(p))
    /\ UNCHANGED handlerVars

(* Mutant of PostNextPart: a part that failed does not end the reply.      *)
PostNextPartAnyway(p) ==
    /\ pl[p] = "posting" /\ part[p] < Parts[p]
    /\ CallResume(Call(p))
    /\ part' = [part EXCEPT ![p] = @ + 1]
    /\ UNCHANGED <<pl, slots>>

(* The answer to a part that is not the last one.                          *)
PostNextPart(p) ==
    /\ pl[p] = "posting" /\ part[p] < Parts[p]
    /\ Outcome(Call(p)) = "returned" /\ CallResume(Call(p))
    /\ part' = [part EXCEPT ![p] = @ + 1]
    /\ UNCHANGED <<pl, slots>>

(* The last answer, or an exception: no further part is sent.              *)
PostEnds(p) ==
    /\ pl[p] = "posting"
    /\ \/ CallRefused(Call(p))
       \/ CallSendFails(Call(p))
       \/ /\ CallResume(Call(p))
          /\ part[p] = Parts[p] \/ Outcome(Call(p)) # "returned"
    /\ Release(p)
    /\ UNCHANGED part

Pipeline(p) ==
    \/ Enter(p) \/ Resume(p) \/ HandlerReturns(p) \/ HandlerEnds(p)
    \/ PostSends(p) \/ PostNextPart(p) \/ PostEnds(p)

-----------------------------------------------------------------------------
(* Mutant of Handled: the reader awaits the pipeline it has started.       *)
HandledAfterPipeline ==
    /\ HandlingDone /\ \A p \in Pipelines : pl[p] \in {"none", "done"}
    /\ UNCHANGED handlerVars

(* receive_envelope returns without waiting for the pipeline.              *)
Handled == HandlingDone /\ UNCHANGED handlerVars

(* What the client does beside its pipelines.                              *)
ClientStep ==
    \/ Connect \/ PeerCloses \/ Close
    \/ \E c \in Calls : RecvResponse(c)
    \/ RecvAckOnly \/ RecvBlankEnvelope \/ ReplySent
    \/ ReplyFails \/ RecvRaises \/ ReaderSeesClose
    \/ \E t \in TimedTasks : TimerFires(t)

HNext ==
    \/ ClientStep /\ UNCHANGED handlerVars
    \/ Handled
    \/ \E r \in Rids : Spawn(r)
    \/ \E p \in Pipelines : Pipeline(p)

HSpec == HInit /\ [][HNext]_allVars

-----------------------------------------------------------------------------
(***************************************************************************)
(* Properties                                                              *)
(***************************************************************************)

(* Every slot is free or held by one pipeline that is inside: at most      *)
(* MaxInflight handlers and posts run, and whichever way a pipeline ends   *)
(* (skip_post, an exception, a call that fails, times out or is cancelled) *)
(* its slot comes back.                                                    *)
SlotsConserved ==
    /\ slots \in Nat
    /\ slots + Cardinality(Holders) = MaxInflight

(* A slot does not lie idle beside the queue: somebody was woken already   *)
(* and will pass it on.                                                    *)
NoIdleSlot == slots > 0 /\ Queued # {} => \E p \in Pipelines : pl[p] = "woken"

(* Handlers start in the order in which the envelopes arrived.             *)
StartedInOrder ==
    \A p, q \in Pipelines :
        p < q /\ pl[q] \in {"handler", "posting", "done"} =>
            pl[p] \in {"handler", "posting", "done"}

(* A reply arrives whole or stops at the part that failed: a part is only  *)
(* sent when all before it were answered, and a pipeline ends with all of  *)
(* them answered or with one that failed.  A pipeline outlives the         *)
(* connection its envelope came from, close() included; when that takes a  *)
(* part with it, the others must not go out over what comes next.          *)
RepliesWhole ==
    \A p \in Pipelines :
        /\ \A k \in 1 .. Parts[p] : pc[<<p, k>>] # "idle" =>
              \A j \in 1 .. k - 1 : pc[<<p, j>>] = "returned"
        /\ pl[p] = "done" /\ part[p] # 0 =>
              \/ \A k \in 1 .. Parts[p] : pc[<<p, k>>] = "returned"
              \/ \E k \in 1 .. Parts[p] : pc[<<p, k>>] \in Finished \ {"returned"}

=============================================================================
