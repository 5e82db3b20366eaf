------------------------ MODULE HandlerClientProofs ------------------------
(***************************************************************************)
(* Proofs about HandlerClient for every number of slots and pipelines and  *)
(* every number of parts: the client is an RpcClient, its slots are        *)
(* conserved, none lies idle, handlers start in the order of arrival, and  *)
(* no part of a reply follows one that failed.                             *)
(* At the end the same for the commands of ServeLoop, which run such a     *)
(* client, that they release their session, and that they end.             *)
(***************************************************************************)
EXTENDS ServeLoop, RpcClientProofs

States == {"none", "created", "queued", "woken", "handler", "posting", "done"}

HTypes ==
    /\ pl \in [Pipelines -> States]
    /\ slots \in Nat
    /\ part \in [Pipelines -> Nat]
    /\ log \in Seq(Rids)

(* A pipeline that posts has a part to post.                               *)
PartInRange == \A p \in Pipelines : pl[p] = "posting" => part[p] \in 1 .. Parts[p]

(* There are finitely many pipelines, numbered from 1.                     *)
LEMMA PipelinesFinite ==
    /\ Pipelines \subseteq Nat \ {0} /\ IsFiniteSet(Pipelines)
    /\ Parts \in [Pipelines -> Nat \ {0}]
<1>1. Len(Parts) \in Nat /\ Pipelines = 1 .. Len(Parts)
    BY PartsAssumption, LenProperties DEF Pipelines
<1>2. IsFiniteSet(1 .. Len(Parts))
    BY <1>1, FS_Interval
<1>3. Parts \in [1 .. Len(Parts) -> Nat \ {0}]
    BY PartsAssumption
<1> QED
    BY <1>1, <1>2, <1>3

(* First finds the least element.                                          *)
LEMMA FirstInSet ==
    ASSUME NEW S, S \subseteq Nat, S # {}
    PROVE  First(S) \in S /\ \A q \in S : First(S) <= q
<1> DEFINE R == OpToRel(<, Nat)
<1>1. IsWellFoundedOn(R, Nat)
    BY NatLessThanWellFounded
<1>2. PICK x \in S : \A y \in S : ~(<<y, x>> \in R)
    BY <1>1, WFMin
<1>3. \A y \in S : <<y, x>> \in R <=> y < x
    BY DEF OpToRel
<1> HIDE DEF R
<1>4. \A y \in S : ~(y < x)
    BY <1>2, <1>3
<1>5. \A y \in S : x <= y
    BY <1>4
<1> QED
    BY <1>5 DEF First

(* What waking the next waiter does.                                       *)
LEMMA WakeNextEffect ==
    ASSUME NEW f \in [Pipelines -> States], NEW n \in Nat, WakeNext(f, n)
    PROVE  \/ /\ pl' = f /\ slots' = n
              /\ n = 0 \/ \A q \in Pipelines : f[q] # "queued"
           \/ \E q \in Pipelines :
                 /\ f[q] = "queued" /\ n > 0
                 /\ \A r \in Pipelines : f[r] = "queued" => q <= r
                 /\ pl' = [f EXCEPT ![q] = "woken"] /\ slots' = n - 1
<1> DEFINE waiting == {q \in Pipelines : f[q] = "queued"}
<1>1. CASE waiting = {} \/ n = 0
    BY <1>1 DEF WakeNext
<1>2. CASE ~(waiting = {} \/ n = 0)
  <2>1. pl' = [f EXCEPT ![First(waiting)] = "woken"] /\ slots' = n - 1
      BY <1>2 DEF WakeNext
  <2>2. waiting \subseteq Nat /\ waiting # {}
      BY <1>2, PipelinesFinite
  <2>3. First(waiting) \in waiting /\ \A q \in waiting : First(waiting) <= q
      BY <2>2, FirstInSet
  <2> DEFINE q == First(waiting)
  <2>4. /\ q \in Pipelines /\ f[q] = "queued" /\ n > 0
        /\ \A r \in Pipelines : f[r] = "queued" => q <= r
      BY <1>2, <2>3
  <2>5. pl' = [f EXCEPT ![q] = "woken"] /\ slots' = n - 1
      BY <2>1
  <2> HIDE DEF q
  <2> QED
      BY <2>4, <2>5
<1> QED
    BY <1>1, <1>2

-----------------------------------------------------------------------------
(***************************************************************************)
(* Types, and the call each pipeline makes                                 *)
(***************************************************************************)

(* The steps of RpcClient outside the handler leave types alone.           *)
LEMMA ClientStepIsNext == ClientStep => Next
    BY DEF ClientStep, Next, Reader

(* A pipeline that posts makes one of the client's calls.                  *)
LEMMA CallIsCall ==
    ASSUME PartInRange, HTypes, NEW p \in Pipelines, pl[p] = "posting"
    PROVE  Call(p) \in Calls
    BY CallsAssumption DEF PartInRange, Call

(* Every step of the handler client is a step of the client, or none.      *)
LEMMA HNextIsNext ==
    ASSUME HTypes, PartInRange, [HNext]_allVars
    PROVE  [Next]_vars
<1>1. CASE ClientStep
    BY <1>1, ClientStepIsNext
<1>2. CASE Handled
    BY <1>2 DEF Handled, Next, Reader
<1>3. CASE \E r \in Rids : Spawn(r)
    BY <1>3 DEF Spawn, Next, Reader
<1>4. ASSUME NEW p \in Pipelines, Pipeline(p)
      PROVE  [Next]_vars
  <2>1. CASE Enter(p) \/ Resume(p) \/ HandlerReturns(p) \/ HandlerEnds(p)
      BY <2>1 DEF Enter, Resume, HandlerReturns, HandlerEnds
  <2>2. CASE PostSends(p) \/ PostNextPart(p) \/ PostEnds(p)
    <3>1. Call(p) \in Calls
        BY <2>2, CallIsCall DEF PostSends, PostNextPart, PostEnds
    <3>2. CallStep(Call(p))
        BY <2>2 DEF PostSends, PostNextPart, PostEnds, CallStep
    <3> QED
        BY <3>1, <3>2 DEF Next
  <2> QED
      BY <1>4, <2>1, <2>2 DEF Pipeline
<1>5. CASE UNCHANGED allVars
    BY <1>5 DEF allVars
<1> QED
    BY <1>1, <1>2, <1>3, <1>4, <1>5 DEF HNext

(* Only an envelope that starts a pipeline is published.                   *)
LEMMA LogFrame ==
    ASSUME ClientStep \/ Handled \/ \E p \in Pipelines : Pipeline(p)
    PROVE  log' = log
<1>1. CASE Quiet
    BY <1>1, QuietFrame DEF relayVars
<1>2. CASE Cleaning
    BY <1>2, CleaningCleans DEF Cleanup
<1>3. CASE \E c \in Calls : RecvResponse(c)
    BY <1>3 DEF RecvResponse, relayVars
<1>4. CASE \E t \in TimedTasks : TimerFires(t)
    BY <1>4 DEF TimerFires, relayVars
<1>5. CASE ClientStep
    BY <1>1, <1>2, <1>3, <1>4, <1>5 DEF ClientStep, Close, Quiet, Cleaning
<1>6. CASE Handled
    BY <1>6 DEF Handled, HandlingDone, relayVars
<1>7. CASE \E p \in Pipelines : Pipeline(p)
    BY <1>7 DEF Pipeline, Enter, Resume, HandlerReturns, HandlerEnds, PostSends, PostNextPart,
                PostEnds, CallRefused, CallStart, CallSent, CallSendFails, CallResume, vars,
                relayVars
<1> QED
    BY <1>5, <1>6, <1>7

-----------------------------------------------------------------------------
(***************************************************************************)
(* The invariant                                                           *)
(***************************************************************************)
Started == {"handler", "posting", "done"}

(* Arrival, queueing and start keep one order; woken waiters come first.   *)
Ordered(f) ==
    \A p, q \in Pipelines : p < q =>
        /\ f[q] \in Started => f[p] \in Started
        /\ f[q] \in Started \cup {"queued", "woken"} => f[p] \notin {"none", "created"}
        /\ f[q] = "woken" => f[p] # "queued"

Count(f) == Cardinality({p \in Pipelines : f[p] \in Holding})

(* The pipelines that exist are those of the published envelopes.          *)
Arrived == \A p \in Pipelines : pl[p] = "none" <=> p > Len(log)

HInv ==
    /\ HTypes /\ PartInRange /\ Arrived
    /\ slots + Count(pl) = MaxInflight
    /\ Ordered(pl)
    /\ NoIdleSlot

(* The count is a number, and one pipeline changes it by at most one.      *)
LEMMA CountExcept ==
    ASSUME NEW f \in [Pipelines -> States], NEW q \in Pipelines, NEW s \in States
    PROVE  LET g == [f EXCEPT ![q] = s]
           IN  /\ Count(f) \in Nat /\ Count(g) \in Nat
               /\ (s \in Holding <=> f[q] \in Holding) => Count(g) = Count(f)
               /\ s \in Holding /\ f[q] \notin Holding => Count(g) = Count(f) + 1
               /\ s \notin Holding /\ f[q] \in Holding => Count(g) = Count(f) - 1
<1> DEFINE g == [f EXCEPT ![q] = s]
           F == {p \in Pipelines : f[p] \in Holding}
           G == {p \in Pipelines : g[p] \in Holding}
<1>1. IsFiniteSet(F) /\ IsFiniteSet(G)
    BY PipelinesFinite, FS_Subset
<1>2. Cardinality(F) \in Nat /\ Cardinality(G) \in Nat
    BY <1>1, FS_CardinalityType
<1>3. CASE s \in Holding <=> f[q] \in Holding
  <2>1. G = F
      BY <1>3
  <2> QED
      BY <1>2, <1>3, <2>1 DEF Count
<1>4. CASE s \in Holding /\ f[q] \notin Holding
  <2>1. G = F \cup {q} /\ q \notin F
      BY <1>4
  <2>2. Cardinality(G) = Cardinality(F) + 1
      BY <1>1, <2>1, FS_AddElement
  <2> QED
      BY <1>2, <1>4, <2>2 DEF Count
<1>5. CASE s \notin Holding /\ f[q] \in Holding
  <2>1. G = F \ {q} /\ q \in F
      BY <1>5
  <2>2. Cardinality(G) = Cardinality(F) - 1
      BY <1>1, <2>1, FS_RemoveElement
  <2> QED
      BY <1>2, <1>5, <2>2 DEF Count
<1> QED
    BY <1>3, <1>4, <1>5

(* Handing a slot on conserves slots, keeps the order and leaves no slot   *)
(* idle.                                                                   *)
LEMMA WakeNextKeeps ==
    ASSUME NEW f \in [Pipelines -> States], NEW n \in Nat, WakeNext(f, n),
           n + Count(f) = MaxInflight, Ordered(f)
    PROVE  /\ pl' \in [Pipelines -> States] /\ slots' \in Nat
           /\ slots' + Count(pl') = MaxInflight
           /\ Ordered(pl')
           /\ NoIdleSlot'
           /\ \A p \in Pipelines : /\ pl'[p] = "posting" => f[p] = "posting"
                                   /\ pl'[p] = "none" <=> f[p] = "none"
<1>1. CASE /\ pl' = f /\ slots' = n
           /\ n = 0 \/ \A q \in Pipelines : f[q] # "queued"
    BY <1>1 DEF NoIdleSlot, Queued, Pipelines
<1>2. ASSUME NEW q \in Pipelines,
             f[q] = "queued", n > 0,
             \A r \in Pipelines : f[r] = "queued" => q <= r,
             pl' = [f EXCEPT ![q] = "woken"], slots' = n - 1
      PROVE  /\ pl' \in [Pipelines -> States] /\ slots' \in Nat
             /\ slots' + Count(pl') = MaxInflight
             /\ Ordered(pl')
             /\ NoIdleSlot'
             /\ \A p \in Pipelines : /\ pl'[p] = "posting" => f[p] = "posting"
                                     /\ pl'[p] = "none" <=> f[p] = "none"
  <2>1. pl' \in [Pipelines -> States] /\ slots' \in Nat /\ pl'[q] = "woken"
      BY <1>2 DEF States
  <2>2. "woken" \in States /\ "woken" \in Holding /\ f[q] \notin Holding
      BY <1>2 DEF States, Holding
  <2>3. Count(pl') = Count(f) + 1 /\ Count(f) \in Nat
      BY <1>2, <2>2, CountExcept
  <2>4. slots' + Count(pl') = MaxInflight
      BY <1>2, <2>3
  <2>5. Ordered(pl')
      BY <1>2, PipelinesFinite DEF Ordered, Started
  <2>6. NoIdleSlot'
      BY <2>1 DEF NoIdleSlot, Pipelines
  <2> QED
      BY <1>2, <2>1, <2>4, <2>5, <2>6
<1> QED
    BY <1>1, <1>2, WakeNextEffect

(* Initially nothing has arrived and every slot is free.                   *)
LEMMA InitHInv == HInit => HInv
<1> SUFFICES ASSUME HInit PROVE HInv
    OBVIOUS
<1>1. HTypes /\ PartInRange
    BY InflightAssumption DEF HInit, Init, HTypes, States, PartInRange
<1>2. Len(log) = 0
    BY DEF HInit, Init
<1>3. Arrived
    BY <1>2, PipelinesFinite DEF HInit, Arrived
<1>4. {p \in Pipelines : pl[p] \in Holding} = {}
    BY DEF HInit, Holding
<1>5. slots + Count(pl) = MaxInflight
    BY <1>4, FS_EmptySet, InflightAssumption DEF HInit, Count
<1>6. Ordered(pl) /\ NoIdleSlot
    BY DEF HInit, Ordered, Started, NoIdleSlot, Queued
<1> QED
    BY <1>1, <1>3, <1>5, <1>6 DEF HInv

(* A new pipeline is the last in the order.                                *)
LEMMA SpawnHInv ==
    ASSUME HInv, NEW r \in Rids, Spawn(r)
    PROVE  HInv'
<1>1. /\ Receipt \in Pipelines /\ log' = Append(log, r) /\ UNCHANGED <<slots, part>>
      /\ pl' = [pl EXCEPT ![Receipt] = "created"]
    BY DEF Spawn, RecvEnvelope, RelayPublish
<1>2. /\ log \in Seq(Rids) /\ Len(log) \in Nat /\ log' \in Seq(Rids)
      /\ Receipt = Len(log) + 1 /\ Len(log') = Len(log) + 1
    BY <1>1, LenProperties, AppendProperties DEF HInv, HTypes, Receipt
<1>3. pl[Receipt] = "none" /\ "created" \in States
    BY <1>1, <1>2 DEF HInv, Arrived, States
<1>4. HTypes' /\ PartInRange'
    BY <1>1, <1>2, <1>3 DEF HInv, HTypes, PartInRange, Pipelines
<1>5. Arrived'
    BY <1>1, <1>2, PipelinesFinite DEF HInv, HTypes, Arrived, Pipelines
<1>6. Count(pl') = Count(pl)
    BY <1>1, <1>3, CountExcept DEF HInv, HTypes, Holding
<1>7. Ordered(pl')
    BY <1>1, <1>2, <1>3, PipelinesFinite DEF HInv, HTypes, Arrived, Ordered, Started
<1>8. NoIdleSlot'
    BY <1>1, <1>3 DEF HInv, HTypes, NoIdleSlot, Queued, Pipelines
<1> QED
    BY <1>1, <1>4, <1>5, <1>6, <1>7, <1>8 DEF HInv, Count, Pipelines

(* A task that starts: it takes a slot, or becomes the last in the queue.  *)
LEMMA EnterHInv ==
    ASSUME HInv, NEW p \in Pipelines, Enter(p), log' = log
    PROVE  HInv'
<1>0. /\ pl[p] = "created" /\ part' = part
      /\ \A q \in Pipelines : pl[q] = "created" => p <= q
    BY DEF Enter
<1>1. \A q \in Pipelines : q < p => pl[q] \notin {"none", "created"}
    BY <1>0, PipelinesFinite, LenProperties DEF HInv, HTypes, Arrived
<1>2. \A q \in Pipelines : p < q => pl[q] \notin Started \cup {"queued", "woken"}
    BY <1>0 DEF HInv, Ordered
<1>3. CASE slots > 0 /\ Queue = {}
  <2>1. pl' = [pl EXCEPT ![p] = "handler"] /\ slots' = slots - 1
      BY <1>3 DEF Enter
  <2>2. "handler" \in States /\ "handler" \in Holding /\ pl[p] \notin Holding
      BY <1>0 DEF States, Holding
  <2>3. HTypes' /\ PartInRange' /\ Arrived'
      BY <1>0, <1>3, <2>1, <2>2 DEF HInv, HTypes, PartInRange, Arrived, Pipelines
  <2>4. Count(pl') = Count(pl) + 1 /\ Count(pl) \in Nat
      BY <2>1, <2>2, CountExcept DEF HInv, HTypes
  <2>5. slots' + Count(pl') = MaxInflight
      BY <2>1, <2>4 DEF HInv, HTypes
  <2>6. \A q \in Pipelines : q < p => pl[q] \in Started
      BY <1>1, <1>3 DEF HInv, HTypes, States, Started, Queue
  <2>7. Ordered(pl')
      BY <1>2, <2>1, <2>6, PipelinesFinite DEF HInv, HTypes, Ordered, Started
  <2>8. NoIdleSlot'
      BY <1>3, <2>1 DEF HInv, HTypes, NoIdleSlot, Queue, Queued, Pipelines
  <2> QED
      BY <2>3, <2>5, <2>7, <2>8 DEF HInv, Count, Pipelines
<1>4. CASE ~(slots > 0 /\ Queue = {})
  <2>1. pl' = [pl EXCEPT ![p] = "queued"] /\ slots' = slots
      BY <1>4 DEF Enter
  <2>2. "queued" \in States /\ "queued" \notin Holding /\ pl[p] \notin Holding
      BY <1>0 DEF States, Holding
  <2>3. HTypes' /\ PartInRange' /\ Arrived'
      BY <1>0, <2>1, <2>2 DEF HInv, HTypes, PartInRange, Arrived, Pipelines
  <2>4. Count(pl') = Count(pl)
      BY <2>1, <2>2, CountExcept DEF HInv, HTypes
  <2>5. Ordered(pl')
      BY <1>1, <1>2, <2>1, PipelinesFinite DEF HInv, HTypes, Ordered, Started
  <2>6. NoIdleSlot'
    <3>1. CASE slots = 0
        BY <2>1, <3>1 DEF NoIdleSlot, Pipelines
    <3>2. CASE slots > 0
      <4>1. PICK q \in Pipelines : pl[q] = "woken"
          BY <1>4, <3>2 DEF HInv, NoIdleSlot, Queue, Queued
      <4> QED
          BY <1>0, <2>1, <4>1 DEF HInv, HTypes, NoIdleSlot, Pipelines
    <3> QED
        BY <3>1, <3>2 DEF HInv, HTypes
  <2> QED
      BY <2>1, <2>3, <2>4, <2>5, <2>6 DEF HInv, Count, Pipelines
<1> QED
    BY <1>3, <1>4

(* A woken task that runs is the first of the queue.                       *)
LEMMA ResumeHInv ==
    ASSUME HInv, NEW p \in Pipelines, Resume(p), log' = log
    PROVE  HInv'
<1> DEFINE f == [pl EXCEPT ![p] = "handler"]
<1>1. pl[p] = "woken" /\ p = First(Queue) /\ part' = part /\ WakeNext(f, slots)
    BY DEF Resume
<1>2. f \in [Pipelines -> States] /\ "handler" \in States /\ f[p] = "handler"
    BY DEF HInv, HTypes, States
<1>3. Count(f) = Count(pl)
    BY <1>1, <1>2, CountExcept DEF HInv, HTypes, Holding
<1>4. \A q \in Queue : p <= q
  <2>1. Queue \subseteq Nat /\ Queue # {}
      BY <1>1, PipelinesFinite DEF Queue
  <2> QED
      BY <1>1, <2>1, FirstInSet
<1>5. \A q \in Pipelines : q < p => pl[q] \in Started
  <2>1. \A q \in Pipelines : q < p => pl[q] \notin {"none", "created"} /\ q \notin Queue
      BY <1>1, <1>4, PipelinesFinite DEF HInv, Ordered
  <2> QED
      BY <2>1 DEF HInv, HTypes, States, Started, Queue
<1>6. Ordered(f)
    BY <1>1, <1>5, PipelinesFinite DEF HInv, HTypes, Ordered, Started
<1>7. /\ pl' \in [Pipelines -> States] /\ slots' \in Nat
      /\ slots' + Count(pl') = MaxInflight
      /\ Ordered(pl') /\ NoIdleSlot'
      /\ \A q \in Pipelines : /\ pl'[q] = "posting" => f[q] = "posting"
                              /\ pl'[q] = "none" <=> f[q] = "none"
  <2>1. slots \in Nat /\ slots + Count(f) = MaxInflight
      BY <1>3 DEF HInv, HTypes
  <2> HIDE DEF f
  <2> QED
      BY <1>1, <1>2, <1>6, <2>1, WakeNextKeeps
<1>8. HTypes' /\ PartInRange' /\ Arrived'
  <2>0. \A q \in Pipelines : /\ f[q] = "posting" => pl[q] = "posting"
                             /\ f[q] = "none" <=> pl[q] = "none"
      BY <1>1 DEF HInv, HTypes
  <2>1. \A q \in Pipelines : /\ pl'[q] = "posting" => pl[q] = "posting"
                             /\ pl'[q] = "none" <=> pl[q] = "none"
    <3> HIDE DEF f
    <3> QED
        BY <1>7, <2>0
  <2>2. HTypes'
      BY <1>1, <1>7 DEF HInv, HTypes, Pipelines
  <2>3. PartInRange' /\ Arrived'
      BY <1>1, <2>1 DEF HInv, PartInRange, Arrived, Pipelines
  <2> QED
      BY <2>2, <2>3
<1> QED
    BY <1>7, <1>8 DEF HInv, Count, Pipelines

(* A pipeline that ends gives its slot back or hands it on.                *)
LEMMA ReleaseHInv ==
    ASSUME HInv, NEW p \in Pipelines, pl[p] \in {"handler", "posting"}, Release(p),
           part' = part, log' = log
    PROVE  HInv'
<1> DEFINE f == [pl EXCEPT ![p] = "done"]
<1>1. WakeNext(f, slots + 1)
    BY DEF Release
<1>2. /\ f \in [Pipelines -> States] /\ "done" \in States
      /\ pl[p] \in Holding /\ "done" \notin Holding
    BY DEF HInv, HTypes, States, Holding
<1>3. Count(f) = Count(pl) - 1 /\ Count(pl) \in Nat /\ Count(f) \in Nat
    BY <1>2, CountExcept DEF HInv, HTypes
<1>4. Ordered(f)
    BY DEF HInv, HTypes, Ordered, Started
<1>5. /\ pl' \in [Pipelines -> States] /\ slots' \in Nat
      /\ slots' + Count(pl') = MaxInflight
      /\ Ordered(pl') /\ NoIdleSlot'
      /\ \A q \in Pipelines : /\ pl'[q] = "posting" => f[q] = "posting"
                              /\ pl'[q] = "none" <=> f[q] = "none"
  <2>1. slots + 1 \in Nat /\ (slots + 1) + Count(f) = MaxInflight
      BY <1>3 DEF HInv, HTypes
  <2> HIDE DEF f
  <2> QED
      BY <1>1, <1>2, <1>4, <2>1, WakeNextKeeps
<1>6. HTypes' /\ PartInRange' /\ Arrived'
  <2>0. \A q \in Pipelines : /\ f[q] = "posting" => pl[q] = "posting"
                             /\ f[q] = "none" <=> pl[q] = "none"
      BY DEF HInv, HTypes
  <2>1. \A q \in Pipelines : /\ pl'[q] = "posting" => pl[q] = "posting"
                             /\ pl'[q] = "none" <=> pl[q] = "none"
    <3> HIDE DEF f
    <3> QED
        BY <1>5, <2>0
  <2>2. HTypes'
      BY <1>5 DEF HInv, HTypes, Pipelines
  <2>3. PartInRange' /\ Arrived'
      BY <2>1 DEF HInv, PartInRange, Arrived, Pipelines
  <2> QED
      BY <2>2, <2>3
<1> QED
    BY <1>5, <1>6 DEF HInv, Count, Pipelines

(* The handler has returned: the pipeline posts its first part.            *)
LEMMA PostingHInv ==
    ASSUME HInv, NEW p \in Pipelines, log' = log, slots' = slots,
           \/ /\ pl[p] = "handler" /\ pl' = [pl EXCEPT ![p] = "posting"]
              /\ part' = [part EXCEPT ![p] = 1]
           \/ /\ pl[p] = "posting" /\ part[p] < Parts[p] /\ pl' = pl
              /\ part' = [part EXCEPT ![p] = @ + 1]
    PROVE  HInv'
<1>1. CASE /\ pl[p] = "handler" /\ pl' = [pl EXCEPT ![p] = "posting"]
           /\ part' = [part EXCEPT ![p] = 1]
  <2>1. "posting" \in States /\ "posting" \in Holding /\ pl[p] \in Holding
      BY <1>1 DEF States, Holding
  <2>2. HTypes' /\ Arrived'
      BY <1>1, <2>1 DEF HInv, HTypes, Arrived, Pipelines
  <2>3. PartInRange'
      BY <1>1, PipelinesFinite DEF HInv, HTypes, PartInRange, Pipelines
  <2>4. Count(pl') = Count(pl)
      BY <1>1, <2>1, CountExcept DEF HInv, HTypes
  <2>5. Ordered(pl')
      BY <1>1 DEF HInv, HTypes, Ordered, Started
  <2>6. NoIdleSlot'
      BY <1>1 DEF HInv, HTypes, NoIdleSlot, Queued, Pipelines
  <2> QED
      BY <2>2, <2>3, <2>4, <2>5, <2>6 DEF HInv, Count, Pipelines
<1>2. CASE /\ pl[p] = "posting" /\ part[p] < Parts[p] /\ pl' = pl
           /\ part' = [part EXCEPT ![p] = @ + 1]
  <2>1. HTypes' /\ Arrived'
      BY <1>2 DEF HInv, HTypes, Arrived, Pipelines
  <2>2. PartInRange'
      BY <1>2, PipelinesFinite DEF HInv, HTypes, PartInRange, Pipelines
  <2>3. NoIdleSlot' /\ Ordered(pl')
      BY <1>2 DEF HInv, NoIdleSlot, Queued, Pipelines
  <2> QED
      BY <1>2, <2>1, <2>2, <2>3 DEF HInv, Count, Pipelines
<1> QED
    BY <1>1, <1>2

(* Every step of the handler client keeps the invariant.                   *)
LEMMA NextHInv ==
    ASSUME HInv, [HNext]_allVars
    PROVE  HInv'
<1>1. ASSUME UNCHANGED <<handlerVars, log>>
      PROVE  HInv'
    BY <1>1 DEF HInv, handlerVars, HTypes, PartInRange, Arrived, Count, Ordered, NoIdleSlot,
                Queued, Pipelines
<1>2. CASE ClientStep /\ UNCHANGED handlerVars
    BY <1>1, <1>2, LogFrame
<1>3. CASE Handled
    BY <1>1, <1>3, LogFrame DEF Handled
<1>4. CASE \E r \in Rids : Spawn(r)
    BY <1>4, SpawnHInv
<1>5. ASSUME NEW p \in Pipelines, Pipeline(p)
      PROVE  HInv'
  <2>1. log' = log
      BY <1>5, LogFrame
  <2>2. CASE Enter(p)
      BY <2>1, <2>2, EnterHInv
  <2>3. CASE Resume(p)
      BY <2>1, <2>3, ResumeHInv
  <2>4. CASE HandlerReturns(p)
      BY <2>1, <2>4, PostingHInv DEF HandlerReturns
  <2>5. CASE PostNextPart(p)
      BY <2>1, <2>5, PostingHInv DEF PostNextPart
  <2>6. CASE HandlerEnds(p)
      BY <2>1, <2>6, ReleaseHInv DEF HandlerEnds
  <2>7. CASE PostEnds(p)
      BY <2>1, <2>7, ReleaseHInv DEF PostEnds
  <2>8. CASE PostSends(p)
      BY <1>1, <2>1, <2>8 DEF PostSends
  <2> QED
      BY <1>5, <2>2, <2>3, <2>4, <2>5, <2>6, <2>7, <2>8 DEF Pipeline
<1>6. CASE UNCHANGED allVars
    BY <1>1, <1>6 DEF allVars, vars, relayVars
<1> QED
    BY <1>2, <1>3, <1>4, <1>5, <1>6 DEF HNext

(* The invariant holds always.                                             *)
LEMMA HInvAlways == HSpec => []HInv
    BY InitHInv, NextHInv, PTL DEF HSpec

-----------------------------------------------------------------------------
(***************************************************************************)
(* Theorems                                                                *)
(***************************************************************************)

(* SlotsConserved: no path through a pipeline (handler_client.py, 145-176) *)
(* loses a slot or takes two, for every max_inflight.                      *)
THEOREM SlotsAreConserved == HSpec => []SlotsConserved
<1>1. HInv => SlotsConserved
    BY DEF HInv, HTypes, SlotsConserved, Count, Holders
<1> QED
    BY <1>1, HInvAlways, PTL

(* NoIdleSlot: a free slot beside a queue has been promised already.       *)
THEOREM SlotsAreNeverIdle == HSpec => []NoIdleSlot
<1>1. HInv => NoIdleSlot
    BY DEF HInv
<1> QED
    BY <1>1, HInvAlways, PTL

(* StartedInOrder: handlers start in the order their envelopes arrived.    *)
THEOREM HandlersStartInOrder == HSpec => []StartedInOrder
<1>1. HInv => StartedInOrder
    BY DEF HInv, Ordered, Started, StartedInOrder
<1> QED
    BY <1>1, HInvAlways, PTL

(* HandlerPostMessageClient does nothing to the client that RpcClient does *)
(* not allow, so that what holds for every RpcClient holds for it.         *)
LEMMA HandlerIsRpcClient == HSpec => Spec
<1>1. HInit => Init
    BY DEF HInit
<1>2. HInv /\ [HNext]_allVars => [Next]_vars
    BY HNextIsNext DEF HInv
<1> QED
    BY <1>1, <1>2, HInvAlways, PTL DEF HSpec, Spec

(* So the posts of pipelines are never left asleep, whatever the           *)
(* connection does (NoLostWakeup for the handler client).                  *)
THEOREM PostsAreWoken == HSpec => []NoLostWakeup
    BY HandlerIsRpcClient, WakeupsAreNeverLost, PTL

-----------------------------------------------------------------------------
(***************************************************************************)
(* Replies of several parts                                                *)
(***************************************************************************)
Early == {"none", "created", "queued", "woken", "handler"}

(* The parts before m were answered, those after it were not sent.         *)
UpTo(p, m) ==
    /\ \A k \in 1 .. Parts[p] : k < m => pc[<<p, k>>] = "returned"
    /\ \A k \in 1 .. Parts[p] : k > m => pc[<<p, k>>] = "idle"

Unsent(p) == \A k \in 1 .. Parts[p] : pc[<<p, k>>] = "idle"

(* How far the reply of a pipeline has come.                               *)
Progress(p) ==
    /\ pl[p] \in Early => part[p] = 0 /\ Unsent(p)
    /\ pl[p] = "posting" => UpTo(p, part[p]) /\ pc[<<p, part[p]>>] \in {"idle", "sending", "waiting"}
    /\ pl[p] = "done" =>
          \/ part[p] = 0 /\ Unsent(p)
          \/ \A k \in 1 .. Parts[p] : pc[<<p, k>>] = "returned"
          \/ \E m \in 1 .. Parts[p] : UpTo(p, m) /\ pc[<<p, m>>] \in Finished \ {"returned"}

AllProgress == \A p \in Pipelines : Progress(p)

(* That is what RepliesWhole asks for.                                     *)
LEMMA ProgressIsWhole == HInv /\ AllProgress => RepliesWhole
<1> SUFFICES ASSUME HInv, AllProgress, NEW p \in Pipelines
             PROVE  /\ \A k \in 1 .. Parts[p] : pc[<<p, k>>] # "idle" =>
                          \A j \in 1 .. k - 1 : pc[<<p, j>>] = "returned"
                    /\ pl[p] = "done" /\ part[p] # 0 =>
                          \/ \A k \in 1 .. Parts[p] : pc[<<p, k>>] = "returned"
                          \/ \E k \in 1 .. Parts[p] : pc[<<p, k>>] \in Finished \ {"returned"}
    BY DEF RepliesWhole
<1>1. Progress(p) /\ Parts[p] \in Nat /\ part[p] \in Nat /\ pl[p] \in States
    BY PipelinesFinite DEF AllProgress, HInv, HTypes
<1>2. ASSUME NEW m \in Nat, UpTo(p, m), NEW k \in 1 .. Parts[p], pc[<<p, k>>] # "idle",
             NEW j \in 1 .. k - 1
      PROVE  pc[<<p, j>>] = "returned"
  <2>1. k <= m /\ j < m /\ j \in 1 .. Parts[p]
      BY <1>1, <1>2 DEF UpTo
  <2> QED
      BY <1>2, <2>1 DEF UpTo
<1>3. CASE pl[p] \in Early
    BY <1>1, <1>3 DEF Progress, Unsent, Early
<1>4. CASE pl[p] = "posting"
    BY <1>1, <1>2, <1>4 DEF Progress
<1>5. CASE pl[p] = "done"
  <2>1. CASE part[p] = 0 /\ Unsent(p)
      BY <2>1 DEF Unsent
  <2>2. CASE \A k \in 1 .. Parts[p] : pc[<<p, k>>] = "returned"
      BY <1>1, <2>2
  <2>3. ASSUME NEW m \in 1 .. Parts[p], UpTo(p, m), pc[<<p, m>>] \in Finished \ {"returned"}
        PROVE  /\ \A k \in 1 .. Parts[p] : pc[<<p, k>>] # "idle" =>
                     \A j \in 1 .. k - 1 : pc[<<p, j>>] = "returned"
               /\ \E k \in 1 .. Parts[p] : pc[<<p, k>>] \in Finished \ {"returned"}
      BY <1>1, <1>2, <2>3
  <2> QED
      BY <1>1, <1>5, <2>1, <2>2, <2>3 DEF Progress
<1> QED
    BY <1>1, <1>3, <1>4, <1>5 DEF States, Early

(* A step that does not touch the calls of a pipeline keeps its progress,  *)
(* also when it lets the pipeline go on towards its handler.               *)
LEMMA ProgressFrame ==
    ASSUME NEW p \in Pipelines, Progress(p), part'[p] = part[p],
           pl'[p] = pl[p] \/ (pl[p] \in Early /\ pl'[p] \in Early),
           \A k \in 1 .. Parts[p] : pc'[<<p, k>>] = pc[<<p, k>>],
           pl[p] = "posting" => part[p] \in 1 .. Parts[p]
    PROVE  Progress(p)'
<1>1. Unsent(p) => Unsent(p)'
    BY DEF Unsent
<1>2. \A m : UpTo(p, m) => UpTo(p, m)'
    BY DEF UpTo
<1>3. CASE pl[p] \in Early
    BY <1>1, <1>3 DEF Progress, Early
<1>4. CASE pl[p] = "posting" /\ pl'[p] = "posting"
    BY <1>2, <1>4 DEF Progress, Early
<1>5. CASE pl[p] = "done" /\ pl'[p] = "done"
  <2>1. \A m \in 1 .. Parts[p] : UpTo(p, m) /\ pc[<<p, m>>] \in Finished \ {"returned"}
            => UpTo(p, m)' /\ pc'[<<p, m>>] \in Finished \ {"returned"}
      BY <1>2
  <2> QED
      BY <1>1, <1>5, <2>1 DEF Progress, Early
<1> QED
    BY <1>3, <1>4, <1>5 DEF Progress, Early

(* Beside its pipelines the client starts and ends no call.                *)
LEMMA CallsFrame ==
    ASSUME ClientStep \/ Handled \/ \E r \in Rids : Spawn(r)
    PROVE  pc' = pc
<1>1. CASE Quiet
    BY <1>1, QuietFrame DEF taskVars
<1>2. CASE Cleaning
    BY <1>2, CleaningCleans DEF Cleanup
<1>3. CASE \E c \in Calls : RecvResponse(c)
    BY <1>3 DEF RecvResponse
<1>4. CASE \E t \in TimedTasks : TimerFires(t)
    BY <1>4 DEF TimerFires
<1>5. CASE ClientStep
    BY <1>1, <1>2, <1>3, <1>4, <1>5 DEF ClientStep, Close, Quiet, Cleaning
<1>6. CASE Handled
    BY <1>6 DEF Handled, HandlingDone, taskVars
<1>7. CASE \E r \in Rids : Spawn(r)
    BY <1>7 DEF Spawn, RecvEnvelope
<1> QED
    BY <1>5, <1>6, <1>7

CallTypes == pc \in [Tasks -> Finished \cup {"idle", "sending", "waiting"}]

(* A pipeline that posts touches one call, the one of its part.            *)
LEMMA PostingMovesOne ==
    ASSUME NEW p \in Pipelines, PostSends(p) \/ PostNextPart(p) \/ PostEnds(p)
    PROVE  \E v : pc' = [pc EXCEPT ![Call(p)] = v]
<1>1. CallStart(Call(p)) => pc' = [pc EXCEPT ![Call(p)] = "sending"]
    BY DEF CallStart
<1>2. CallSent(Call(p)) => pc' = [pc EXCEPT ![Call(p)] = "waiting"]
    BY DEF CallSent
<1>3. CallRefused(Call(p)) => pc' = [pc EXCEPT ![Call(p)] = "failed"]
    BY DEF CallRefused
<1>4. CallSendFails(Call(p)) => pc' = [pc EXCEPT ![Call(p)] = "failed"]
    BY DEF CallSendFails
<1>5. CallResume(Call(p)) => pc' = [pc EXCEPT ![Call(p)] = Outcome(Call(p))]
    BY DEF CallResume
<1> QED
    BY <1>1, <1>2, <1>3, <1>4, <1>5 DEF PostSends, PostNextPart, PostEnds

(* What a pipeline's step does to the others: at most it wakes one.        *)
LEMMA OthersProgress ==
    ASSUME HInv, AllProgress, CallTypes, NEW p \in Pipelines, Pipeline(p),
           NEW q \in Pipelines, q # p
    PROVE  Progress(q)'
<1>1. part'[q] = part[q]
    BY DEF Pipeline, Enter, Resume, HandlerReturns, HandlerEnds, PostSends, PostNextPart, PostEnds,
           handlerVars, HInv, HTypes
<1>2. \A k \in 1 .. Parts[q] : pc'[<<q, k>>] = pc[<<q, k>>]
  <2>1. CASE Enter(p) \/ Resume(p) \/ HandlerReturns(p) \/ HandlerEnds(p)
      BY <2>1 DEF Enter, Resume, HandlerReturns, HandlerEnds, vars, taskVars
  <2>2. CASE PostSends(p) \/ PostNextPart(p) \/ PostEnds(p)
    <3>1. \E v : pc' = [pc EXCEPT ![Call(p)] = v]
        BY <2>2, PostingMovesOne
    <3>2. \A k : <<q, k>> # Call(p)
        BY DEF Call
    <3> QED
        BY <3>1, <3>2, CallsAssumption DEF CallTypes, Tasks
  <2> QED
      BY <2>1, <2>2 DEF Pipeline
<1>3. pl'[q] = pl[q] \/ (pl[q] = "queued" /\ pl'[q] = "woken")
  <2>1. ASSUME NEW s \in States, NEW n \in Nat, WakeNext([pl EXCEPT ![p] = s], n)
        PROVE  pl'[q] = pl[q] \/ (pl[q] = "queued" /\ pl'[q] = "woken")
    <3>1. [pl EXCEPT ![p] = s] \in [Pipelines -> States]
        BY DEF HInv, HTypes
    <3>2. \/ pl' = [pl EXCEPT ![p] = s]
          \/ \E x \in Pipelines : /\ [pl EXCEPT ![p] = s][x] = "queued"
                                  /\ pl' = [[pl EXCEPT ![p] = s] EXCEPT ![x] = "woken"]
        BY <2>1, <3>1, WakeNextEffect
    <3> QED
        BY <3>2 DEF HInv, HTypes
  <2>2. CASE Enter(p) \/ HandlerReturns(p) \/ PostSends(p) \/ PostNextPart(p)
      BY <2>2 DEF Enter, HandlerReturns, PostSends, PostNextPart, handlerVars, HInv, HTypes
  <2>3. CASE Resume(p)
      BY <2>1, <2>3 DEF Resume, HInv, HTypes, States
  <2>4. CASE HandlerEnds(p) \/ PostEnds(p)
      BY <2>1, <2>4 DEF HandlerEnds, PostEnds, Release, HInv, HTypes, States
  <2> QED
      BY <2>2, <2>3, <2>4 DEF Pipeline
<1>4. pl'[q] = pl[q] \/ (pl[q] \in Early /\ pl'[q] \in Early)
    BY <1>3 DEF Early
<1> QED
    BY <1>1, <1>2, <1>4, ProgressFrame DEF AllProgress, HInv, PartInRange

(* A pipeline on its way to the handler has not posted anything.           *)
LEMMA EarlyProgress ==
    ASSUME HInv, AllProgress, NEW p \in Pipelines,
           Enter(p) \/ Resume(p) \/ HandlerReturns(p) \/ HandlerEnds(p)
    PROVE  Progress(p)'
<1>1. /\ pl[p] \in Early /\ part[p] = 0 /\ Unsent(p) /\ pc' = pc
    BY DEF Enter, Resume, HandlerReturns, HandlerEnds, AllProgress, Progress, Early, vars, taskVars
<1>2. Unsent(p)'
    BY <1>1 DEF Unsent
<1>3. CASE HandlerReturns(p)
  <2>1. pl'[p] = "posting" /\ part'[p] = 1
      BY <1>3 DEF HandlerReturns, HInv, HTypes
  <2>2. 1 \in 1 .. Parts[p] /\ Parts[p] \in Nat
      BY PipelinesFinite
  <2>3. UpTo(p, 1)' /\ pc'[<<p, 1>>] = "idle"
      BY <1>2, <2>2 DEF UpTo, Unsent
  <2> QED
      BY <2>1, <2>3 DEF Progress, Early, UpTo
<1>4. CASE Enter(p) \/ Resume(p) \/ HandlerEnds(p)
  <2>1. part'[p] = 0
      BY <1>1, <1>4 DEF Enter, Resume, HandlerEnds
  <2>2. pl'[p] \in Early \cup {"done"}
    <3>1. ASSUME NEW s \in {"handler", "done"}, NEW n \in Nat, WakeNext([pl EXCEPT ![p] = s], n)
          PROVE  pl'[p] = s
      <4>1. [pl EXCEPT ![p] = s] \in [Pipelines -> States]
          BY DEF HInv, HTypes, States
      <4>2. \/ pl' = [pl EXCEPT ![p] = s]
            \/ \E x \in Pipelines : /\ [pl EXCEPT ![p] = s][x] = "queued"
                                    /\ pl' = [[pl EXCEPT ![p] = s] EXCEPT ![x] = "woken"]
          BY <3>1, <4>1, WakeNextEffect
      <4> QED
          BY <4>2 DEF HInv, HTypes
    <3>2. CASE Enter(p)
        BY <3>2 DEF Enter, HInv, HTypes, Early
    <3>3. CASE Resume(p)
        BY <3>1, <3>3 DEF Resume, HInv, HTypes, Early
    <3>4. CASE HandlerEnds(p)
      <4>1. slots + 1 \in Nat /\ WakeNext([pl EXCEPT ![p] = "done"], slots + 1)
          BY <3>4 DEF HandlerEnds, Release, HInv, HTypes
      <4> QED
          BY <3>1, <4>1
    <3> QED
        BY <1>4, <3>2, <3>3, <3>4
  <2> QED
      BY <1>2, <2>1, <2>2 DEF Progress, Early
<1> QED
    BY <1>3, <1>4

(* The calls of a pipeline that posts: the part it is at moves on, the     *)
(* others stay as they are.                                                *)
LEMMA PostingProgress ==
    ASSUME HInv, AllProgress, CallTypes, NEW p \in Pipelines,
           PostSends(p) \/ PostNextPart(p) \/ PostEnds(p)
    PROVE  Progress(p)'
<1> DEFINE m == part[p]
<1>1. /\ pl[p] = "posting" /\ m \in 1 .. Parts[p] /\ Parts[p] \in Nat /\ UpTo(p, m)
      /\ pc[<<p, m>>] \in {"idle", "sending", "waiting"} /\ <<p, m>> \in Tasks
  <2>1. pl[p] = "posting" /\ m \in 1 .. Parts[p]
      BY DEF PostSends, PostNextPart, PostEnds, HInv, PartInRange
  <2>2. Call(p) \in Tasks /\ Parts[p] \in Nat
      BY <2>1, CallIsCall, PipelinesFinite DEF HInv, Tasks
  <2> QED
      BY <2>1, <2>2 DEF AllProgress, Progress, Call
<1>2. \A k \in 1 .. Parts[p] : k # m => pc'[<<p, k>>] = pc[<<p, k>>]
  <2>1. \E v : pc' = [pc EXCEPT ![Call(p)] = v]
      BY PostingMovesOne
  <2>2. \A k : k # m => <<p, k>> # Call(p)
      BY DEF Call
  <2> QED
      BY <2>1, <2>2, CallsAssumption DEF CallTypes, Tasks
<1>3. UpTo(p, m) => (\A k \in 1 .. Parts[p] : k < m => pc'[<<p, k>>] = "returned")
                    /\ (\A k \in 1 .. Parts[p] : k > m => pc'[<<p, k>>] = "idle")
    BY <1>1, <1>2 DEF UpTo
<1>4. CASE PostSends(p)
  <2>1. pl'[p] = "posting" /\ part'[p] = m
      BY <1>1, <1>4 DEF PostSends, handlerVars
  <2>2. pc'[<<p, m>>] \in {"sending", "waiting"}
      BY <1>1, <1>4 DEF PostSends, CallStart, CallSent, Call, CallTypes
  <2> QED
      BY <1>1, <1>3, <2>1, <2>2 DEF Progress, UpTo, Early
<1>5. CASE PostNextPart(p)
  <2>1. pl'[p] = "posting" /\ part'[p] = m + 1 /\ m < Parts[p]
      BY <1>1, <1>5 DEF PostNextPart, HInv, HTypes
  <2>2. pc'[<<p, m>>] = "returned"
      BY <1>1, <1>5 DEF PostNextPart, CallResume, Call, CallTypes
  <2>3. m + 1 \in 1 .. Parts[p] /\ m + 1 > m
      BY <1>1, <2>1
  <2>4. \A k \in 1 .. Parts[p] : k < m + 1 => pc'[<<p, k>>] = "returned"
      BY <1>1, <1>3, <2>2
  <2>5. \A k \in 1 .. Parts[p] : k > m + 1 => pc'[<<p, k>>] = "idle"
      BY <1>1, <1>3
  <2>6. pc'[<<p, m + 1>>] = "idle"
      BY <1>1, <1>3, <2>3
  <2> QED
      BY <2>1, <2>4, <2>5, <2>6 DEF Progress, UpTo, Early
<1>6. CASE PostEnds(p)
  <2>1. part' = part /\ pl'[p] = "done"
    <3>1. [pl EXCEPT ![p] = "done"] \in [Pipelines -> States] /\ slots + 1 \in Nat
        BY DEF HInv, HTypes, States
    <3>2. \/ pl' = [pl EXCEPT ![p] = "done"]
          \/ \E q \in Pipelines : /\ [pl EXCEPT ![p] = "done"][q] = "queued"
                                  /\ pl' = [[pl EXCEPT ![p] = "done"] EXCEPT ![q] = "woken"]
        BY <1>6, <3>1, WakeNextEffect DEF PostEnds, Release
    <3> QED
        BY <1>6, <3>2 DEF PostEnds, HInv, HTypes
  <2>2. \/ pc'[<<p, m>>] \in Finished \ {"returned"}
        \/ m = Parts[p] /\ pc'[<<p, m>>] = "returned"
      BY <1>1, <1>6 DEF PostEnds, CallRefused, CallSendFails, CallResume, Outcome, Call,
                        CallTypes, Finished
  <2>3. CASE pc'[<<p, m>>] \in Finished \ {"returned"}
    <3>1. UpTo(p, m)' /\ pc'[<<p, m>>] \in Finished \ {"returned"}
        BY <1>1, <1>3, <2>1, <2>3 DEF UpTo
    <3>2. \E x \in 1 .. Parts[p] : UpTo(p, x)' /\ pc'[<<p, x>>] \in Finished \ {"returned"}
        BY <1>1, <2>1, <2>3, <1>3 DEF UpTo
    <3> QED
        BY <2>1, <3>2 DEF Progress, Early
  <2>4. CASE m = Parts[p] /\ pc'[<<p, m>>] = "returned"
    <3>1. \A k \in 1 .. Parts[p] : pc'[<<p, k>>] = "returned"
        BY <1>1, <1>3, <2>4
    <3> QED
        BY <2>1, <3>1 DEF Progress, Early
  <2> QED
      BY <2>2, <2>3, <2>4
<1> QED
    BY <1>4, <1>5, <1>6

(* Every step keeps the progress of every reply.                           *)
LEMMA NextProgress ==
    ASSUME HInv, AllProgress, CallTypes, [HNext]_allVars
    PROVE  AllProgress'
<1> SUFFICES ASSUME NEW q \in Pipelines PROVE Progress(q)'
    BY DEF AllProgress, Pipelines
<1>1. ASSUME pc' = pc, part' = part,
             \/ pl'[q] = pl[q]
             \/ pl[q] = "none" /\ pl'[q] = "created"
      PROVE  Progress(q)'
    BY <1>1, ProgressFrame DEF AllProgress, HInv, PartInRange, Early
<1>2. CASE ClientStep /\ UNCHANGED handlerVars
    BY <1>1, <1>2, CallsFrame DEF handlerVars
<1>3. CASE Handled
    BY <1>1, <1>3, CallsFrame DEF Handled, handlerVars
<1>4. CASE \E r \in Rids : Spawn(r)
  <2>1. pc' = pc /\ part' = part
      BY <1>4, CallsFrame DEF Spawn
  <2>2. Receipt \in Pipelines /\ pl' = [pl EXCEPT ![Receipt] = "created"] /\ pl[Receipt] = "none"
      BY <1>4 DEF Spawn, HInv, Arrived, Receipt
  <2>3. pl'[q] = pl[q] \/ (pl[q] = "none" /\ pl'[q] = "created")
      BY <2>2 DEF HInv, HTypes
  <2> QED
      BY <1>1, <2>1, <2>3
<1>5. ASSUME NEW p \in Pipelines, Pipeline(p)
      PROVE  Progress(q)'
  <2>1. CASE q # p
      BY <1>5, <2>1, OthersProgress
  <2>2. CASE q = p
      BY <1>5, <2>2, EarlyProgress, PostingProgress DEF Pipeline
  <2> QED
      BY <2>1, <2>2
<1>6. CASE UNCHANGED allVars
    BY <1>1, <1>6 DEF allVars, vars, taskVars, handlerVars
<1> QED
    BY <1>2, <1>3, <1>4, <1>5, <1>6 DEF HNext

(* RepliesWhole, for every number of parts, slots and connections: when a  *)
(* connection is lost under a reply (handler_client.py, 156-176), no later *)
(* part of it goes out, over the next connection either.                   *)
THEOREM RepliesAreWhole == HSpec => []RepliesWhole
<1>1. HInit => AllProgress
  <2> SUFFICES ASSUME HInit, NEW p \in Pipelines PROVE Progress(p)
      BY DEF AllProgress
  <2>1. \A k \in 1 .. Parts[p] : <<p, k>> \in Tasks
      BY CallsAssumption DEF Tasks
  <2> QED
      BY <2>1 DEF HInit, Init, Progress, Unsent, Early
<1>2. HInv /\ CallTypes /\ AllProgress /\ [HNext]_allVars => AllProgress'
    BY NextProgress
<1>3. HSpec => []CallTypes
  <2>1. Steady => CallTypes
      BY DEF Steady, Connection, Tables, TableTypes, CallTypes
  <2> QED
      BY <2>1, HandlerIsRpcClient, AlwaysSteady, PTL
<1> QED
    BY <1>1, <1>2, <1>3, HInvAlways, ProgressIsWhole, PTL DEF HSpec

-----------------------------------------------------------------------------
(* What one step may make of a pipeline.                                   *)
Onward(p) ==
    /\ pl[p] = "none"    => pl'[p] \in {"none", "created"}
    /\ pl[p] = "created" => pl'[p] \in {"created", "queued", "handler"}
    /\ pl[p] = "queued"  => pl'[p] \in {"queued", "woken"}
    /\ pl[p] = "woken"   => pl'[p] \in {"woken", "handler"}
    /\ pl[p] = "handler" => pl'[p] \in {"handler", "posting", "done"}
    /\ pl[p] = "posting" => pl'[p] \in {"posting", "done"} /\ part'[p] \in {part[p], part[p] + 1}
    /\ pl[p] = "done"    => pl'[p] = "done" /\ part'[p] = part[p]

AllOnward == \A p \in Pipelines : Onward(p)

(* An envelope is handled once: its pipeline is created once, runs its     *)
(* handler once and goes through the parts of its reply once, also when    *)
(* the connection is lost and replaced meanwhile; a slot that was handed   *)
(* to it is not taken back before it ends.                                 *)
HandledOnce == [][AllOnward]_allVars

(* A pipeline that ends may wake one that is queued.                       *)
LEMMA ReleaseMovesOn ==
    ASSUME HInv, NEW p \in Pipelines, pl[p] \in {"handler", "posting"}, Release(p), part' = part
    PROVE  AllOnward
<1>1. [pl EXCEPT ![p] = "done"] \in [Pipelines -> States] /\ slots + 1 \in Nat
    BY DEF HInv, HTypes, States
<1>2. \/ pl' = [pl EXCEPT ![p] = "done"]
      \/ \E q \in Pipelines : /\ [pl EXCEPT ![p] = "done"][q] = "queued"
                              /\ pl' = [[pl EXCEPT ![p] = "done"] EXCEPT ![q] = "woken"]
    BY <1>1, WakeNextEffect DEF Release
<1> QED
    BY <1>2 DEF AllOnward, Onward, HInv, HTypes

(* A woken pipeline that runs may wake one that is queued.                 *)
LEMMA ResumeMovesOn ==
    ASSUME HInv, NEW p \in Pipelines, Resume(p)
    PROVE  AllOnward
<1>1. [pl EXCEPT ![p] = "handler"] \in [Pipelines -> States] /\ slots \in Nat
    BY DEF HInv, HTypes, States
<1>2. \/ pl' = [pl EXCEPT ![p] = "handler"]
      \/ \E q \in Pipelines : /\ [pl EXCEPT ![p] = "handler"][q] = "queued"
                              /\ pl' = [[pl EXCEPT ![p] = "handler"] EXCEPT ![q] = "woken"]
    BY <1>1, WakeNextEffect DEF Resume
<1> QED
    BY <1>2 DEF Resume, AllOnward, Onward, HInv, HTypes

(* HandledOnce: _handle_and_post has no way back, and receive_envelope     *)
(* starts a pipeline only for an envelope that has none.                   *)
THEOREM EnvelopesAreHandledOnce == HSpec => HandledOnce
<1>1. ASSUME HInv, [HNext]_allVars PROVE [AllOnward]_allVars
  <2>1. CASE UNCHANGED handlerVars
      BY <1>1, <2>1 DEF handlerVars, AllOnward, Onward, HInv, HTypes
  <2>2. ASSUME NEW r \in Rids, Spawn(r) PROVE AllOnward
    <3>1. Receipt \in Pipelines /\ pl[Receipt] = "none"
        BY <1>1, <2>2 DEF Spawn, HInv, Arrived, HTypes, Receipt
    <3> QED
        BY <1>1, <2>2, <3>1 DEF Spawn, AllOnward, Onward, HInv, HTypes
  <2>3. ASSUME NEW p \in Pipelines, Pipeline(p) PROVE AllOnward
    <3>1. CASE Enter(p)
        BY <1>1, <3>1 DEF Enter, AllOnward, Onward, HInv, HTypes
    <3>2. CASE Resume(p)
        BY <1>1, <3>2, ResumeMovesOn
    <3>3. CASE HandlerEnds(p) \/ PostEnds(p)
        BY <1>1, <3>3, ReleaseMovesOn DEF HandlerEnds, PostEnds
    <3>4. CASE HandlerReturns(p)
        BY <1>1, <3>4 DEF HandlerReturns, AllOnward, Onward, HInv, HTypes
    <3>5. CASE PostNextPart(p)
        BY <1>1, <3>5 DEF PostNextPart, AllOnward, Onward, HInv, HTypes
    <3>6. CASE PostSends(p)
        BY <2>1, <3>6 DEF PostSends, handlerVars, AllOnward, Onward
    <3> QED
        BY <2>3, <3>1, <3>2, <3>3, <3>4, <3>5, <3>6 DEF Pipeline
  <2> QED
      BY <1>1, <2>1, <2>2, <2>3 DEF HNext, Handled
<1> QED
    BY <1>1, HInvAlways, PTL DEF HSpec, HandledOnce

-----------------------------------------------------------------------------
(***************************************************************************)
(* The commands that serve envelopes (ServeLoop)                           *)
(***************************************************************************)

(* What a command does with the client that a HandlerClient does not.      *)
Beside ==
    \/ CallStart(Token) \/ CallSent(Token) \/ CallSendFails(Token) \/ CallResume(Token)
    \/ CallSendCancelled(Token) \/ TaskCancel(Token) \/ DisconnectWaitCancelled

(* session.close() does not touch the client.  It begins when the client   *)
(* is closed, and ends with the session closed or with an outcome.         *)
LEMMA CloseSessionFrame ==
    ASSUME CloseSession
    PROVE  /\ UNCHANGED <<vars, command, holder, ctrlC>>
           /\ (main = "closed" /\ closing = "idle") \/ main \in {"locking", "draining", "stopping"}
           /\ main' \in {"locking", "draining", "stopping", "ended"}
           /\ main = "draining" => main' \in {"stopping", "ended"}
           /\ main = "stopping" => main' = "ended"
           /\ main = "locking" => main' \in {"draining", "stopping", "ended"}
           /\ session' = session \/ session' = "none"
    BY DEF CloseSession, SkipSession, AwaitLock, TakeLock, Drained, SessionStopped, SessionEnds,
       ClientClosed, Goto

(* What handlers do with the session touches neither client nor command.   *)
LEMMA UseSessionFrame == UseSession => UNCHANGED <<allVars, command, main, released, ctrlC>>
    BY DEF UseSession, Lock, Unlock, OpenSession, DropSession, SessionStep

(* Every step of a command is one of its handler client, one of those, or  *)
(* no step of the client.                                                  *)
LEMMA SNextCases ==
    ASSUME [SNext]_loopVars
    PROVE  [HNext]_allVars \/ (Beside /\ UNCHANGED handlerVars)
<1>1. CASE MainStep
  <2>1. UNCHANGED handlerVars
      BY <1>1 DEF MainStep
  <2>2. Connect \/ UNCHANGED vars \/ Beside \/ CloseBegin \/ CloseUnconnected
      BY <1>1, CloseSessionFrame
         DEF MainStep, Open, OpenFails, PushToken, PushEnds, Served, CloseClient, Beside
  <2> QED
      BY <2>1, <2>2 DEF HNext, ClientStep, Close, allVars
<1>2. CASE Interrupt
  <2>1. UNCHANGED handlerVars /\ (UNCHANGED vars \/ Beside \/ CloseCancelled)
      BY <1>2 DEF Interrupt, Beside
  <2> QED
      BY <2>1 DEF HNext, ClientStep, Close, allVars
<1>3. CASE LoopStep
  <2>1. CASE \/ Suspended /\ Handled /\ UNCHANGED serveVars
             \/ Suspended /\ (\E r \in Rids : Spawn(r)) /\ UNCHANGED serveVars
             \/ Suspended /\ \E p \in Pipelines : PipelineStep(p)
             \/ Suspended /\ UseSession
      BY <2>1, UseSessionFrame DEF HNext, PipelineStep
  <2>2. CASE Waiting(Timer)
      BY <2>2 DEF Waiting, Timer, HNext, ClientStep
  <2>3. CASE Waiting(\/ PeerCloses \/ ClosingStep
                     \/ \E c \in Calls : RecvResponse(c)
                     \/ RecvAckOnly \/ RecvBlankEnvelope \/ ReplySent
                     \/ ReplyFails \/ RecvRaises \/ ReaderSeesClose)
      BY <2>3 DEF Waiting, ClosingStep, HNext, ClientStep, Close
  <2> QED
      BY <1>3, <2>1, <2>2, <2>3 DEF LoopStep
<1>4. CASE UNCHANGED loopVars
    BY <1>4 DEF loopVars
<1> QED
    BY <1>1, <1>2, <1>3, <1>4 DEF SNext

(* The steps beside the handler client are steps of the client, and leave  *)
(* the log alone.                                                          *)
LEMMA BesideIsNext == Beside => Next /\ log' = log
<1>1. Token \in Calls /\ Token \in Tasks
    BY TokenAssumption DEF Tasks
<1>2. Beside => Next
    BY <1>1 DEF Beside, Next, CallStep
<1>3. Beside => log' = log
    BY DEF Beside, CallStart, CallSent, CallSendFails, CallResume, CallSendCancelled, TaskCancel,
           DisconnectWaitCancelled, Cleanup, relayVars
<1> QED
    BY <1>2, <1>3

(* A step of a command is a step of the client, and keeps HInv.            *)
LEMMA ServeHInv == HInv /\ [SNext]_loopVars => HInv' /\ [Next]_vars
<1> SUFFICES ASSUME HInv, [SNext]_loopVars PROVE HInv' /\ [Next]_vars
    OBVIOUS
<1>1. CASE [HNext]_allVars
    BY <1>1, NextHInv, HNextIsNext DEF HInv
<1>2. CASE Beside /\ UNCHANGED handlerVars
    BY <1>2, BesideIsNext DEF HInv, handlerVars, HTypes, PartInRange, Arrived, Count, Ordered,
                NoIdleSlot, Queued, Pipelines
<1> QED
    BY <1>1, <1>2, SNextCases

(* When the client's close() is over, it has an outcome.                   *)
CloseSettled ==
    /\ closed \in {"none", "ok", "raised", "cancelled"}
    /\ main = "closed" /\ closing = "idle" => closed # "none"

(* The handlers of the demo have no session.                               *)
SessionSound ==
    /\ command \in {"demo", "device"}
    /\ command = "demo" => session = "none" /\ holder = NoOne

SInv == HInv /\ CloseSettled /\ SessionSound /\ SessionReleased

(* What the loop runs during close() gives it an outcome when it ends it.  *)
LEMMA LoopClosing ==
    ASSUME LoopStep
    PROVE  /\ main' = main /\ main # "ended"
           /\ main = "closed" => closing # "idle"
           /\ \/ UNCHANGED <<closing, closed>>
              \/ closing' = "ws" /\ closed' = closed
              \/ closing' = "idle" /\ closed' \in {"ok", "raised"}
<1> USE DEF connVars
<1>1. main' = main /\ main # "ended" /\ (main = "closed" => closing # "idle")
    BY UseSessionFrame DEF LoopStep, Waiting, Suspended, PipelineStep, serveVars
<1>2. CASE \/ Suspended /\ Handled /\ UNCHANGED serveVars
           \/ Suspended /\ (\E r \in Rids : Spawn(r)) /\ UNCHANGED serveVars
           \/ Suspended /\ \E p \in Pipelines : PipelineStep(p)
           \/ Suspended /\ UseSession
  <2>1. UNCHANGED connVars
      BY <1>2, UseSessionFrame
              DEF Handled, HandlingDone, Spawn, RecvEnvelope, allVars, vars, PipelineStep,
                  Pipeline, Enter, Resume, HandlerReturns, HandlerEnds, PostSends, PostNextPart,
                  PostEnds, CallRefused, CallStart, CallSent, CallSendFails, CallResume
  <2> QED
      BY <1>1, <2>1
<1>3. CASE Waiting(Timer)
    BY <1>1, <1>3 DEF Waiting, Timer, TimerFires
<1>4. CASE Waiting(\/ PeerCloses \/ ClosingStep
                   \/ \E c \in Calls : RecvResponse(c)
                   \/ RecvAckOnly \/ RecvBlankEnvelope \/ ReplySent
                   \/ ReplyFails \/ RecvRaises \/ ReaderSeesClose)
    BY <1>1, <1>4 DEF Waiting, ClosingStep, PeerCloses, ReaderCancelled, CloseReaderDone,
       CloseRaises, CloseWs, RecvResponse, RecvAckOnly, RecvBlankEnvelope, ReplySent, ReplyFails,
       RecvRaises, ReaderFails, ReaderSeesClose
<1> QED
    BY <1>2, <1>3, <1>4 DEF LoopStep

(* Every step of a command keeps what is known of the client's close().    *)
LEMMA ServeSettles ==
    ASSUME CloseSettled, [SNext]_loopVars
    PROVE  CloseSettled'
<1> USE DEF connVars
<1>1. CASE LoopStep
    BY <1>1, LoopClosing DEF CloseSettled
<1>2. CASE CloseSession
    BY <1>2, CloseSessionFrame DEF vars, CloseSettled
<1>3. CASE \/ Open \/ OpenFails \/ PushToken \/ PushEnds \/ Served \/ CloseClient
  <2>1. \/ UNCHANGED <<closing, closed>> /\ main' # "closed"
        \/ closed' = "none" /\ main' # "closed"
        \/ main' = "closed" /\ closed' = closed /\ closing' = "reader"
        \/ main' = "closed" /\ closed' = "ok"
      BY <1>3 DEF Open, OpenFails, PushToken, PushEnds, Served, CloseClient, Goto, Connect,
         CallStart, CallSent, CallSendFails, CallResume, CloseBegin, CloseUnconnected, vars,
         serveVars
  <2> QED
      BY <2>1 DEF CloseSettled
<1>4. CASE Interrupt
  <2>1. \/ UNCHANGED <<closing, closed>> /\ (main' = "closed" => main = "closed")
        \/ closed' = "cancelled"
      BY <1>4 DEF Interrupt, CallSendCancelled, TaskCancel, DisconnectWaitCancelled,
                  CloseCancelled, vars
  <2> QED
      BY <2>1 DEF CloseSettled
<1>5. CASE UNCHANGED loopVars
    BY <1>5 DEF loopVars, allVars, vars, serveVars, CloseSettled
<1> QED
    BY <1>1, <1>2, <1>3, <1>4, <1>5 DEF SNext, MainStep

(* Only the handlers of adb and playwright use a session.                  *)
LEMMA ServeSound ==
    ASSUME SessionSound, [SNext]_loopVars
    PROVE  SessionSound'
<1> USE DEF serveVars
<1>1. CASE LoopStep
  <2>1. CASE UseSession
      BY <2>1 DEF UseSession, Lock, Unlock, OpenSession, DropSession, SessionStep, SessionSound
  <2>2. CASE \E p \in Pipelines : PipelineStep(p)
      BY <2>2 DEF PipelineStep, SessionSound
  <2>3. CASE UNCHANGED serveVars
      BY <2>3 DEF SessionSound
  <2> QED
      BY <1>1, <2>1, <2>2, <2>3 DEF LoopStep, Waiting
<1>2. CASE MainStep
  <2>1. UNCHANGED <<command, holder>> /\ (session' = session \/ session' = "none")
      BY <1>2, CloseSessionFrame DEF MainStep, Open, OpenFails, PushToken, PushEnds, Served,
         CloseClient, Goto
  <2> QED
      BY <2>1 DEF SessionSound
<1>3. CASE Interrupt
    BY <1>3 DEF Interrupt, SessionSound
<1>4. CASE UNCHANGED loopVars
    BY <1>4 DEF loopVars, SessionSound
<1> QED
    BY <1>1, <1>2, <1>3, <1>4 DEF SNext

(* The command ends only with the session closed, or with an outcome of    *)
(* the client's close() or of session.close() that explains why it is not; *)
(* the loop does not run any more then.                                    *)
LEMMA ServeReleases ==
    ASSUME CloseSettled, SessionSound, SessionReleased, [SNext]_loopVars
    PROVE  SessionReleased'
<1> USE DEF connVars, SessionReleased
<1>1. CASE LoopStep
    BY <1>1, LoopClosing
<1>2. CASE SkipSession
  <2>1. UNCHANGED <<closed, session>> /\ (closed # "ok" \/ command # "device") /\ closed # "none"
      BY <1>2 DEF SkipSession, ClientClosed, Goto, vars, CloseSettled
  <2> QED
      BY <2>1 DEF CloseSettled, SessionSound
<1>3. CASE AwaitLock
    BY <1>3 DEF AwaitLock, Goto
<1>4. CASE TakeLock
    BY <1>4 DEF TakeLock, SessionEnds, Goto
<1>5. CASE Drained
    BY <1>5 DEF Drained, SessionEnds, Goto
<1>6. CASE SessionStopped
    BY <1>6 DEF SessionStopped
<1>7. CASE \/ Open \/ OpenFails \/ PushToken \/ PushEnds \/ Served \/ CloseClient
  <2>1. main' # "ended"
      BY <1>7 DEF Open, OpenFails, PushToken, PushEnds, Served, CloseClient, Goto, serveVars
  <2> QED
      BY <2>1
<1>8. CASE Interrupt
  <2>1. main' # "ended" \/ released' = "cancelled"
      BY <1>8 DEF Interrupt
  <2> QED
      BY <2>1
<1>9. CASE UNCHANGED loopVars
    BY <1>9 DEF loopVars, allVars, vars, serveVars
<1> QED
    BY <1>1, <1>2, <1>3, <1>4, <1>5, <1>6, <1>7, <1>8, <1>9 DEF SNext, MainStep, CloseSession

(* The invariant of the commands holds in every reachable state.           *)
LEMMA SInvAlways == SSpec => []SInv
<1>1. SInit => SInv
    BY InitHInv DEF SInit, HInit, Init, SInv, CloseSettled, SessionSound, SessionReleased
<1>2. SInv /\ [SNext]_loopVars => SInv'
    BY ServeHInv, ServeSettles, ServeSound, ServeReleases DEF SInv
<1>3. SSpec => SInit /\ [][SNext]_loopVars
    BY PTL DEF SSpec
<1> QED
    BY <1>1, <1>2, <1>3, PTL

(* SessionReleased: a command that has ended has closed its session, for   *)
(* all that handlers did with it meanwhile, unless the client's close() or *)
(* session.close() itself raised or was interrupted.                       *)
THEOREM CommandsReleaseTheirSession == SSpec => []SessionReleased
<1>1. SInv => SessionReleased
    BY DEF SInv
<1> QED
    BY <1>1, SInvAlways, PTL

(* SlotsConserved, NoIdleSlot and StartedInOrder for the commands:         *)
(* run_demo, run_adb and run_playwright use the client as RpcClient        *)
(* allows, Ctrl-C and the report of the token included, and neither costs  *)
(* a slot or delays a handler.                                             *)
THEOREM CommandsAreHandlerClients ==
    SSpec => Spec /\ []SlotsConserved /\ []NoIdleSlot /\ []StartedInOrder
<1>1. SInit => Init
    BY DEF SInit, HInit
<1>2. SInv /\ [SNext]_loopVars => [Next]_vars
    BY ServeHInv DEF SInv
<1>3. SInv => SlotsConserved /\ NoIdleSlot /\ StartedInOrder
  <2>1. HInv => SlotsConserved
      BY DEF HInv, HTypes, SlotsConserved, Count, Holders
  <2>2. HInv => NoIdleSlot
      BY DEF HInv
  <2>3. HInv => StartedInOrder
      BY DEF HInv, Ordered, Started, StartedInOrder
  <2> QED
      BY <2>1, <2>2, <2>3 DEF SInv
<1>4. SSpec => SInit /\ [][SNext]_loopVars
    BY PTL DEF SSpec
<1> QED
    BY <1>1, <1>2, <1>3, <1>4, SInvAlways, PTL DEF Spec

-----------------------------------------------------------------------------
(***************************************************************************)
(* ServeEnds: the commands end.                                            *)
(***************************************************************************)

(* What the command's task knows where it is.  Until it closes the client, *)
(* nobody else does.  The report of the token begins with a living reader, *)
(* and stays pending only beside one; Ctrl-C cancels it or, while serving, *)
(* ends the reader.                                                        *)
CommandSound ==
    /\ main \in {"start", "pushing", "serving", "closing", "closed", "locking", "draining",
                 "stopping", "ended"}
    /\ main = "start" => ws = "none" /\ ~ctrlC /\ pc[Token] = "idle"
    /\ main \in {"start", "pushing", "serving", "closing"}
           => closing = "idle" /\ (reader = "none" => ws = "none")
    /\ main \in {"pushing", "serving"} => ws # "none"
    /\ main = "pushing" =>
           /\ pc[Token] \in {"idle", "sending", "waiting"}
           /\ pc[Token] = "idle" => ws = "open" /\ reader = "recv" /\ ~ctrlC
           /\ fut[Token] = "pending" => reader \in ReaderAwaits
           /\ ctrlC => pc[Token] = "waiting" /\ interrupt[Token] = "cancel"
    /\ main = "serving" /\ ctrlC => reader \in {"ended", "failed"}

CommandInv == HInv /\ Steady /\ CommandSound

(* Pipelines, timers and frames do not move the report of the token.       *)
LEMMA LoopSparesToken ==
    ASSUME HInv, Steady, LoopStep
    PROVE  pc'[Token] = pc[Token] /\ interrupt'[Token] = interrupt[Token]
<1>t. /\ pc \in [Tasks -> Finished \cup {"idle", "sending", "waiting"}]
      /\ interrupt \in [Tasks -> {"none", "timeout", "cancel"}]
    BY DEF Steady, Connection, Tables, TableTypes
<1>k. Token \in Tasks /\ Token \notin TimedTasks /\ TimedTasks \subseteq Tasks
    BY TokenAssumption, TaskAssumption DEF Tasks
<1>1. ASSUME NEW p \in Pipelines, Pipeline(p)
      PROVE  pc'[Token] = pc[Token] /\ interrupt' = interrupt
  <2>1. CASE Enter(p) \/ Resume(p) \/ HandlerReturns(p) \/ HandlerEnds(p)
      BY <2>1 DEF Enter, Resume, HandlerReturns, HandlerEnds, vars, taskVars
  <2>2. CASE PostSends(p) \/ PostNextPart(p) \/ PostEnds(p)
    <3>1. pl[p] = "posting"
        BY <2>2 DEF PostSends, PostNextPart, PostEnds
    <3>2. Call(p) # Token
        BY <3>1, TokenAssumption DEF HInv, PartInRange, Call
    <3>3. \/ CallRefused(Call(p)) \/ CallStart(Call(p)) \/ CallSent(Call(p))
          \/ CallSendFails(Call(p)) \/ CallResume(Call(p))
        BY <2>2 DEF PostSends, PostNextPart, PostEnds
    <3> QED
        BY <1>t, <1>k, <3>2, <3>3 DEF CallRefused, CallStart, CallSent, CallSendFails, CallResume
  <2> QED
      BY <1>1, <2>1, <2>2 DEF Pipeline
<1>2. CASE Waiting(Timer)
    BY <1>2, <1>t, <1>k DEF Waiting, Timer, TimerFires
<1>3. CASE Waiting(\/ PeerCloses \/ ClosingStep
                   \/ \E c \in Calls : RecvResponse(c)
                   \/ RecvAckOnly \/ RecvBlankEnvelope \/ ReplySent
                   \/ ReplyFails \/ RecvRaises \/ ReaderSeesClose)
    BY <1>3 DEF Waiting, PeerCloses, ClosingStep, ReaderCancelled, CloseReaderDone, CloseRaises,
       CloseWs, RecvResponse, RecvAckOnly, RecvBlankEnvelope, ReplySent, ReplyFails, RecvRaises,
       ReaderFails, ReaderSeesClose, Cleanup, taskVars
<1>4. CASE Handled \/ (\E r \in Rids : Spawn(r)) \/ UseSession
    BY <1>4, UseSessionFrame DEF Handled, HandlingDone, Spawn, RecvEnvelope, allVars, vars, taskVars
<1> QED
    BY <1>1, <1>2, <1>3, <1>4 DEF LoopStep, PipelineStep

(* Unless the command is closing it, the loop leaves the client connected, *)
(* and a reader that has ended is not started again.                       *)
LEMMA LoopKeepsClient ==
    ASSUME LoopStep, closing = "idle"
    PROVE  /\ closing' = "idle"
           /\ ws' = ws \/ (ws = "open" /\ ws' = "closed")
           /\ reader \in ReaderAwaits => reader' \in ReaderAwaits \cup {"ended", "failed"}
           /\ reader \notin ReaderAwaits => reader' = reader
<1> USE DEF connVars, ReaderAwaits
<1>1. ASSUME NEW p \in Pipelines, Pipeline(p) PROVE UNCHANGED <<connVars, reader>>
    BY <1>1 DEF Pipeline, Enter, Resume, HandlerReturns, HandlerEnds, PostSends, PostNextPart,
       PostEnds, CallRefused, CallStart, CallSent, CallSendFails, CallResume, vars
<1>2. CASE Waiting(Timer)
    BY <1>2 DEF Waiting, Timer, TimerFires
<1>3. CASE Waiting(\/ PeerCloses \/ ClosingStep
                   \/ \E c \in Calls : RecvResponse(c)
                   \/ RecvAckOnly \/ RecvBlankEnvelope \/ ReplySent
                   \/ ReplyFails \/ RecvRaises \/ ReaderSeesClose)
    BY <1>3 DEF Waiting, PeerCloses, ClosingStep, ReaderCancelled, CloseReaderDone, CloseRaises,
       CloseWs, RecvResponse, RecvAckOnly, RecvBlankEnvelope, ReplySent, ReplyFails, RecvRaises,
       ReaderFails, ReaderSeesClose, ReaderRuns
<1>4. CASE Handled \/ (\E r \in Rids : Spawn(r)) \/ UseSession
    BY <1>4, UseSessionFrame DEF Handled, HandlingDone, Spawn, RecvEnvelope, allVars, vars, ReaderRuns
<1> QED
    BY <1>1, <1>2, <1>3, <1>4 DEF LoopStep, PipelineStep

(* A step of the loop keeps what the command's task knows.                 *)
LEMMA LoopKeepsCommand ==
    ASSUME CommandInv, [Next]_vars, LoopStep PROVE CommandSound'
<1>1. UNCHANGED <<main, ctrlC>> /\ Suspended
    BY UseSessionFrame DEF LoopStep, Waiting, PipelineStep, serveVars
<1>2. pc'[Token] = pc[Token] /\ interrupt'[Token] = interrupt[Token]
    BY LoopSparesToken DEF CommandInv
<1>3. CASE main \in {"closed", "locking", "draining", "stopping", "ended"}
    BY <1>1, <1>3 DEF CommandInv, CommandSound
<1>4. CASE main \in {"pushing", "serving"}
  <2>1. /\ closing = "idle" /\ closing' = "idle" /\ ws' # "none"
        /\ reader \notin ReaderAwaits => reader' = reader
        /\ reader \in ReaderAwaits => reader' # "none"
        /\ reader' = "none" => reader = "none"
      BY <1>4, LoopKeepsClient DEF CommandInv, CommandSound, ReaderAwaits
  <2>2. ASSUME main = "pushing", fut'[Token] = "pending" PROVE reader' \in ReaderAwaits
    <3>1. Token \in Tasks /\ fut[Token] \in {"none", "pending", "result", "cancelled"}
        BY TokenAssumption DEF Tasks, CommandInv, Steady, Connection, Tables, TableTypes
    <3>2. pc[Token] # "idle"
        BY <1>1, <2>2 DEF Suspended
    <3>3. fut[Token] # "none"
        BY <2>2, <3>1, <3>2 DEF CommandInv, CommandSound, Steady, Fresh
    <3>4. fut[Token] = "pending"
        BY <2>2, <3>1, <3>3, NextMovesTasks DEF TaskMoves, CommandInv
    <3>5. reader \in ReaderAwaits
        BY <2>2, <3>4 DEF CommandInv, CommandSound
    <3> QED
        BY <2>2, <3>1, <3>5, NextMovesReader DEF ReaderMoves, CommandInv
  <2>3. pc[Token] = "idle" => main # "pushing"
      BY <1>1 DEF Suspended
  <2> QED
      BY <1>1, <1>2, <1>4, <2>1, <2>2, <2>3 DEF CommandInv, CommandSound, ReaderAwaits
<1> QED
    BY <1>1, <1>3, <1>4 DEF Suspended, CommandInv, CommandSound

(* So does Ctrl-C.                                                         *)
LEMMA InterruptKeepsCommand ==
    ASSUME CommandInv, [Next]_vars, Interrupt PROVE CommandSound'
<1>t. /\ Token \in Tasks /\ ctrlC' = TRUE /\ ~ctrlC
      /\ pc \in [Tasks -> Finished \cup {"idle", "sending", "waiting"}]
      /\ fut \in [Tasks -> {"none", "pending", "result", "cancelled"}]
      /\ interrupt \in [Tasks -> {"none", "timeout", "cancel"}]
      /\ CommandSound
    BY TokenAssumption DEF Tasks, CommandInv, Steady, Connection, Tables, TableTypes, Interrupt
<1> USE DEF CommandSound, connVars
<1>1. CASE main = "start" /\ main' = "closing" /\ UNCHANGED vars
    BY <1>t, <1>1 DEF vars, taskVars
<1>2. CASE main = "pushing" /\ main' = "closing" /\ CallSendCancelled(Token)
    BY <1>t, <1>2 DEF CallSendCancelled
<1>3. CASE main = "pushing" /\ TaskCancel(Token) /\ UNCHANGED main
  <2>1. /\ pc[Token] = "waiting" /\ pc' = pc /\ interrupt'[Token] = "cancel"
        /\ fut'[Token] # "pending" /\ UNCHANGED <<connVars, reader>>
      BY <1>t, <1>3 DEF TaskCancel
  <2> QED
      BY <1>t, <1>3, <2>1
<1>4. CASE main = "serving" /\ DisconnectWaitCancelled /\ UNCHANGED main
    BY <1>t, <1>4 DEF DisconnectWaitCancelled
<1>5. CASE main = "serving" /\ main' = "closing" /\ UNCHANGED vars
    BY <1>t, <1>5 DEF vars
<1>6. CASE main \in {"closed", "draining"} /\ UNCHANGED main
    BY <1>t, <1>6
<1>7. CASE main' = "ended"
    BY <1>t, <1>7
<1> QED
    BY <1>1, <1>2, <1>3, <1>4, <1>5, <1>6, <1>7 DEF Interrupt

(* How a report that Ctrl-C has cancelled ends: never with its result, for *)
(* it has no timer that could swallow the cancellation.                    *)
LEMMA CancelledReport == interrupt[Token] = "cancel" => Outcome(Token) = "cancelled"
    BY TokenAssumption DEF Outcome, CancelLost

(* And so does the command's own task.                                     *)
LEMMA MainKeepsCommand ==
    ASSUME CommandInv, [Next]_vars, MainStep PROVE CommandSound'
<1>t. /\ Token \in Tasks
      /\ pc \in [Tasks -> Finished \cup {"idle", "sending", "waiting"}]
      /\ fut \in [Tasks -> {"none", "pending", "result", "cancelled"}]
      /\ interrupt \in [Tasks -> {"none", "timeout", "cancel"}]
      /\ CommandSound
    BY TokenAssumption DEF Tasks, CommandInv, Steady, Connection, Tables, TableTypes
<1>c. closing = "idle" \/ ws # "none"
    BY DEF CommandInv, Steady, Connection, ConnSound
<1>f. pc[Token] = "idle" => fut[Token] = "none"
    BY <1>t DEF CommandInv, Steady, Fresh
<1> USE DEF CommandSound, connVars, Goto
<1>1. CASE Open
  <2>1. /\ ws' = "open" /\ reader' = "recv" /\ pc' = pc /\ fut' = fut
        /\ UNCHANGED <<closing, ctrlC>> /\ main = "start" /\ main' \in {"pushing", "serving"}
      BY <1>1 DEF Open, Connect, taskVars
  <2> QED
      BY <1>t, <1>f, <2>1
<1>2. CASE OpenFails
    BY <1>t, <1>2 DEF OpenFails, vars
<1>3. CASE PushToken
  <2>1. CASE CallStart(Token)
      BY <1>t, <1>3, <2>1 DEF PushToken, CallStart, serveVars, ReaderAwaits
  <2>2. CASE CallSent(Token)
      BY <1>t, <1>3, <2>2 DEF PushToken, CallSent, serveVars
  <2> QED
      BY <1>3, <2>1, <2>2 DEF PushToken
<1>4. CASE PushEnds
  <2>1. /\ main = "pushing" /\ UNCHANGED <<connVars, reader, ctrlC>>
        /\ main' \in {"serving", "closing"}
      BY <1>4 DEF PushEnds, CallSendFails, CallResume
  <2>2. ctrlC => main' # "serving"
    <3> SUFFICES ASSUME ctrlC PROVE main' # "serving"
        OBVIOUS
    <3>1. pc[Token] = "waiting" /\ interrupt[Token] = "cancel"
        BY <1>t, <2>1
    <3>2. CallResume(Token)
        BY <1>4, <3>1 DEF PushEnds, CallSendFails
    <3>3. pc'[Token] = "cancelled"
        BY <1>t, <3>1, <3>2, CancelledReport DEF CallResume
    <3> QED
        BY <1>4, <3>3 DEF PushEnds
  <2> QED
      BY <1>t, <2>1, <2>2
<1>5. CASE Served
    BY <1>t, <1>5 DEF Served, vars
<1>6. CASE CloseClient
    BY <1>t, <1>6 DEF CloseClient
<1>7. CASE CloseSession
    BY <1>t, <1>7, CloseSessionFrame
<1> QED
    BY <1>1, <1>2, <1>3, <1>4, <1>5, <1>6, <1>7 DEF MainStep

(* The steps of a command, without its fairness.                           *)
SSteps == SInit /\ [][SNext]_loopVars

(* The invariant of the commands that their ending rests on.               *)
LEMMA CommandInvAlways == SSteps => []CommandInv
<1>1. SInit => CommandInv
  <2>1. SInit => Init /\ HInv
      BY InitHInv DEF SInit, HInit
  <2>2. Init => Steady
      BY InitConnection DEF Init, Steady, Fresh
  <2>3. SInit => CommandSound
      BY TokenAssumption DEF SInit, HInit, Init, CommandSound, Tasks
  <2> QED
      BY <2>1, <2>2, <2>3 DEF CommandInv
<1>2. CommandInv /\ [SNext]_loopVars => CommandInv'
  <2> SUFFICES ASSUME CommandInv, [SNext]_loopVars PROVE CommandInv'
      OBVIOUS
  <2>1. HInv' /\ [Next]_vars
      BY ServeHInv DEF CommandInv
  <2>2. Steady'
      BY <2>1, NextConnection, NextFresh DEF CommandInv, Steady, Connection
  <2>3. ASSUME UNCHANGED loopVars PROVE CommandSound'
      BY <2>3 DEF CommandInv, CommandSound, loopVars, allVars, vars, connVars, taskVars, serveVars
  <2>4. CommandSound'
      BY <2>1, <2>3, LoopKeepsCommand, InterruptKeepsCommand, MainKeepsCommand
         DEF SNext, CommandInv
  <2> QED
      BY <2>1, <2>2, <2>4 DEF CommandInv
<1> QED
    BY <1>1, <1>2, PTL DEF SSteps

(***************************************************************************)
(* The fairness of SSpec with the guards of its steps written out, as in   *)
(* RpcClientProofs, and only what ServeEnds needs: no timer, no pipeline   *)
(* and no answer of the server.  That the command gets the session's lock  *)
(* follows in SSpec from the fairness of the pipelines, each of which      *)
(* gives it back; here it is assumed, as what an asyncio.Lock promises.    *)
(***************************************************************************)
SPromptly(ready, A) == []<>~ready \/ []<><<A>>_loopVars

MainReady ==
    \/ main \in {"start", "closing"}
    \/ main = "pushing" /\ (pc[Token] \in {"idle", "sending"} \/ Woken(Token))
    \/ main = "serving" /\ reader \in {"ended", "failed"}
    \/ main = "closed" /\ closing = "idle"
    \/ main \in {"draining", "stopping"}

SPrompt ==
    /\ SPromptly(MainReady, MainStep /\ UNCHANGED handlerVars)
    /\ SPromptly(main = "locking", TakeLock /\ UNCHANGED handlerVars)
    /\ SPromptly(Suspended /\ CanHandle, Suspended /\ Handled /\ UNCHANGED serveVars)
    /\ SPromptly(Suspended /\ CanReply, Waiting(ReplySent \/ ReplyFails))
    /\ SPromptly(Suspended /\ CanSeeClose, Waiting(ReaderSeesClose))
    /\ SPromptly(Suspended /\ closing # "idle", Waiting(ClosingStep))

(* Where a command may be, on its way to the end.                          *)
Closing     == main = "closed" /\ closing # "idle"
Closed      == main = "closed" /\ closing = "idle"
Locking     == main = "locking"
Draining    == main = "draining"
Stopping    == main = "stopping"
Leaving     == main = "closing"
Over        == main = "ended"

(* How the command's task moves from there.                                *)
LEMMA LeavingStep ==
    ASSUME CommandInv, [SNext]_loopVars
    PROVE  /\ Leaving => Leaving' \/ main' = "closed"
           /\ Closed => Closed' \/ Locking' \/ Draining' \/ Stopping' \/ Over'
           /\ Closing => main' = "closed"
           /\ Locking => Locking' \/ Draining' \/ Stopping' \/ Over'
           /\ Draining => Draining' \/ Stopping' \/ Over'
           /\ Stopping => Stopping' \/ Over'
<1> USE DEF Leaving, Closed, Closing, Locking, Draining, Stopping, Over
<1>1. CASE LoopStep
    BY <1>1, LoopClosing
<1>2. CASE CloseSession
    BY <1>2, CloseSessionFrame
<1>3. CASE Open \/ OpenFails \/ PushToken \/ PushEnds \/ Served \/ CloseClient
    BY <1>3 DEF Open, OpenFails, PushToken, PushEnds, Served, CloseClient, Goto, serveVars
<1>4. CASE Interrupt
    BY <1>4 DEF Interrupt, CloseCancelled
<1>5. CASE UNCHANGED loopVars
    BY <1>5 DEF loopVars, allVars, vars, connVars, serveVars
<1> QED
    BY <1>1, <1>2, <1>3, <1>4, <1>5 DEF SNext, MainStep

(* session.close() ends: the command gets the lock, the cancelled drain    *)
(* task is over, and the process or the browser is stopped.                *)
LEMMA ReleasingEnds == SSteps /\ SPrompt => (Locking \/ Draining \/ Stopping ~> Over)
<1>1. CommandInv /\ [SNext]_loopVars =>
          /\ Locking => Locking' \/ Draining' \/ Stopping' \/ Over'
          /\ Draining => Draining' \/ Stopping' \/ Over'
          /\ Stopping => Stopping' \/ Over'
    BY LeavingStep
<1> USE DEF Locking, Draining, Stopping, Over
<1>2. <<TakeLock /\ UNCHANGED handlerVars>>_loopVars => Draining' \/ Stopping' \/ Over'
    BY DEF TakeLock, SessionEnds, Goto
<1>3. /\ Draining /\ <<MainStep /\ UNCHANGED handlerVars>>_loopVars => Stopping' \/ Over'
      /\ Stopping /\ <<MainStep /\ UNCHANGED handlerVars>>_loopVars => Over'
  <2>1. ASSUME Draining \/ Stopping, MainStep PROVE CloseSession
      BY <2>1 DEF MainStep, Open, OpenFails, PushToken, PushEnds, Served, CloseClient
  <2> QED
      BY <2>1, CloseSessionFrame
<1>4. (Locking => main = "locking") /\ (Draining \/ Stopping => MainReady)
    BY DEF MainReady
<1> QED
    BY <1>1, <1>2, <1>3, <1>4, CommandInvAlways, PTL DEF SSteps, SPrompt, SPromptly

(* A command that has begun to close its client ends.                      *)
LEMMA ClosingEnds == SSteps /\ SPrompt => (main = "closed" ~> Over)
<1> DEFINE C1 == main = "closed" /\ CanCancel
           C2 == main = "closed" /\ CanForget
           C3 == main = "closed" /\ CanCloseWs
<1>0. CommandInv /\ main = "closed" => C1 \/ C2 \/ C3 \/ Closed
    BY DEF CommandInv, Steady, Connection, ConnTypes, ConnSound, CanCancel, CanForget, CanCloseWs,
       Closed
<1>1. CommandInv /\ C1 /\ [SNext]_loopVars => C1' \/ C2' \/ C3' \/ Closed'
    BY CloseStep, ServeHInv, LeavingStep DEF CommandInv, Closing, Closed, CanCancel, CanForget,
       CanCloseWs, ReaderAwaits
<1>2. CommandInv /\ C2 /\ [SNext]_loopVars => C2' \/ C3' \/ Closed'
    BY CloseStep, ServeHInv, LeavingStep DEF CommandInv, Closing, Closed, CanForget, CanCloseWs
<1>3. CommandInv /\ C3 /\ [SNext]_loopVars => C3' \/ Closed'
    BY CloseStep, ServeHInv, LeavingStep DEF CommandInv, Closing, Closed, CanCloseWs
<1>4. CommandInv /\ Closed /\ [SNext]_loopVars
          => Closed' \/ Locking' \/ Draining' \/ Stopping' \/ Over'
    BY LeavingStep
<1>5. C1 /\ <<Waiting(ClosingStep)>>_loopVars => C2'
    BY DEF Waiting, ClosingStep, ReaderCancelled, CloseReaderDone, CloseRaises, CloseWs,
       connVars, serveVars, CanCancel, CanForget, ReaderAwaits
<1>6. C2 /\ <<Waiting(ClosingStep)>>_loopVars => C3' \/ Closed'
    BY DEF Waiting, ClosingStep, ReaderCancelled, CloseReaderDone, CloseRaises, CloseWs,
       connVars, serveVars, CanForget, CanCloseWs, Closed, ReaderAwaits
<1>7. C3 /\ <<Waiting(ClosingStep)>>_loopVars => Closed'
    BY DEF Waiting, ClosingStep, ReaderCancelled, CloseReaderDone, CloseRaises, CloseWs,
       serveVars, CanCloseWs, Closed
<1>8. Closed /\ <<MainStep /\ UNCHANGED handlerVars>>_loopVars
          => Locking' \/ Draining' \/ Stopping' \/ Over'
    BY CloseSessionFrame DEF MainStep, Open, OpenFails, PushToken, PushEnds, Served, CloseClient,
       Closed, Locking, Draining, Stopping, Over
<1>9. /\ C1 \/ C2 \/ C3 => Suspended /\ closing # "idle"
      /\ Closed => MainReady
    BY DEF CanCancel, CanForget, CanCloseWs, Suspended, Closed, MainReady
<1> HIDE DEF C1, C2, C3
<1> QED
    BY <1>0, <1>1, <1>2, <1>3, <1>4, <1>5, <1>6, <1>7, <1>8, <1>9, ReleasingEnds,
       CommandInvAlways, PTL DEF SSteps, SPrompt, SPromptly

(* The finally block of a command closes the client.                       *)
LEMMA LeavingEnds == SSteps /\ SPrompt => (Leaving ~> Over)
<1>1. CommandInv /\ Leaving /\ [SNext]_loopVars => Leaving' \/ (main = "closed")'
    BY LeavingStep
<1>2. Leaving /\ <<MainStep /\ UNCHANGED handlerVars>>_loopVars => (main = "closed")'
    BY CloseSessionFrame DEF MainStep, Open, OpenFails, PushToken, PushEnds, Served, CloseClient,
       Goto, Leaving
<1>3. Leaving => MainReady
    BY DEF Leaving, MainReady
<1> QED
    BY <1>1, <1>2, <1>3, ClosingEnds, CommandInvAlways, PTL DEF SSteps, SPrompt, SPromptly

(* The connection is lost while the command reports the token (m is        *)
(* "pushing") or serves ("serving"), with the reader at this await; and    *)
(* then the report is settled or the reader has stopped.                   *)
LostAt(m, place) ==
    /\ main = m /\ ws = "closed" /\ reader = place
    /\ m = "pushing" => pc[Token] = "waiting" /\ fut[Token] = "pending"

Roused(m) ==
    /\ main = m /\ ws = "closed"
    /\ IF m = "pushing" THEN Woken(Token) ELSE reader \in {"ended", "failed"}

(* The command's task does not move before it is roused.                   *)
LEMMA LostMainStays ==
    ASSUME CommandInv, [SNext]_loopVars, NEW m \in {"pushing", "serving"},
           NEW place \in ReaderAwaits, LostAt(m, place)
    PROVE  main' = m /\ closing' = "idle"
<1>0. closing = "idle"
    BY DEF CommandInv, CommandSound, LostAt
<1>1. CASE LoopStep
    BY <1>0, <1>1, LoopClosing, LoopKeepsClient DEF LostAt
<1>2. CASE MainStep
    BY <1>2, CloseSessionFrame DEF MainStep, Open, OpenFails, PushToken, PushEnds, Served,
       CloseClient, CallStart, CallSent, CallSendFails, CallResume, LostAt, ReaderAwaits
<1>3. CASE Interrupt
    BY <1>0, <1>3 DEF Interrupt, CallSendCancelled, TaskCancel, DisconnectWaitCancelled, connVars,
       vars, LostAt, ReaderAwaits
<1>4. CASE UNCHANGED loopVars
    BY <1>0, <1>4 DEF loopVars, allVars, vars, connVars, serveVars, LostAt
<1> QED
    BY <1>1, <1>2, <1>3, <1>4 DEF SNext

(* The reader goes on from await to await, or the command is roused.       *)
LEMMA LostStep ==
    ASSUME CommandInv, CommandInv', [SNext]_loopVars, NEW m \in {"pushing", "serving"},
           NEW place \in ReaderAwaits, LostAt(m, place)
    PROVE  \/ Roused(m)'
           \/ LostAt(m, place)'
           \/ place \in {"recv", "handling"} /\ LostAt(m, "replying")'
           \/ place = "recv" /\ LostAt(m, "handling")'
<1>1. main' = m /\ closing' = "idle" /\ [Next]_vars
    BY LostMainStays, ServeHInv DEF CommandInv
<1>2. ReaderMoves
    BY <1>1, NextMovesReader DEF CommandInv, LostAt
<1>3. /\ ws' = "closed"
      /\ \/ reader' \in {"ended", "failed"} \/ reader' = place
         \/ place \in {"recv", "handling"} /\ reader' = "replying"
         \/ place = "recv" /\ reader' = "handling"
  <2>1. ws' = "closed" /\ reader' \in ReaderAwaits \cup {"ended", "failed"}
      BY <1>1, <1>2 DEF ReaderMoves, LostAt, CommandInv, CommandSound, Steady, Connection,
         ConnTypes
  <2> QED
      BY <1>2, <2>1 DEF ReaderMoves, LostAt, ReaderAwaits
<1>4. CASE m = "pushing"
  <2>1. Token \in Tasks /\ Asleep(Token)
      BY <1>4, TokenAssumption DEF Tasks, Asleep, LostAt
  <2>2. Asleep(Token)' \/ Woken(Token)'
      BY <1>1, <2>1, SleepStep DEF CommandInv
  <2>3. CASE Woken(Token)'
      BY <1>1, <1>3, <1>4, <2>3 DEF Roused
  <2>4. CASE Asleep(Token)'
      BY <1>1, <1>3, <1>4, <2>4 DEF Asleep, LostAt, ReaderAwaits
  <2> QED
      BY <2>2, <2>3, <2>4
<1>5. CASE m = "serving"
    BY <1>1, <1>3, <1>5 DEF LostAt, Roused
<1> QED
    BY <1>4, <1>5

(* The step that ends the reader rouses the command.                       *)
LEMMA ReaderEndRouses ==
    ASSUME CommandInv, NEW m \in {"pushing", "serving"}, NEW place \in ReaderAwaits,
           LostAt(m, place), Cleanup, reader' \in {"ended", "failed"}, UNCHANGED <<connVars, main>>
    PROVE  Roused(m)'
<1>1. Token \in Tasks
    BY TokenAssumption DEF Tasks
<1>2. fut'[Token] # "pending" /\ pc' = pc
    BY <1>1, CleanupResolvesAll DEF CommandInv, Steady, Connection, Cleanup
<1> QED
    BY <1>2 DEF LostAt, Roused, Woken, connVars

(* A reader that replies on a lost connection fails.                       *)
LEMMA LostReplyRouses ==
    ASSUME NEW m \in {"pushing", "serving"}
    PROVE  SSteps /\ SPrompt => (LostAt(m, "replying") ~> Roused(m))
<1>1. CommandInv /\ CommandInv' /\ LostAt(m, "replying") /\ [SNext]_loopVars
          => LostAt(m, "replying")' \/ Roused(m)'
    BY LostStep DEF ReaderAwaits
<1>2. CommandInv /\ LostAt(m, "replying") /\ <<Waiting(ReplySent \/ ReplyFails)>>_loopVars
          => Roused(m)'
  <2> SUFFICES ASSUME CommandInv, LostAt(m, "replying"), Waiting(ReplySent \/ ReplyFails)
               PROVE  Roused(m)'
      OBVIOUS
  <2>1. ReplyFails /\ UNCHANGED main
      BY DEF Waiting, ReplySent, LostAt, serveVars
  <2>2. Cleanup /\ reader' = "failed" /\ UNCHANGED connVars
      BY <2>1 DEF ReplyFails, ReaderFails
  <2> QED
      BY <2>1, <2>2, ReaderEndRouses DEF ReaderAwaits
<1>3. CommandInv /\ LostAt(m, "replying") => Suspended /\ CanReply
    BY DEF CommandInv, CommandSound, LostAt, Suspended, CanReply, ReaderRuns
<1> QED
    BY <1>1, <1>2, <1>3, CommandInvAlways, PTL DEF SSteps, SPrompt, SPromptly

(* receive_envelope has started its pipeline and returns.                  *)
LEMMA LostHandlingRouses ==
    ASSUME NEW m \in {"pushing", "serving"}
    PROVE  SSteps /\ SPrompt => (LostAt(m, "handling") ~> Roused(m))
<1>1. CommandInv /\ CommandInv' /\ LostAt(m, "handling") /\ [SNext]_loopVars
          => LostAt(m, "handling")' \/ LostAt(m, "replying")' \/ Roused(m)'
    BY LostStep DEF ReaderAwaits
<1>2. LostAt(m, "handling") /\ <<Suspended /\ Handled /\ UNCHANGED serveVars>>_loopVars
          => LostAt(m, "replying")'
    BY DEF Handled, HandlingDone, connVars, taskVars, serveVars, LostAt
<1>3. CommandInv /\ LostAt(m, "handling") => Suspended /\ CanHandle
    BY DEF CommandInv, CommandSound, LostAt, Suspended, CanHandle, ReaderRuns
<1> QED
    BY <1>1, <1>2, <1>3, LostReplyRouses, CommandInvAlways, PTL DEF SSteps, SPrompt, SPromptly

(* recv() raises ConnectionClosed, at once or after the frames that came   *)
(* before.                                                                 *)
LEMMA LostRecvRouses ==
    ASSUME NEW m \in {"pushing", "serving"}
    PROVE  SSteps /\ SPrompt => (LostAt(m, "recv") ~> Roused(m))
<1>1. CommandInv /\ CommandInv' /\ LostAt(m, "recv") /\ [SNext]_loopVars
          => LostAt(m, "recv")' \/ LostAt(m, "handling")' \/ LostAt(m, "replying")' \/ Roused(m)'
    BY LostStep DEF ReaderAwaits
<1>2. CommandInv /\ LostAt(m, "recv") /\ <<Waiting(ReaderSeesClose)>>_loopVars => Roused(m)'
  <2> SUFFICES ASSUME CommandInv, LostAt(m, "recv"), Waiting(ReaderSeesClose)
               PROVE  Roused(m)'
      OBVIOUS
  <2>1. Cleanup /\ reader' = "ended" /\ UNCHANGED <<connVars, main>>
      BY DEF Waiting, ReaderSeesClose, serveVars
  <2> QED
      BY <2>1, ReaderEndRouses DEF ReaderAwaits
<1>3. CommandInv /\ LostAt(m, "recv") => Suspended /\ CanSeeClose
    BY DEF CommandInv, CommandSound, LostAt, Suspended, CanSeeClose, ReaderRuns
<1> QED
    BY <1>1, <1>2, <1>3, LostReplyRouses, LostHandlingRouses, CommandInvAlways, PTL
       DEF SSteps, SPrompt, SPromptly

(* What makes a command end, and where it may then be before it closes.    *)
Doomed   == ctrlC \/ ws = "closed" \/ reader = "failed"
Sending  == Doomed /\ main = "pushing" /\ pc[Token] = "sending"
Reported == Doomed /\ main = "pushing" /\ Woken(Token)
Stopped  == main = "serving" /\ reader \in {"ended", "failed"}
DoomedAt(m) == Doomed /\ main = m
Lost(m)  == LostAt(m, "recv") \/ LostAt(m, "handling") \/ LostAt(m, "replying")

(* There is nowhere else: a report is pending only beside a living reader, *)
(* Ctrl-C settles it, and a command that serves after Ctrl-C has no reader *)
(* any more.                                                               *)
LEMMA DoomedCases ==
    ASSUME CommandInv, Doomed
    PROVE  /\ main = "pushing" => Sending \/ Reported \/ Lost("pushing")
           /\ main = "serving" => Stopped \/ Lost("serving")
<1>1. /\ CommandSound /\ reader \in ReaderAwaits \cup {"none", "ended", "failed"}
      /\ Token \in Tasks
    BY TokenAssumption DEF CommandInv, Steady, Connection, ConnTypes, Tasks
<1>2. fut[Token] = "pending" => interrupt[Token] = "none"
    BY <1>1 DEF CommandInv, Steady, Fresh
<1>3. ASSUME main = "pushing" PROVE Sending \/ Reported \/ Lost("pushing")
  <2>1. pc[Token] \in {"sending", "waiting"}
      BY <1>1, <1>3 DEF CommandSound, Doomed
  <2>2. CASE pc[Token] = "waiting" /\ fut[Token] = "pending"
    <3>1. reader \in ReaderAwaits /\ ws = "closed"
        BY <1>1, <1>2, <1>3, <2>2 DEF CommandSound, Doomed, ReaderAwaits
    <3> QED
        BY <1>3, <2>2, <3>1 DEF Lost, LostAt, ReaderAwaits
  <2> QED
      BY <1>3, <2>1, <2>2 DEF Sending, Reported, Woken
<1>4. ASSUME main = "serving" PROVE Stopped \/ Lost("serving")
    BY <1>1, <1>4 DEF CommandSound, Doomed, Stopped, Lost, LostAt, ReaderAwaits
<1> QED
    BY <1>3, <1>4

(* Until the command closes the client, a lost connection, a failed reader *)
(* and Ctrl-C stay, and the command goes on only towards its end.          *)
LEMMA DoomStays ==
    ASSUME CommandInv, [SNext]_loopVars, main \in {"pushing", "serving"}
    PROVE  /\ Doomed => Doomed'
           /\ main = "pushing" => main' \in {"pushing", "serving", "closing"}
           /\ main = "serving" => main' \in {"serving", "closing"}
           /\ Stopped => Stopped' \/ Leaving'
<1>0. closing = "idle"
    BY DEF CommandInv, CommandSound
<1> USE DEF Doomed, Stopped, Leaving, connVars
<1>1. CASE LoopStep
  <2>1. UNCHANGED <<main, ctrlC>>
      BY <1>1, UseSessionFrame DEF LoopStep, Waiting, PipelineStep, serveVars
  <2> QED
      BY <1>0, <1>1, <2>1, LoopKeepsClient DEF ReaderAwaits
<1>2. CASE MainStep
    BY <1>2, CloseSessionFrame DEF MainStep, Open, OpenFails, PushToken, PushEnds, Served,
       CloseClient, CallStart, CallSent, CallSendFails, CallResume, Goto, serveVars, vars
<1>3. CASE Interrupt
    BY <1>3 DEF Interrupt, CallSendCancelled, TaskCancel, DisconnectWaitCancelled, vars,
       ReaderAwaits
<1>4. CASE UNCHANGED loopVars
    BY <1>4 DEF loopVars, allVars, vars, serveVars
<1> QED
    BY <1>1, <1>2, <1>3, <1>4 DEF SNext

(* wait_until_disconnected returns when the reader has stopped.            *)
LEMMA StoppedEnds == SSteps /\ SPrompt => (Stopped ~> Over)
<1>1. CommandInv /\ Stopped /\ [SNext]_loopVars => Stopped' \/ Leaving'
    BY DoomStays DEF Stopped
<1>2. Stopped /\ <<MainStep /\ UNCHANGED handlerVars>>_loopVars => Leaving'
    BY CloseSessionFrame DEF MainStep, Open, OpenFails, PushToken, PushEnds, Served, CloseClient,
       Goto, Stopped, Leaving
<1>3. Stopped => MainReady
    BY DEF Stopped, MainReady
<1> QED
    BY <1>1, <1>2, <1>3, LeavingEnds, CommandInvAlways, PTL DEF SSteps, SPrompt, SPromptly

(* A command that serves ends when its connection is lost.                 *)
LEMMA LostServingEnds == SSteps /\ SPrompt => (Lost("serving") ~> Over)
<1> SUFFICES ASSUME NEW m \in {"pushing", "serving"}, m = "serving"
             PROVE  SSteps /\ SPrompt => (Lost("serving") ~> Over)
    OBVIOUS
<1>1. Lost("serving") => LostAt(m, "recv") \/ LostAt(m, "handling") \/ LostAt(m, "replying")
    BY DEF Lost
<1>2. Roused(m) => Stopped
    BY DEF Roused, Stopped
<1> QED
    BY <1>1, <1>2, LostRecvRouses, LostHandlingRouses, LostReplyRouses, StoppedEnds, PTL

(* A report that is settled ends, and what dooms the command remains.      *)
LEMMA ReportedEnds == SSteps /\ SPrompt => (Reported ~> Over)
<1>1. CommandInv /\ CommandInv' /\ Reported /\ [SNext]_loopVars
          => Reported' \/ Leaving' \/ DoomedAt("serving")'
  <2> SUFFICES ASSUME CommandInv, CommandInv', Reported, [SNext]_loopVars
               PROVE  Reported' \/ Leaving' \/ DoomedAt("serving")'
      OBVIOUS
  <2>1. Doomed' /\ main' \in {"pushing", "serving", "closing"}
      BY DoomStays DEF Reported
  <2>2. CASE main' = "pushing"
    <3>1. Token \in Tasks /\ [Next]_vars /\ fut[Token] \in {"result", "cancelled"}
        BY TokenAssumption, ServeHInv DEF Tasks, CommandInv, Reported, Woken, Steady, Fresh,
           Connection, Tables, TableTypes
    <3>2. TaskMoves(Token)
        BY <3>1, NextMovesTasks DEF CommandInv
    <3>3. pc'[Token] = "waiting" /\ fut'[Token] # "pending"
        BY <2>2, <3>1, <3>2 DEF TaskMoves, Reported, Woken, CommandInv, CommandSound, Finished
    <3> QED
        BY <2>1, <2>2, <3>3 DEF Reported, Woken
  <2> QED
      BY <2>1, <2>2 DEF Leaving, DoomedAt
<1>2. Reported /\ <<MainStep /\ UNCHANGED handlerVars>>_loopVars => ~Reported'
    BY CloseSessionFrame DEF MainStep, Open, OpenFails, PushToken, PushEnds, Served, CloseClient,
       CallStart, CallSent, Goto, Reported, Woken
<1>3. Reported => MainReady
    BY DEF Reported, MainReady
<1>4. CommandInv /\ DoomedAt("serving") => Stopped \/ Lost("serving")
    BY DoomedCases DEF DoomedAt
<1> QED
    BY <1>1, <1>2, <1>3, <1>4, LeavingEnds, StoppedEnds, LostServingEnds, CommandInvAlways, PTL
       DEF SSteps, SPrompt, SPromptly

(* A report that is pending when the connection is lost is cancelled.      *)
LEMMA LostPushingEnds == SSteps /\ SPrompt => (Lost("pushing") ~> Over)
<1> SUFFICES ASSUME NEW m \in {"pushing", "serving"}, m = "pushing"
             PROVE  SSteps /\ SPrompt => (Lost("pushing") ~> Over)
    OBVIOUS
<1>1. Lost("pushing") => LostAt(m, "recv") \/ LostAt(m, "handling") \/ LostAt(m, "replying")
    BY DEF Lost
<1>2. Roused(m) => Reported
    BY DEF Roused, Reported, Doomed
<1> QED
    BY <1>1, <1>2, LostRecvRouses, LostHandlingRouses, LostReplyRouses, ReportedEnds, PTL

(* The send of the report ends, and then the report is as above.           *)
LEMMA SendingEnds == SSteps /\ SPrompt => (Sending ~> Over)
<1>1. CommandInv /\ Sending /\ [SNext]_loopVars
          => Leaving' \/ DoomedAt("pushing")' \/ DoomedAt("serving")'
    BY DoomStays DEF Sending, Leaving, DoomedAt
<1>2. CommandInv /\ Sending /\ <<MainStep /\ UNCHANGED handlerVars>>_loopVars => ~Sending'
  <2>1. CommandInv => Token \in Tasks /\ pc \in [Tasks -> Finished \cup {"idle", "sending", "waiting"}]
      BY TokenAssumption DEF Tasks, CommandInv, Steady, Connection, Tables, TableTypes
  <2> QED
      BY <2>1, CloseSessionFrame DEF MainStep, Open, OpenFails, PushToken, PushEnds, Served,
         CloseClient, CallStart, CallSent, CallSendFails, CallResume, Goto, Sending
<1>3. Sending => MainReady
    BY DEF Sending, MainReady
<1>4. /\ CommandInv /\ DoomedAt("pushing") => Sending \/ Reported \/ Lost("pushing")
      /\ CommandInv /\ DoomedAt("serving") => Stopped \/ Lost("serving")
    BY DoomedCases DEF DoomedAt
<1> QED
    BY <1>1, <1>2, <1>3, <1>4, LeavingEnds, StoppedEnds, ReportedEnds, LostPushingEnds,
       LostServingEnds, CommandInvAlways, PTL DEF SSteps, SPrompt, SPromptly

(* ServeEnds: demo, adb and playwright end when the connection is lost,    *)
(* when the reader fails and on Ctrl-C, also while the report of the token *)
(* is pending, whatever the server, pipelines and handlers do.             *)
THEOREM CommandsEnd == SSteps /\ SPrompt => ServeEnds
<1>1. CommandInv /\ main # "start" /\ (ctrlC \/ ws = "closed" \/ reader = "failed")
          => \/ Sending \/ Reported \/ Lost("pushing") \/ Stopped \/ Lost("serving")
             \/ Leaving \/ main = "closed" \/ Locking \/ Draining \/ Stopping \/ Over
    BY DoomedCases DEF CommandInv, CommandSound, Doomed, Leaving, Locking, Draining, Stopping, Over
<1>2. Over <=> main = "ended"
    BY DEF Over
<1> QED
    BY <1>1, <1>2, SendingEnds, ReportedEnds, LostPushingEnds, StoppedEnds, LostServingEnds,
       LeavingEnds, ClosingEnds, ReleasingEnds, CommandInvAlways, PTL DEF ServeEnds

=============================================================================
