-------------------------- MODULE ChunkReassembler --------------------------
(***************************************************************************)
(* The chunked transport of rpcproxy (src/rpcproxy/client/chunking.py): a  *)
(* large body is cut into chunk envelopes by encode_chunked_bodies, the    *)
(* relay carries the envelopes, and the receiver's ChunkReassembler.push   *)
(* collects them until the body is complete.                               *)
(*                                                                         *)
(* Bytes are elements of sequences; base64 and JSON text are left out.     *)
(* SHA-256 is taken to be collision free (see Sha256).  The relay          *)
(* is external: it may reorder, lose and duplicate envelopes (at most      *)
(* CopiesOf(e) copies of e arrive) and may damage them (Damaged).          *)
(***************************************************************************)
EXTENDS Naturals, Sequences, FiniteSets, SequencesExt

CONSTANTS
    Transfers,    \* transfer ids (uuid4 per encode_chunked_bodies call)
    Posted,       \* the encoded bytes of the body posted under each transfer
    ChunkSize,    \* chunk_size of the sender
    Damaged,      \* chunk envelopes that differ from what the sender produced
    MaxPending,   \* chunk_reassembly_max_pending of the receiver
    MaxCopies     \* bound: how many copies of each genuine chunk of a transfer can arrive

VARIABLES
    pending,      \* _pending: OrderedDict of _PendingTransfer, oldest first
    copies,       \* copies of each envelope that may still arrive
    delivered,    \* history: the <<transfer, bytes>> pairs returned complete
    deliveries,   \* history: how many times each transfer was returned
    rejected,     \* history: transfers for which push raised
    dropped,      \* history: transfers evicted or cleared while incomplete
    since         \* history: transfers touched since this one was last touched

vars == <<pending, copies, delivered, deliveries, rejected, dropped, since>>

-----------------------------------------------------------------------------
(***************************************************************************)
(* The sender: encode_chunked_bodies                                       *)
(***************************************************************************)

(* Slices of ChunkSize bytes; an empty payload is one empty chunk.         *)
ChunkCount(bytes) ==
    IF bytes = <<>> THEN 1 ELSE (Len(bytes) + ChunkSize - 1) \div ChunkSize

(* Mutant of Slice: the slice also takes the byte after it.                *)
SliceOverlapping(bytes, index) ==
    SubSeq(bytes, index * ChunkSize + 1,
           IF (index + 1) * ChunkSize < Len(bytes)
           THEN (index + 1) * ChunkSize + 1 ELSE Len(bytes))

Slice(bytes, index) ==
    SubSeq(bytes, index * ChunkSize + 1,
           IF (index + 1) * ChunkSize < Len(bytes)
           THEN (index + 1) * ChunkSize ELSE Len(bytes))

(* A collision free digest: equal digests, equal bytes.  The empty set is  *)
(* a damaged digest, which is the digest of nothing.                       *)
Sha256(bytes) == {bytes}

(* The chunk metadata of a transfer; content_encoding stays abstract: it   *)
(* is part of the metadata that all chunks of a transfer must agree on.    *)
Meta(t) ==
    [count |-> ChunkCount(Posted[t]), total |-> Len(Posted[t]),
     sha |-> Sha256(Posted[t]), encoding |-> "identity"]

Encoded(t) ==
    {[tid |-> t, meta |-> Meta(t), index |-> i, data |-> Slice(Posted[t], i)] :
        i \in 0 .. ChunkCount(Posted[t]) - 1}

Genuine == UNION {Encoded(t) : t \in Transfers}

Envelopes == Genuine \cup Damaged

(* What may be wrong with a damaged envelope: any field but the transfer   *)
(* id; a damaged digest matches nothing.  A count of 0 or an index out of  *)
(* range also stands for the other fields push refuses before it looks at  *)
(* its table (content_type, base64 text, numbers that are not numbers).    *)
ASSUME ChunkSizeAssumption == ChunkSize \in Nat \ {0}

ASSUME MaxPendingAssumption == MaxPending \in Nat \ {0}

ASSUME MaxCopiesAssumption == MaxCopies \in [Transfers -> Nat]

ASSUME TransfersAssumption == IsFiniteSet(Transfers)

ASSUME PostedAssumption == \A t \in Transfers : Posted[t] \in Seq(Range(Posted[t]))

ASSUME DamagedAssumption ==
    \A e \in Damaged :
        /\ e.tid \in Transfers
        /\ e.meta.count \in Nat
        /\ e.meta.sha \in {Sha256(Posted[e.tid]), {}}

-----------------------------------------------------------------------------
(***************************************************************************)
(* The receiver: ChunkReassembler                                          *)
(***************************************************************************)
Tids(s) == {s[k].tid : k \in DOMAIN s}

Position(s, t) == CHOOSE k \in DOMAIN s : s[k].tid = t

(* Mutant of EvictIfNeeded: the most recent other transfer goes.           *)
EvictNewest(s) ==
    IF Len(s) > MaxPending THEN Append(SubSeq(s, 1, MaxPending - 1), Last(s)) ELSE s

(* popitem(last=False) until at most max_pending transfers are left.       *)
EvictIfNeeded(s) ==
    IF Len(s) > MaxPending THEN SubSeq(s, Len(s) - MaxPending + 1, Len(s)) ELSE s

(* A new _PendingTransfer, with no chunks yet.                             *)
Fresh(e) == [tid |-> e.tid, meta |-> e.meta, chunks |-> [i \in {} |-> <<>>]]

(* The table after the lookup of the pushed chunk's transfer, which is now *)
(* its last entry: inserted, with an eviction, or moved to the end.        *)
Touched(e) ==
    IF e.tid \in Tids(pending)
    THEN LET k == Position(pending, e.tid)
         IN  Append(RemoveAt(pending, k), pending[k])
    ELSE EvictIfNeeded(Append(pending, Fresh(e)))

Others(e) == Front(Touched(e))

State(e) == Last(Touched(e))

(* The chunks of the transfer once the pushed one is stored.               *)
Stored(e) ==
    [i \in DOMAIN State(e).chunks \cup {e.index} |->
        IF i \in DOMAIN State(e).chunks THEN State(e).chunks[i] ELSE e.data]

Join(chunks, count) == FlattenSeq([j \in 1 .. count |-> chunks[j - 1]])

(* Mutant of Verified: the digest is not compared.                         *)
VerifiedByLength(bytes, meta) ==
    Len(bytes) = meta.total /\ meta.encoding \in {"identity", "gzip"}

(* Checks on the joined payload: its length, its digest, and a known       *)
(* content_encoding (what decodes to a JSON object at the sender decodes   *)
(* to the same object at the receiver).                                    *)
Verified(bytes, meta) ==
    /\ Len(bytes) = meta.total
    /\ Sha256(bytes) = meta.sha
    /\ meta.encoding \in {"identity", "gzip"}

(* Mutant of WellFormed: an index equal to the count passes.               *)
WellFormedOffByOne(e) == e.meta.count >= 1 /\ e.index \in 0 .. e.meta.count

(* Checks before the table is looked at.                                   *)
WellFormed(e) == e.meta.count >= 1 /\ e.index \in 0 .. e.meta.count - 1

Consistent(e) == State(e).meta = e.meta

Conflicting(e) ==
    e.index \in DOMAIN State(e).chunks /\ State(e).chunks[e.index] # e.data

Payload(e) == Join(Stored(e), State(e).meta.count)

Completes(e) == Cardinality(DOMAIN Stored(e)) = State(e).meta.count

-----------------------------------------------------------------------------
(* Bound: a genuine envelope arrives MaxCopies times at most, a damaged    *)
(* one once.                                                               *)
CopiesOf(e) == IF e \in Damaged THEN 1 ELSE MaxCopies[e.tid]

Init ==
    /\ pending = <<>>
    /\ copies = [e \in Envelopes |-> CopiesOf(e)]
    /\ delivered = {}
    /\ deliveries = [t \in Transfers |-> 0]
    /\ rejected = {}
    /\ dropped = {}
    /\ since = [t \in Transfers |-> {}]

(* One copy of e reaches the receiver and is pushed.                       *)
Arrives(e) ==
    /\ copies[e] > 0
    /\ copies' = [copies EXCEPT ![e] = @ - 1]

(* History of the table lookup: who was touched, who was evicted.          *)
Touch(e) ==
    /\ since' = [t \in Transfers |-> IF t = e.tid THEN {} ELSE since[t] \cup {e.tid}]
    /\ dropped' = dropped \cup (Tids(pending) \ Tids(Touched(e)))

(* push raises before it looks at the table.                               *)
PushMalformed(e) ==
    /\ Arrives(e)
    /\ ~WellFormed(e)
    /\ rejected' = rejected \cup {e.tid}
    /\ UNCHANGED <<pending, delivered, deliveries, dropped, since>>

(* push raises on metadata that disagree with the first chunk's, or on     *)
(* other bytes for a chunk already held; the transfer was moved to the end.*)
PushRejected(e) ==
    /\ Arrives(e)
    /\ WellFormed(e)
    /\ ~Consistent(e) \/ Conflicting(e)
    /\ pending' = Touched(e)
    /\ rejected' = rejected \cup {e.tid}
    /\ Touch(e)
    /\ UNCHANGED <<delivered, deliveries>>

(* Mutant of PushPartial: a transfer begins with its chunk 0.              *)
PushPartialInOrder(e) ==
    /\ Arrives(e)
    /\ WellFormed(e)
    /\ Consistent(e) /\ ~Conflicting(e)
    /\ ~Completes(e)
    /\ pending' = IF e.index = 0
                  THEN Append(Others(e), [State(e) EXCEPT !.chunks = Stored(e)])
                  ELSE Others(e)
    /\ Touch(e)
    /\ UNCHANGED <<delivered, deliveries, rejected>>

(* The chunk is stored (or is a duplicate) and others are missing.         *)
PushPartial(e) ==
    /\ Arrives(e)
    /\ WellFormed(e)
    /\ Consistent(e) /\ ~Conflicting(e)
    /\ ~Completes(e)
    /\ pending' = Append(Others(e), [State(e) EXCEPT !.chunks = Stored(e)])
    /\ Touch(e)
    /\ UNCHANGED <<delivered, deliveries, rejected>>

(* Mutant of PushComplete: the completed transfer stays in the table.      *)
PushCompleteKeeping(e) ==
    /\ Arrives(e)
    /\ WellFormed(e)
    /\ Consistent(e) /\ ~Conflicting(e)
    /\ Completes(e)
    /\ Verified(Payload(e), State(e).meta)
    /\ pending' = Append(Others(e), [State(e) EXCEPT !.chunks = Stored(e)])
    /\ delivered' = delivered \cup {<<e.tid, Payload(e)>>}
    /\ deliveries' = [deliveries EXCEPT ![e.tid] = @ + 1]
    /\ Touch(e)
    /\ UNCHANGED rejected

(* Mutant of PushComplete: the chunks held before the last one stay.       *)
PushCompleteRemembering(e) ==
    /\ Arrives(e)
    /\ WellFormed(e)
    /\ Consistent(e) /\ ~Conflicting(e)
    /\ Completes(e)
    /\ Verified(Payload(e), State(e).meta)
    /\ pending' = IF e.tid \in Tids(pending) THEN Touched(e) ELSE Others(e)
    /\ delivered' = delivered \cup {<<e.tid, Payload(e)>>}
    /\ deliveries' = [deliveries EXCEPT ![e.tid] = @ + 1]
    /\ Touch(e)
    /\ UNCHANGED rejected

(* The last missing chunk: the transfer leaves the table, then the joined  *)
(* payload is verified and either returned ...                             *)
PushComplete(e) ==
    /\ Arrives(e)
    /\ WellFormed(e)
    /\ Consistent(e) /\ ~Conflicting(e)
    /\ Completes(e)
    /\ Verified(Payload(e), State(e).meta)
    /\ pending' = Others(e)
    /\ delivered' = delivered \cup {<<e.tid, Payload(e)>>}
    /\ deliveries' = [deliveries EXCEPT ![e.tid] = @ + 1]
    /\ Touch(e)
    /\ UNCHANGED rejected

(* ... or refused.                                                         *)
PushCorrupt(e) ==
    /\ Arrives(e)
    /\ WellFormed(e)
    /\ Consistent(e) /\ ~Conflicting(e)
    /\ Completes(e)
    /\ ~Verified(Payload(e), State(e).meta)
    /\ pending' = Others(e)
    /\ rejected' = rejected \cup {e.tid}
    /\ Touch(e)
    /\ UNCHANGED <<delivered, deliveries>>

(* clear(), called by RpcProxyClientBase.close.                            *)
Clear ==
    /\ pending # <<>>
    /\ pending' = <<>>
    /\ dropped' = dropped \cup Tids(pending)
    /\ UNCHANGED <<copies, delivered, deliveries, rejected, since>>

Push(e) ==
    \/ PushMalformed(e)
    \/ PushRejected(e)
    \/ PushPartial(e)
    \/ PushComplete(e)
    \/ PushCorrupt(e)

Next == Clear \/ \E e \in Envelopes : Push(e)

Spec == Init /\ [][Next]_vars

-----------------------------------------------------------------------------
(***************************************************************************)
(* Properties                                                              *)
(***************************************************************************)

(* A stored transfer: its metadata and the chunks received so far.         *)
Entries ==
    {p \in [tid : Transfers, meta : {e.meta : e \in Envelopes},
            chunks : UNION {[D -> {e.data : e \in Envelopes}] :
                            D \in SUBSET {e.index : e \in Envelopes}}] :
        /\ DOMAIN p.chunks \subseteq 0 .. p.meta.count - 1
        /\ p.meta \in {e.meta : e \in {f \in Envelopes : f.tid = p.tid}}}

(* Every variable keeps its shape; a stored chunk's index is in range.     *)
TypeOK ==
    /\ pending \in Seq(Entries)
    /\ copies \in [Envelopes -> Nat]
    /\ deliveries \in [Transfers -> Nat]
    /\ DOMAIN since = Transfers /\ \A t \in Transfers : since[t] \subseteq Transfers
    /\ rejected \subseteq Transfers
    /\ dropped \subseteq Transfers

(* The table never holds more than max_pending transfers nor one transfer  *)
(* twice, and no transfer waits in it that could have been delivered: each *)
(* holds at least one chunk and still misses one.  (push must pop what it  *)
(* completes, and must store before it counts.)                            *)
TableSound ==
    /\ Len(pending) <= MaxPending
    /\ \A i, j \in DOMAIN pending : pending[i].tid = pending[j].tid => i = j
    /\ \A i \in DOMAIN pending :
          Cardinality(DOMAIN pending[i].chunks) \in 1 .. pending[i].meta.count - 1

(* The table is ordered by recency of use: whoever sits behind a transfer  *)
(* was touched after it.                                                   *)
RecencyOrder ==
    \A i, j \in DOMAIN pending : i < j => pending[j].tid \in since[pending[i].tid]

(* A transfer is evicted only by max_pending other transfers that were all *)
(* active since its own last chunk: move_to_end makes the eviction LRU, so *)
(* a transfer that keeps receiving chunks is not pushed out by newcomers.  *)
(* (since'[t] is empty for the transfer pushed itself, which may complete.)*)
EvictedOnlyWhenStale ==
    [][copies' # copies =>
          \A t \in Tids(pending) \ Tids(pending') :
              since'[t] = {} \/ Cardinality(since'[t]) >= MaxPending]_vars

(* What the receiver hands to the application is what was posted, whatever *)
(* order, duplicates and damage the relay produced.                        *)
DeliveredIsPosted == \A d \in delivered : d[2] = Posted[d[1]]

Arrived(e) == CopiesOf(e) - copies[e]

(* The copies of chunk i of transfer t that have arrived.                  *)
ArrivedCopies(t, i) ==
    UNION {{e} \X (1 .. Arrived(e)) : e \in {f \in Envelopes : f.tid = t /\ f.index = i}}

(* The relay has cut the payload anew, into fewer chunks.                  *)
Recut(t) == \E e \in Damaged : e.tid = t /\ e.meta.count < ChunkCount(Posted[t])

(* Each delivery uses up a copy of every chunk of the transfer: duplicates *)
(* of some of the chunks never make the body appear twice. (A relay that   *)
(* cuts a body into fewer chunks is not bound by the sender's cut.)        *)
DeliveriesPaid ==
    \A t \in Transfers : Recut(t) \/ \A i \in 0 .. ChunkCount(Posted[t]) - 1 :
        deliveries[t] <= Cardinality(ArrivedCopies(t, i))

Untouched(t) == \A e \in Damaged : e.tid = t => Arrived(e) = 0

(* push raises only for transfers a damaged envelope of which arrived: no  *)
(* order or repetition of what encode_chunked_bodies produces, and no      *)
(* eviction, makes a genuine transfer inconsistent or fail its checks.     *)
OnlyDamageIsRejected == \A t \in rejected : ~Untouched(t)

(* When every chunk of an undamaged transfer has arrived, in any order,    *)
(* and the transfer was never evicted or cleared, it has been delivered.   *)
DeliveredWhenAllArrived ==
    \A t \in Transfers :
        /\ Untouched(t)
        /\ t \notin dropped
        /\ \A e \in Encoded(t) : Arrived(e) > 0
        => deliveries[t] > 0

=============================================================================
