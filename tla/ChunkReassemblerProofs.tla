----------------------- MODULE ChunkReassemblerProofs -----------------------
(***************************************************************************)
(* Proofs about ChunkReassembler for every set of transfers, bodies, chunk *)
(* size, table size and damage.                                            *)
(***************************************************************************)
EXTENDS ChunkReassembler, TLAPS, SequenceTheorems, FiniteSetTheorems

(* The order of the integers, in the form the table positions need.        *)
LEMMA LessOrEqual == \A a, b \in Int : a <= b => a < b \/ a = b
    OBVIOUS

(* The last entry of a table, and what is before it.                       *)
LEMMA FrontLastOfAppend ==
    ASSUME NEW S, NEW s \in Seq(S), NEW x \in S
    PROVE  Front(Append(s, x)) = s /\ Last(Append(s, x)) = x
<1> DEFINE a == Append(s, x)
<1>1. /\ a \in Seq(S) /\ Len(a) = Len(s) + 1 /\ Len(s) \in Nat
      /\ \A i \in 1 .. Len(s) : a[i] = s[i]
      /\ a[Len(s) + 1] = x
    BY AppendProperties, LenProperties
<1>2. \A i \in 1 .. Len(s) : a[i] \in S
    BY <1>1, ElementOfSeq
<1> HIDE DEF a
<1>3. /\ SubSeq(a, 1, Len(s)) \in Seq(S)
      /\ Len(SubSeq(a, 1, Len(s))) = Len(s)
      /\ \A i \in 1 .. Len(s) : SubSeq(a, 1, Len(s))[i] = a[i]
    BY <1>1, <1>2, SubSeqProperties
<1>4. SubSeq(a, 1, Len(s)) = s
    BY <1>1, <1>3, SeqEqual
<1>5. Front(a) = s
    BY <1>1, <1>4 DEF Front
<1>6. Last(a) = x
    BY <1>1 DEF Last
<1> QED
    BY <1>5, <1>6 DEF a

(* Removing one place from a sequence keeps the rest in order.             *)
LEMMA RemoveAtKeepsOrder ==
    ASSUME NEW S, NEW s \in Seq(S), NEW k \in DOMAIN s
    PROVE  /\ RemoveAt(s, k) \in Seq(S)
           /\ Len(RemoveAt(s, k)) = Len(s) - 1
           /\ \A i \in 1 .. Len(s) - 1 :
                 RemoveAt(s, k)[i] = IF i < k THEN s[i] ELSE s[i + 1]
<1>1. /\ Len(s) \in Nat /\ k \in 1 .. Len(s)
      /\ \A i \in 1 .. Len(s) : s[i] \in S
    BY LenProperties, ElementOfSeq
<1> DEFINE l == SubSeq(s, 1, k - 1)
           r == SubSeq(s, k + 1, Len(s))
<1>2. /\ l \in Seq(S) /\ Len(l) = k - 1
      /\ \A i \in 1 .. k - 1 : l[i] = s[i]
  <2>1. \A i \in 1 .. k - 1 : s[i] \in S
      BY <1>1
  <2>2. k - 1 \in Int /\ 1 \in Int
      BY <1>1
  <2>3. /\ l \in Seq(S) /\ Len(l) = IF 1 <= k - 1 THEN k - 1 - 1 + 1 ELSE 0
        /\ \A i \in 1 .. k - 1 - 1 + 1 : l[i] = s[1 + i - 1]
      BY <2>1, <2>2, SubSeqProperties
  <2> QED
      BY <1>1, <2>3
<1>3. /\ r \in Seq(S) /\ Len(r) = Len(s) - k
      /\ \A i \in 1 .. Len(s) - k : r[i] = s[k + i]
  <2>1. \A i \in k + 1 .. Len(s) : s[i] \in S
      BY <1>1
  <2>2. k + 1 \in Int /\ Len(s) \in Int
      BY <1>1
  <2>3. /\ r \in Seq(S) /\ Len(r) = IF k + 1 <= Len(s) THEN Len(s) - (k + 1) + 1 ELSE 0
        /\ \A i \in 1 .. Len(s) - (k + 1) + 1 : r[i] = s[(k + 1) + i - 1]
      BY <2>1, <2>2, SubSeqProperties
  <2> QED
      BY <1>1, <2>3
<1> HIDE DEF l, r
<1>4. /\ l \o r \in Seq(S) /\ Len(l \o r) = Len(s) - 1
      /\ \A i \in 1 .. Len(s) - 1 :
            (l \o r)[i] = IF i <= k - 1 THEN l[i] ELSE r[i - (k - 1)]
  <2>1. /\ l \o r \in Seq(S) /\ Len(l \o r) = Len(l) + Len(r)
        /\ \A i \in 1 .. Len(l) + Len(r) :
              (l \o r)[i] = IF i <= Len(l) THEN l[i] ELSE r[i - Len(l)]
      BY <1>2, <1>3, ConcatProperties
  <2>2. Len(l) + Len(r) = Len(s) - 1
      BY <1>1, <1>2, <1>3
  <2> QED
      BY <1>2, <2>1, <2>2
<1>5. \A i \in 1 .. Len(s) - 1 : (l \o r)[i] = IF i < k THEN s[i] ELSE s[i + 1]
  <2> SUFFICES ASSUME NEW i \in 1 .. Len(s) - 1
               PROVE  (l \o r)[i] = IF i < k THEN s[i] ELSE s[i + 1]
      OBVIOUS
  <2>1. CASE i < k
    <3>1. i \in 1 .. k - 1 /\ i <= k - 1
        BY <1>1, <2>1
    <3> QED
        BY <1>2, <1>4, <2>1, <3>1
  <2>2. CASE ~(i < k)
    <3>1. i - (k - 1) \in 1 .. Len(s) - k /\ ~(i <= k - 1) /\ k + (i - (k - 1)) = i + 1
        BY <1>1, <2>2
    <3> QED
        BY <1>3, <1>4, <2>2, <3>1
  <2> QED
      BY <2>1, <2>2
<1>6. RemoveAt(s, k) = l \o r
    BY DEF RemoveAt, l, r
<1> QED
    BY <1>4, <1>5, <1>6

-----------------------------------------------------------------------------
(* What an arriving envelope, genuine or damaged, looks like.              *)
LEMMA EnvelopeShape ==
    ASSUME NEW e \in Envelopes
    PROVE  /\ e.tid \in Transfers
           /\ e.meta.count \in Nat
           /\ e.meta.sha \in {Sha256(Posted[e.tid]), {}}
<1>1. CASE e \in Genuine
  <2>1. PICK t \in Transfers : e \in Encoded(t)
      BY <1>1 DEF Genuine
  <2>2. PICK i : e = [tid |-> t, meta |-> Meta(t), index |-> i, data |-> Slice(Posted[t], i)]
      BY <2>1 DEF Encoded
  <2>3. ChunkCount(Posted[t]) \in Nat
    <3>1. Len(Posted[t]) \in Nat /\ ChunkSize \in Nat \ {0}
        BY PostedAssumption, ChunkSizeAssumption
    <3>2. \A a \in Nat, b \in Nat \ {0} : a \div b \in Nat
        BY Z3
    <3>3. Len(Posted[t]) + ChunkSize - 1 \in Nat
        BY <3>1
    <3> QED
        BY <3>1, <3>2, <3>3 DEF ChunkCount
  <2>4. e.tid = t /\ e.meta = Meta(t)
      BY <2>2
  <2>5. Meta(t).count = ChunkCount(Posted[t]) /\ Meta(t).sha = Sha256(Posted[t])
      BY DEF Meta
  <2> QED
      BY <2>3, <2>4, <2>5
<1>2. CASE e \in Damaged
    BY <1>2, DamagedAssumption
<1> QED
    BY <1>1, <1>2 DEF Envelopes

(* A transfer that push has just created is a well-formed entry without    *)
(* chunks.                                                                 *)
LEMMA FreshIsEntry ==
    ASSUME NEW e \in Envelopes
    PROVE  /\ Fresh(e) \in Entries
           /\ Fresh(e).tid = e.tid /\ Fresh(e).meta = e.meta
           /\ DOMAIN Fresh(e).chunks = {}
<1> DEFINE c == [i \in {} |-> <<>>]
           D == {f.index : f \in Envelopes}
           V == {f.data : f \in Envelopes}
<1>1. c \in [{} -> V] /\ {} \in SUBSET D
    OBVIOUS
<1>2. c \in UNION {[E -> V] : E \in SUBSET D}
    BY <1>1
<1>3. e.tid \in Transfers
    BY EnvelopeShape
<1>4. Fresh(e) = [tid |-> e.tid, meta |-> e.meta, chunks |-> c]
    BY DEF Fresh
<1>5. /\ Fresh(e).tid = e.tid /\ Fresh(e).meta = e.meta /\ Fresh(e).chunks = c
      /\ DOMAIN c = {}
    BY <1>4
<1> HIDE DEF c
<1> QED
    BY <1>2, <1>3, <1>4, <1>5 DEF Entries

(* One entry per transfer, at most MaxPending of them.                     *)
Bounded ==
    /\ Len(pending) <= MaxPending
    /\ \A i, j \in DOMAIN pending : pending[i].tid = pending[j].tid => i = j

(* The entries O were in the table, in this order, without the entry of    *)
(* the pushed transfer, and the oldest is missing only if the table was    *)
(* full: f tells where each of them was.                                   *)
Embeds(O, e) ==
    \E f \in [DOMAIN O -> DOMAIN pending] :
        /\ \A i \in DOMAIN O : O[i] = pending[f[i]] /\ O[i].tid # e.tid
        /\ \A i, j \in DOMAIN O : i < j => f[i] < f[j]
        /\ \A k \in DOMAIN pending :
              \/ \E i \in DOMAIN O : f[i] = k
              \/ pending[k].tid = e.tid
              \/ /\ k = 1 /\ Len(O) = MaxPending - 1
                 /\ e.tid \notin Tids(pending)

(* The lookup in push: the pushed transfer's entry is now the last one and *)
(* the others keep their order.                                            *)
LEMMA TouchedShape ==
    ASSUME pending \in Seq(Entries), Bounded, NEW e \in Envelopes
    PROVE  \E O \in Seq(Entries), x \in Entries :
              /\ Touched(e) = Append(O, x)
              /\ Len(O) < MaxPending
              /\ x.tid = e.tid
              /\ \/ e.tid \notin Tids(pending) /\ x = Fresh(e)
                 \/ \E k \in DOMAIN pending : x = pending[k]
              /\ Embeds(O, e)
<1>1. /\ Len(pending) \in Nat /\ DOMAIN pending = 1 .. Len(pending)
      /\ \A i \in 1 .. Len(pending) : pending[i] \in Entries
    BY LenProperties, ElementOfSeq
<1>m. MaxPending \in Nat \ {0} /\ Len(pending) <= MaxPending
    BY MaxPendingAssumption DEF Bounded
<1>2. CASE e.tid \in Tids(pending)
  <2> DEFINE k == Position(pending, e.tid)
             O == RemoveAt(pending, k)
             f == [i \in DOMAIN O |-> IF i < k THEN i ELSE i + 1]
  <2>1. k \in DOMAIN pending /\ pending[k].tid = e.tid
      BY <1>2 DEF Tids, Position
  <2> HIDE DEF k
  <2>2. /\ O \in Seq(Entries) /\ Len(O) = Len(pending) - 1
        /\ \A i \in 1 .. Len(pending) - 1 :
              O[i] = IF i < k THEN pending[i] ELSE pending[i + 1]
      BY <2>1, RemoveAtKeepsOrder
  <2>3. Touched(e) = Append(O, pending[k])
      BY <1>2 DEF Touched, k
  <2> HIDE DEF O
  <2>4. DOMAIN O = 1 .. Len(pending) - 1
      BY <1>1, <2>2, LenProperties
  <2>5. f \in [DOMAIN O -> DOMAIN pending]
      BY <1>1, <2>1, <2>4
  <2>6. \A i \in DOMAIN O : O[i] = pending[f[i]] /\ f[i] # k
      BY <1>1, <2>1, <2>2, <2>4
  <2>7. \A i \in DOMAIN O : O[i].tid # e.tid
      BY <2>1, <2>5, <2>6 DEF Bounded
  <2>8. \A i, j \in DOMAIN O : i < j => f[i] < f[j]
      BY <1>1, <2>1, <2>4
  <2>9. \A m \in DOMAIN pending : m # k => \E i \in DOMAIN O : f[i] = m
    <3> SUFFICES ASSUME NEW m \in DOMAIN pending, m # k
                 PROVE  \E i \in DOMAIN O : f[i] = m
        OBVIOUS
    <3>1. CASE m < k
        BY <1>1, <2>1, <2>4, <3>1
    <3>2. CASE m > k
      <4>1. m - 1 \in DOMAIN O /\ ~(m - 1 < k) /\ (m - 1) + 1 = m
          BY <1>1, <2>1, <2>4, <3>2
      <4> QED
          BY <4>1
    <3> QED
        BY <1>1, <2>1, <3>1, <3>2
  <2>10. pending[k] \in Entries /\ Len(O) < MaxPending
      BY <1>1, <1>m, <2>1, <2>2
  <2> HIDE DEF f
  <2>11. Embeds(O, e)
    <3>1. \A m \in DOMAIN pending : (\E i \in DOMAIN O : f[i] = m) \/ pending[m].tid = e.tid
        BY <2>1, <2>9
    <3> QED
        BY <2>5, <2>6, <2>7, <2>8, <3>1 DEF Embeds
  <2> QED
      BY <2>1, <2>2, <2>3, <2>10, <2>11
<1>3. CASE e.tid \notin Tids(pending)
  <2> DEFINE s == Append(pending, Fresh(e))
  <2>1. /\ s \in Seq(Entries) /\ Len(s) = Len(pending) + 1
        /\ \A i \in 1 .. Len(pending) : s[i] = pending[i]
        /\ s[Len(pending) + 1] = Fresh(e)
      BY FreshIsEntry, AppendProperties
  <2>2. Touched(e) = EvictIfNeeded(s)
      BY <1>3 DEF Touched
  <2>3. \A i \in DOMAIN pending : pending[i].tid # e.tid
      BY <1>3 DEF Tids
  <2>4. Fresh(e) \in Entries /\ Fresh(e).tid = e.tid
      BY FreshIsEntry
  <2>5. CASE Len(pending) < MaxPending
    <3> DEFINE f == [i \in DOMAIN pending |-> i]
    <3>1. Touched(e) = Append(pending, Fresh(e))
        BY <1>1, <1>m, <2>1, <2>2, <2>5 DEF EvictIfNeeded
    <3>2. f \in [DOMAIN pending -> DOMAIN pending]
        OBVIOUS
    <3>3. /\ \A i \in DOMAIN pending : pending[i] = pending[f[i]] /\ pending[i].tid # e.tid
          /\ \A i, j \in DOMAIN pending : i < j => f[i] < f[j]
          /\ \A m \in DOMAIN pending : \E i \in DOMAIN pending : f[i] = m
        BY <2>3
    <3> HIDE DEF f
    <3>4. Embeds(pending, e)
        BY <3>2, <3>3 DEF Embeds
    <3> QED
        BY <1>3, <2>4, <2>5, <3>1, <3>4
  <2>6. CASE Len(pending) = MaxPending
    <3> DEFINE O == SubSeq(pending, 2, Len(pending))
               f == [i \in DOMAIN O |-> i + 1]
    <3>1. /\ O \in Seq(Entries) /\ Len(O) = Len(pending) - 1
          /\ \A i \in 1 .. Len(pending) - 1 : O[i] = pending[i + 1]
      <4>1. \A i \in 2 .. Len(pending) : pending[i] \in Entries
          BY <1>1
      <4>2. 2 \in Int /\ Len(pending) \in Int
          BY <1>1
      <4>3. /\ O \in Seq(Entries)
            /\ Len(O) = IF 2 <= Len(pending) THEN Len(pending) - 2 + 1 ELSE 0
            /\ \A i \in 1 .. Len(pending) - 2 + 1 : O[i] = pending[2 + i - 1]
          BY <4>1, <4>2, SubSeqProperties
      <4> QED
          BY <1>1, <1>m, <2>6, <4>3
    <3> HIDE DEF O
    <3>2. DOMAIN O = 1 .. Len(pending) - 1
        BY <1>1, <3>1, LenProperties
    <3>3. Touched(e) = SubSeq(s, 2, Len(pending) + 1)
      <4>1. Len(s) > MaxPending /\ Len(s) - MaxPending + 1 = 2
          BY <1>1, <1>m, <2>1, <2>6
      <4> QED
          BY <2>1, <2>2, <4>1 DEF EvictIfNeeded
    <3>4. SubSeq(s, 2, Len(pending) + 1) = Append(O, Fresh(e))
      <4> DEFINE l == SubSeq(s, 2, Len(pending) + 1)
                 r == Append(O, Fresh(e))
      <4>1. \A i \in 2 .. Len(pending) + 1 : s[i] \in Entries
          BY <1>1, <2>1, <2>4
      <4>2. 2 \in Int /\ Len(pending) + 1 \in Int
          BY <1>1
      <4> HIDE DEF s
      <4>3. /\ l \in Seq(Entries)
            /\ Len(l) = IF 2 <= Len(pending) + 1 THEN Len(pending) + 1 - 2 + 1 ELSE 0
            /\ \A i \in 1 .. Len(pending) + 1 - 2 + 1 : l[i] = s[2 + i - 1]
          BY <4>1, <4>2, SubSeqProperties
      <4> HIDE DEF l
      <4>4. /\ r \in Seq(Entries) /\ Len(r) = Len(O) + 1
            /\ \A i \in 1 .. Len(O) : r[i] = O[i]
            /\ r[Len(O) + 1] = Fresh(e)
          BY <2>4, <3>1, AppendProperties
      <4> HIDE DEF r
      <4>5. Len(l) = Len(pending) /\ Len(r) = Len(pending)
          BY <1>1, <1>m, <2>6, <3>1, <4>3, <4>4
      <4>6. ASSUME NEW i \in 1 .. Len(pending) PROVE l[i] = r[i]
        <5>1. l[i] = s[i + 1]
            BY <1>1, <4>3
        <5>2. CASE i = Len(pending)
            BY <1>1, <2>1, <3>1, <4>4, <5>1, <5>2
        <5>3. CASE i < Len(pending)
          <6>1. i \in 1 .. Len(pending) - 1 /\ i + 1 \in 1 .. Len(pending)
              BY <1>1, <5>3
          <6> QED
              BY <2>1, <3>1, <4>4, <5>1, <6>1
        <5>4. i = Len(pending) \/ i < Len(pending)
          <6>1. i \in Int /\ Len(pending) \in Int /\ i <= Len(pending)
              BY <1>1
          <6> QED
              BY <6>1, LessOrEqual, Zenon
        <5> QED
            BY <5>2, <5>3, <5>4
      <4>7. l = r
          BY <4>3, <4>4, <4>5, <4>6, SeqEqual
      <4> QED
          BY <4>7 DEF l, r
    <3>5. f \in [DOMAIN O -> DOMAIN pending]
        BY <1>1, <3>2
    <3>6. \A i \in DOMAIN O : O[i] = pending[f[i]]
        BY <3>1, <3>2
    <3>7. \A i, j \in DOMAIN O : i < j => f[i] < f[j]
        BY <1>1, <3>2
    <3>8. \A m \in DOMAIN pending : m # 1 => \E i \in DOMAIN O : f[i] = m
      <4> SUFFICES ASSUME NEW m \in DOMAIN pending, m # 1
                   PROVE  \E i \in DOMAIN O : f[i] = m
          OBVIOUS
      <4>1. m - 1 \in DOMAIN O /\ (m - 1) + 1 = m
          BY <1>1, <3>2
      <4> QED
          BY <4>1
    <3> HIDE DEF f
    <3>9. Len(O) = MaxPending - 1 /\ Len(O) < MaxPending
        BY <1>m, <2>6, <3>1
    <3>10. \A i \in DOMAIN O : O[i].tid # e.tid
        BY <2>3, <3>5, <3>6
    <3>11. \A m \in DOMAIN pending :
              \/ \E i \in DOMAIN O : f[i] = m
              \/ m = 1 /\ Len(O) = MaxPending - 1 /\ e.tid \notin Tids(pending)
        BY <1>3, <3>8, <3>9
    <3>12. Embeds(O, e)
        BY <3>5, <3>6, <3>7, <3>10, <3>11 DEF Embeds
    <3> QED
        BY <1>3, <2>4, <3>1, <3>3, <3>4, <3>9, <3>12
  <2>7. Len(pending) < MaxPending \/ Len(pending) = MaxPending
    <3>1. Len(pending) \in Int /\ MaxPending \in Int /\ Len(pending) <= MaxPending
        BY <1>1, <1>m
    <3> QED
        BY <3>1, LessOrEqual, Zenon
  <2> QED
      BY <2>5, <2>6, <2>7
<1> QED
    BY <1>2, <1>3

-----------------------------------------------------------------------------
(* The entry of the pushed transfer and the entries of the others.         *)
LEMMA LookupShape ==
    ASSUME pending \in Seq(Entries), Bounded, NEW e \in Envelopes
    PROVE  /\ Touched(e) = Append(Others(e), State(e))
           /\ Others(e) \in Seq(Entries) /\ State(e) \in Entries
           /\ Len(Others(e)) < MaxPending
           /\ State(e).tid = e.tid
           /\ \/ e.tid \notin Tids(pending) /\ State(e) = Fresh(e)
              \/ \E k \in DOMAIN pending : State(e) = pending[k]
           /\ Embeds(Others(e), e)
<1>1. PICK O \in Seq(Entries), x \in Entries :
        /\ Touched(e) = Append(O, x)
        /\ Len(O) < MaxPending
        /\ x.tid = e.tid
        /\ \/ e.tid \notin Tids(pending) /\ x = Fresh(e)
           \/ \E k \in DOMAIN pending : x = pending[k]
        /\ Embeds(O, e)
    BY TouchedShape
<1>2. Front(Append(O, x)) = O /\ Last(Append(O, x)) = x
    BY FrontLastOfAppend
<1>3. Others(e) = O /\ State(e) = x
    BY <1>1, <1>2 DEF Others, State
<1> QED
    BY <1>1, <1>3, Zenon

(* The recency order after a push, whether the pushed transfer stays as    *)
(* the last entry or leaves the table.                                     *)
LEMMA PushKeepsOthers ==
    ASSUME TypeOK, TableSound, RecencyOrder, NEW e \in Envelopes, Touch(e),
           pending' = Others(e)
    PROVE  pending' \in Seq(Entries) /\ TableSound' /\ RecencyOrder'
<1>1. pending \in Seq(Entries) /\ Bounded
    BY DEF TypeOK, TableSound, Bounded
<1>2. /\ Others(e) \in Seq(Entries)
      /\ Len(Others(e)) < MaxPending
    BY <1>1, LookupShape
<1>3. PICK f \in [DOMAIN Others(e) -> DOMAIN pending] :
        /\ \A i \in DOMAIN Others(e) :
              Others(e)[i] = pending[f[i]] /\ Others(e)[i].tid # e.tid
        /\ \A i, j \in DOMAIN Others(e) : i < j => f[i] < f[j]
    BY <1>1, LookupShape DEF Embeds
<1>4. /\ DOMAIN pending' = 1 .. Len(pending') /\ Len(pending') \in Nat
      /\ DOMAIN pending = 1 .. Len(pending) /\ Len(pending) \in Nat
    BY <1>1, <1>2, LenProperties
<1>5. Len(pending') <= MaxPending
    BY <1>2, <1>4, MaxPendingAssumption
<1>6. \A i, j \in DOMAIN pending' : pending'[i].tid = pending'[j].tid => i = j
  <2> SUFFICES ASSUME NEW i \in DOMAIN pending', NEW j \in DOMAIN pending',
                      pending'[i].tid = pending'[j].tid
               PROVE  i = j
      OBVIOUS
  <2>1. f[i] = f[j]
      BY <1>1, <1>3 DEF Bounded
  <2>2. ~(i < j) /\ ~(j < i)
      BY <1>3, <1>4, <2>1
  <2> QED
      BY <1>4, <2>2
<1>7. \A i \in DOMAIN pending' :
         Cardinality(DOMAIN pending'[i].chunks) \in 1 .. pending'[i].meta.count - 1
    BY <1>3 DEF TableSound
<1>8. TableSound'
    BY <1>5, <1>6, <1>7 DEF TableSound
<1>9. \A i, j \in DOMAIN pending' : i < j => pending'[j].tid \in since'[pending'[i].tid]
  <2> SUFFICES ASSUME NEW i \in DOMAIN pending', NEW j \in DOMAIN pending', i < j
               PROVE  pending'[j].tid \in since'[pending'[i].tid]
      OBVIOUS
  <2>1. pending[f[j]].tid \in since[pending[f[i]].tid]
      BY <1>3 DEF RecencyOrder
  <2>2. pending[f[i]].tid \in Transfers /\ pending[f[i]].tid # e.tid
      BY <1>1, <1>3, <1>4, ElementOfSeq DEF Entries
  <2> QED
      BY <1>3, <2>1, <2>2 DEF Touch
<1> QED
    BY <1>2, <1>8, <1>9 DEF RecencyOrder

(* After a push the table is still bounded, without duplicates, and holds  *)
(* the pushed transfer at most as its last entry.                          *)
LEMMA PushKeepsTable ==
    ASSUME TypeOK, TableSound, RecencyOrder, NEW e \in Envelopes, Touch(e),
           NEW y \in Entries, y.tid = e.tid,
           Cardinality(DOMAIN y.chunks) \in 1 .. y.meta.count - 1,
           pending' = Append(Others(e), y)
    PROVE  pending' \in Seq(Entries) /\ TableSound' /\ RecencyOrder'
<1> DEFINE O == Others(e)
<1>1. pending \in Seq(Entries) /\ Bounded
    BY DEF TypeOK, TableSound, Bounded
<1>2. O \in Seq(Entries) /\ Len(O) < MaxPending
    BY <1>1, LookupShape
<1>3. PICK f \in [DOMAIN O -> DOMAIN pending] :
        /\ \A i \in DOMAIN O : O[i] = pending[f[i]] /\ O[i].tid # e.tid
        /\ \A i, j \in DOMAIN O : i < j => f[i] < f[j]
    BY <1>1, LookupShape DEF Embeds
<1> HIDE DEF O
<1>4. /\ pending' \in Seq(Entries)
      /\ Len(pending') = Len(O) + 1
      /\ \A i \in 1 .. Len(O) : pending'[i] = O[i]
      /\ pending'[Len(O) + 1] = y
    BY <1>2, AppendProperties DEF O
<1>5. /\ DOMAIN pending' = 1 .. Len(O) + 1
      /\ DOMAIN O = 1 .. Len(O) /\ Len(O) \in Nat
      /\ DOMAIN pending = 1 .. Len(pending) /\ Len(pending) \in Nat
    BY <1>1, <1>2, <1>4, LenProperties
<1>6. Len(pending') <= MaxPending
    BY <1>2, <1>4, <1>5, MaxPendingAssumption
<1>c. \A i \in DOMAIN pending' : i \in DOMAIN O \/ i = Len(O) + 1
  <2> SUFFICES ASSUME NEW i \in DOMAIN pending', i # Len(O) + 1
               PROVE  i \in DOMAIN O
      OBVIOUS
  <2> QED
      BY <1>5
<1>7. \A i, j \in DOMAIN pending' : pending'[i].tid = pending'[j].tid => i = j
  <2> SUFFICES ASSUME NEW i \in DOMAIN pending', NEW j \in DOMAIN pending',
                      pending'[i].tid = pending'[j].tid
               PROVE  i = j
      OBVIOUS
  <2>1. CASE i \in DOMAIN O /\ j \in DOMAIN O
    <3>1. f[i] = f[j]
        BY <1>1, <1>3, <1>4, <1>5, <2>1 DEF Bounded
    <3>2. ~(i < j) /\ ~(j < i)
        BY <1>3, <1>5, <2>1, <3>1
    <3> QED
        BY <1>5, <3>2
  <2>2. CASE i = Len(O) + 1 /\ j \in DOMAIN O
      BY <1>3, <1>4, <1>5, <2>2
  <2>3. CASE j = Len(O) + 1 /\ i \in DOMAIN O
      BY <1>3, <1>4, <1>5, <2>3
  <2> QED
      BY <1>c, <2>1, <2>2, <2>3
<1>8. \A i \in DOMAIN pending' :
         Cardinality(DOMAIN pending'[i].chunks) \in 1 .. pending'[i].meta.count - 1
  <2> SUFFICES ASSUME NEW i \in DOMAIN pending'
               PROVE  Cardinality(DOMAIN pending'[i].chunks) \in 1 .. pending'[i].meta.count - 1
      OBVIOUS
  <2>1. CASE i \in DOMAIN O
    <3>1. pending'[i] = pending[f[i]] /\ f[i] \in DOMAIN pending
        BY <1>3, <1>4, <1>5, <2>1
    <3> QED
        BY <3>1 DEF TableSound
  <2>2. CASE i = Len(O) + 1
      BY <1>4, <2>2
  <2> QED
      BY <1>c, <2>1, <2>2
<1>9. TableSound'
    BY <1>6, <1>7, <1>8 DEF TableSound
<1>10. \A i, j \in DOMAIN pending' : i < j => pending'[j].tid \in since'[pending'[i].tid]
  <2> SUFFICES ASSUME NEW i \in DOMAIN pending', NEW j \in DOMAIN pending', i < j
               PROVE  pending'[j].tid \in since'[pending'[i].tid]
      OBVIOUS
  <2>1. i \in DOMAIN O
      BY <1>5
  <2>2. pending'[i] = pending[f[i]] /\ f[i] \in DOMAIN pending
      BY <1>3, <1>4, <1>5, <2>1
  <2>3. pending[f[i]].tid \in Transfers /\ pending[f[i]].tid # e.tid
      BY <1>1, <1>3, <1>5, <2>1, <2>2, ElementOfSeq DEF Entries
  <2>4. since'[pending'[i].tid] = since[pending[f[i]].tid] \cup {e.tid}
      BY <2>2, <2>3 DEF Touch
  <2>5. CASE j \in DOMAIN O
    <3>1. pending'[j] = pending[f[j]] /\ f[j] \in DOMAIN pending /\ f[i] < f[j]
        BY <1>3, <1>4, <1>5, <2>1, <2>5
    <3> QED
        BY <2>2, <2>4, <3>1 DEF RecencyOrder
  <2>6. CASE j = Len(O) + 1
      BY <1>4, <2>4, <2>6
  <2> QED
      BY <1>c, <2>5, <2>6
<1> QED
    BY <1>4, <1>9, <1>10 DEF RecencyOrder

(* The entry with the pushed chunk stored.                                 *)
LEMMA StoredIsEntry ==
    ASSUME pending \in Seq(Entries), Bounded, NEW e \in Envelopes,
           WellFormed(e), Consistent(e), ~Completes(e)
    PROVE  LET y == [State(e) EXCEPT !.chunks = Stored(e)]
           IN  /\ y \in Entries /\ y.tid = e.tid
               /\ Cardinality(DOMAIN y.chunks) \in 1 .. y.meta.count - 1
<1> DEFINE y == [State(e) EXCEPT !.chunks = Stored(e)]
           D == {f.index : f \in Envelopes}
           V == {f.data : f \in Envelopes}
           E == DOMAIN State(e).chunks \cup {e.index}
<1>1. State(e) \in Entries /\ State(e).tid = e.tid
    BY LookupShape
<1>2. State(e).meta = e.meta /\ e.meta.count \in Nat /\ e.index \in 0 .. e.meta.count - 1
    BY EnvelopeShape DEF Consistent, WellFormed
<1>3. /\ State(e).chunks \in UNION {[C -> V] : C \in SUBSET D}
      /\ DOMAIN State(e).chunks \subseteq 0 .. State(e).meta.count - 1
      /\ State(e).tid \in Transfers
      /\ State(e).meta \in {f.meta : f \in Envelopes}
      /\ State(e).meta \in {f.meta : f \in {g \in Envelopes : g.tid = State(e).tid}}
    BY <1>1 DEF Entries
<1>4. PICK C \in SUBSET D : State(e).chunks \in [C -> V]
    BY <1>3
<1>5. E \in SUBSET D /\ E \subseteq 0 .. e.meta.count - 1 /\ E # {}
    BY <1>2, <1>3, <1>4
<1>6. Stored(e) \in [E -> V] /\ DOMAIN Stored(e) = E
    BY <1>4 DEF Stored
<1>7. Stored(e) \in UNION {[B -> V] : B \in SUBSET D}
    BY <1>5, <1>6
<1>8. /\ y.tid = State(e).tid /\ y.meta = State(e).meta /\ y.chunks = Stored(e)
      /\ y = [tid |-> State(e).tid, meta |-> State(e).meta, chunks |-> Stored(e)]
    BY <1>1 DEF Entries
<1>9. y \in Entries
    BY <1>2, <1>3, <1>5, <1>6, <1>7, <1>8 DEF Entries
<1>10. /\ IsFiniteSet(0 .. e.meta.count - 1)
       /\ Cardinality(0 .. e.meta.count - 1) = e.meta.count
  <2>1. 0 \in Int /\ e.meta.count - 1 \in Int
      BY <1>2
  <2>2. /\ IsFiniteSet(0 .. e.meta.count - 1)
        /\ Cardinality(0 .. e.meta.count - 1) =
              IF 0 > e.meta.count - 1 THEN 0 ELSE e.meta.count - 1 - 0 + 1
      BY <2>1, FS_Interval
  <2> QED
      BY <1>2, <2>2
<1>11. IsFiniteSet(E) /\ Cardinality(E) <= e.meta.count /\ Cardinality(E) \in Nat
    BY <1>5, <1>10, FS_Subset, FS_CardinalityType
<1>12. Cardinality(E) # 0
    BY <1>5, <1>11, FS_EmptySet
<1>13. Cardinality(E) # e.meta.count
    BY <1>2, <1>6 DEF Completes
<1>14. Cardinality(E) \in 1 .. e.meta.count - 1
    BY <1>2, <1>11, <1>12, <1>13
<1> HIDE DEF y, E
<1>15. /\ y \in Entries /\ y.tid = e.tid
       /\ Cardinality(DOMAIN y.chunks) \in 1 .. y.meta.count - 1
    BY <1>1, <1>2, <1>6, <1>8, <1>9, <1>14
<1> QED
    BY <1>15 DEF y

-----------------------------------------------------------------------------
(* The inductive invariant.                                                *)
IInv == TypeOK /\ TableSound /\ RecencyOrder /\ DeliveredIsPosted

(* Every envelope has a number of copies.                                  *)
LEMMA CopiesCounted == \A e \in Envelopes : CopiesOf(e) \in Nat
    BY EnvelopeShape, MaxCopiesAssumption DEF CopiesOf

(* The invariant holds of an empty reassembler.                            *)
LEMMA InitIInv == Init => IInv
<1> SUFFICES ASSUME Init PROVE IInv
    OBVIOUS
<1>1. pending = <<>> /\ pending \in Seq(Entries) /\ Len(pending) = 0 /\ DOMAIN pending = {}
    BY EmptySeq DEF Init
<1>2. TypeOK
  <2>1. \A e \in Envelopes : CopiesOf(e) \in Nat
      BY CopiesCounted
  <2> QED
      BY <1>1, <2>1 DEF Init, TypeOK
<1>3. TableSound
    BY <1>1, MaxPendingAssumption DEF TableSound
<1> QED
    BY <1>1, <1>2, <1>3 DEF IInv, RecencyOrder, DeliveredIsPosted, Init

(* What Touch does to the history variables.                               *)
LEMMA TouchTypes ==
    ASSUME TypeOK, TableSound, NEW e \in Envelopes, Touch(e)
    PROVE  /\ DOMAIN since' = Transfers
           /\ \A t \in Transfers : since'[t] \subseteq Transfers
           /\ dropped' \subseteq Transfers
<1>1. e.tid \in Transfers
    BY EnvelopeShape
<1>2. Tids(pending) \subseteq Transfers
  <2>1. \A k \in DOMAIN pending : pending[k] \in Entries
      BY LenProperties, ElementOfSeq DEF TypeOK
  <2> QED
      BY <2>1 DEF Tids, Entries
<1> QED
    BY <1>1, <1>2 DEF TypeOK, Touch

(* The arrival of an envelope uses up one copy of it.                      *)
LEMMA ArrivesTypes ==
    ASSUME TypeOK, NEW e \in Envelopes, Arrives(e)
    PROVE  copies' \in [Envelopes -> Nat]
    BY DEF TypeOK, Arrives

(* Every push and clear() keep the invariant.                              *)
LEMMA NextIInv == IInv /\ [Next]_vars => IInv'
<1> SUFFICES ASSUME IInv, [Next]_vars PROVE IInv'
    OBVIOUS
<1> USE DEF IInv
<1>1. pending \in Seq(Entries) /\ Bounded
    BY DEF TypeOK, TableSound, Bounded
<1>2. CASE Clear
  <2>1. pending' = <<>> /\ pending' \in Seq(Entries) /\ Len(pending') = 0 /\ DOMAIN pending' = {}
      BY <1>2, EmptySeq DEF Clear
  <2>2. Tids(pending) \subseteq Transfers
    <3>1. \A k \in DOMAIN pending : pending[k] \in Entries
        BY LenProperties, ElementOfSeq DEF TypeOK
    <3> QED
        BY <3>1 DEF Tids, Entries
  <2>3. TypeOK'
      BY <1>2, <2>1, <2>2 DEF Clear, TypeOK
  <2>4. TableSound'
      BY <2>1, MaxPendingAssumption DEF TableSound
  <2> QED
      BY <1>2, <2>1, <2>3, <2>4 DEF Clear, RecencyOrder, DeliveredIsPosted
<1>3. ASSUME NEW e \in Envelopes, PushMalformed(e) PROVE IInv'
  <2>1. e.tid \in Transfers /\ copies' \in [Envelopes -> Nat]
      BY <1>3, EnvelopeShape, ArrivesTypes DEF PushMalformed
  <2>2. TypeOK'
      BY <1>3, <2>1 DEF PushMalformed, TypeOK
  <2> QED
      BY <1>3, <2>2 DEF PushMalformed, TableSound, RecencyOrder, DeliveredIsPosted
<1>4. ASSUME NEW e \in Envelopes, PushRejected(e) PROVE IInv'
  <2>1. e.tid \in Transfers /\ copies' \in [Envelopes -> Nat]
      BY <1>4, EnvelopeShape, ArrivesTypes DEF PushRejected
  <2>2. PICK k \in DOMAIN pending : State(e) = pending[k]
    <3>1. State(e) # Fresh(e)
        BY <1>4, FreshIsEntry DEF PushRejected, Consistent, Conflicting
    <3> QED
        BY <1>1, <3>1, LookupShape
  <2>3. /\ State(e) \in Entries /\ State(e).tid = e.tid
        /\ Cardinality(DOMAIN State(e).chunks) \in 1 .. State(e).meta.count - 1
      BY <1>1, <2>2, LookupShape DEF TableSound
  <2>4. pending' = Append(Others(e), State(e)) /\ Touch(e)
      BY <1>1, <1>4, LookupShape DEF PushRejected
  <2>5. pending' \in Seq(Entries) /\ TableSound' /\ RecencyOrder'
      BY <2>3, <2>4, PushKeepsTable
  <2>6. TypeOK'
      BY <1>4, <2>1, <2>4, <2>5, TouchTypes DEF PushRejected, TypeOK
  <2> QED
      BY <1>4, <2>5, <2>6 DEF PushRejected, DeliveredIsPosted
<1>5. ASSUME NEW e \in Envelopes, PushPartial(e) PROVE IInv'
  <2> DEFINE y == [State(e) EXCEPT !.chunks = Stored(e)]
  <2>1. copies' \in [Envelopes -> Nat] /\ Touch(e)
      BY <1>5, ArrivesTypes DEF PushPartial
  <2>2. /\ y \in Entries /\ y.tid = e.tid
        /\ Cardinality(DOMAIN y.chunks) \in 1 .. y.meta.count - 1
      BY <1>1, <1>5, StoredIsEntry DEF PushPartial
  <2>3. pending' = Append(Others(e), y)
      BY <1>5 DEF PushPartial
  <2> HIDE DEF y
  <2>4. pending' \in Seq(Entries) /\ TableSound' /\ RecencyOrder'
      BY <2>1, <2>2, <2>3, PushKeepsTable
  <2>5. TypeOK'
      BY <1>5, <2>1, <2>4, TouchTypes DEF PushPartial, TypeOK
  <2> QED
      BY <1>5, <2>4, <2>5 DEF PushPartial, DeliveredIsPosted
<1>6. ASSUME NEW e \in Envelopes, PushComplete(e) PROVE IInv'
  <2>1. e.tid \in Transfers /\ copies' \in [Envelopes -> Nat] /\ Touch(e)
      BY <1>6, EnvelopeShape, ArrivesTypes DEF PushComplete
  <2>2. pending' \in Seq(Entries) /\ TableSound' /\ RecencyOrder'
      BY <1>6, <2>1, PushKeepsOthers DEF PushComplete
  <2>3. deliveries' \in [Transfers -> Nat]
      BY <1>6, <2>1 DEF PushComplete, TypeOK
  <2>4. TypeOK'
      BY <1>6, <2>1, <2>2, <2>3, TouchTypes DEF PushComplete, TypeOK
  <2>5. Payload(e) = Posted[e.tid]
    <3>1. /\ Sha256(Payload(e)) = e.meta.sha
          /\ e.meta.sha \in {Sha256(Posted[e.tid]), {}}
        BY <1>6, EnvelopeShape DEF PushComplete, Verified, Consistent
    <3> QED
        BY <3>1 DEF Sha256
  <2>6. DeliveredIsPosted'
    <3> SUFFICES ASSUME NEW d \in delivered' PROVE d[2] = Posted[d[1]]
        BY DEF DeliveredIsPosted
    <3>1. d \in delivered \/ d = <<e.tid, Payload(e)>>
        BY <1>6 DEF PushComplete
    <3> QED
        BY <2>5, <3>1 DEF DeliveredIsPosted
  <2> QED
      BY <2>2, <2>4, <2>6
<1>7. ASSUME NEW e \in Envelopes, PushCorrupt(e) PROVE IInv'
  <2>1. e.tid \in Transfers /\ copies' \in [Envelopes -> Nat] /\ Touch(e)
      BY <1>7, EnvelopeShape, ArrivesTypes DEF PushCorrupt
  <2>2. pending' \in Seq(Entries) /\ TableSound' /\ RecencyOrder'
      BY <1>7, <2>1, PushKeepsOthers DEF PushCorrupt
  <2>3. TypeOK'
      BY <1>7, <2>1, <2>2, TouchTypes DEF PushCorrupt, TypeOK
  <2> QED
      BY <1>7, <2>2, <2>3 DEF PushCorrupt, DeliveredIsPosted
<1>8. CASE UNCHANGED vars
    BY <1>8 DEF vars, TypeOK, TableSound, RecencyOrder, DeliveredIsPosted
<1> QED
    BY <1>2, <1>3, <1>4, <1>5, <1>6, <1>7, <1>8 DEF Next, Push

(* The reassembler's state keeps its type, whatever arrives.               *)
THEOREM TypeCorrect == Spec => []TypeOK
<1>1. IInv => TypeOK
    BY DEF IInv
<1> QED
    BY <1>1, InitIInv, NextIInv, PTL DEF Spec

(* At most max_pending transfers are held, each once, each incomplete.     *)
THEOREM TableIsSound == Spec => []TableSound
<1>1. IInv => TableSound
    BY DEF IInv
<1> QED
    BY <1>1, InitIInv, NextIInv, PTL DEF Spec

(* What push returns is what was posted, for every order, duplication and  *)
(* damage of the envelopes.                                                *)
THEOREM DeliveryIntegrity == Spec => []DeliveredIsPosted
<1>1. IInv => DeliveredIsPosted
    BY DEF IInv
<1> QED
    BY <1>1, InitIInv, NextIInv, PTL DEF Spec

-----------------------------------------------------------------------------
(* A transfer missing after the lookup of another one was the oldest of a  *)
(* full table, so that max_pending others were touched since.              *)
LEMMA EvictedIsStale ==
    ASSUME IInv, NEW e \in Envelopes, Touch(e), NEW k \in DOMAIN pending,
           pending[k].tid \notin Tids(Others(e))
    PROVE  LET t == pending[k].tid
           IN  since'[t] = {} \/ Cardinality(since'[t]) >= MaxPending
<1> DEFINE t == pending[k].tid
           O == Others(e)
           g == [i \in 1 .. MaxPending |-> IF i < MaxPending THEN O[i].tid ELSE e.tid]
<1>1. pending \in Seq(Entries) /\ Bounded
    BY DEF IInv, TypeOK, TableSound, Bounded
<1>2. O \in Seq(Entries)
    BY <1>1, LookupShape
<1>3. PICK f \in [DOMAIN O -> DOMAIN pending] :
        /\ \A i \in DOMAIN O : O[i] = pending[f[i]] /\ O[i].tid # e.tid
        /\ \A i, j \in DOMAIN O : i < j => f[i] < f[j]
        /\ \A m \in DOMAIN pending :
              \/ \E i \in DOMAIN O : f[i] = m
              \/ pending[m].tid = e.tid
              \/ /\ m = 1 /\ Len(O) = MaxPending - 1
                 /\ e.tid \notin Tids(pending)
    BY <1>1, LookupShape DEF Embeds
<1> HIDE DEF O
<1>4. /\ DOMAIN O = 1 .. Len(O) /\ Len(O) \in Nat
      /\ DOMAIN pending = 1 .. Len(pending) /\ Len(pending) \in Nat
      /\ MaxPending \in Nat \ {0}
    BY <1>1, <1>2, LenProperties, MaxPendingAssumption
<1>5. t \in Transfers /\ e.tid \in Transfers
    BY <1>1, <1>4, ElementOfSeq, EnvelopeShape DEF Entries
<1>6. \A i \in DOMAIN O : f[i] # k
    BY <1>3 DEF Tids, O
<1>7. CASE t = e.tid
    BY <1>5, <1>7 DEF Touch
<1>8. CASE t # e.tid
  <2>1. k = 1 /\ Len(O) = MaxPending - 1 /\ e.tid \notin Tids(pending)
      BY <1>3, <1>6, <1>8
  <2>2. since'[t] = since[t] \cup {e.tid}
      BY <1>5, <1>8 DEF Touch
  <2>3. \A i \in DOMAIN O : O[i].tid \in since[t]
    <3> SUFFICES ASSUME NEW i \in DOMAIN O PROVE O[i].tid \in since[t]
        OBVIOUS
    <3>1. f[i] \in DOMAIN pending /\ k < f[i]
      <4>1. f[i] \in 1 .. Len(pending) /\ f[i] # 1
          BY <1>3, <1>4, <1>6, <2>1
      <4> QED
          BY <1>4, <2>1, <4>1
    <3> QED
        BY <1>3, <3>1 DEF IInv, RecencyOrder
  <2>4. \A i \in 1 .. MaxPending : i < MaxPending => i \in DOMAIN O
      BY <1>4, <2>1
  <2>5. g \in [1 .. MaxPending -> since'[t]]
      BY <2>2, <2>3, <2>4
  <2>6. ASSUME NEW i \in 1 .. MaxPending, NEW j \in 1 .. MaxPending, i < j
        PROVE  g[i] # g[j]
    <3>1. i < MaxPending /\ i \in DOMAIN O
        BY <1>4, <2>4, <2>6
    <3>2. g[i] = pending[f[i]].tid /\ g[i] # e.tid /\ f[i] \in DOMAIN pending
        BY <1>3, <3>1
    <3>3. CASE j < MaxPending
      <4>1. j \in DOMAIN O
          BY <2>4, <3>3
      <4>2. g[j] = pending[f[j]].tid /\ f[j] \in DOMAIN pending
          BY <1>3, <3>3, <4>1
      <4>3. f[i] # f[j]
          BY <1>3, <1>4, <2>6, <3>1, <4>1
      <4> QED
          BY <1>1, <3>2, <4>2, <4>3 DEF Bounded
    <3>4. CASE ~(j < MaxPending)
        BY <3>2, <3>4
    <3> QED
        BY <3>3, <3>4
  <2>7. g \in Injection(1 .. MaxPending, since'[t])
    <3>1. \A i, j \in 1 .. MaxPending : i # j => g[i] # g[j]
      <4> SUFFICES ASSUME NEW i \in 1 .. MaxPending, NEW j \in 1 .. MaxPending, i # j
                   PROVE  g[i] # g[j]
          OBVIOUS
      <4>1. i < j \/ j < i
          BY <1>4
      <4> QED
          BY <2>6, <4>1
    <3> HIDE DEF g
    <3> QED
        BY <2>5, <3>1 DEF Injection, IsInjective
  <2>8. IsFiniteSet(since'[t])
    <3>1. since'[t] \in SUBSET Transfers
        BY <1>5, TouchTypes DEF IInv
    <3> QED
        BY <3>1, TransfersAssumption, FS_Subset
  <2>9. Cardinality(1 .. MaxPending) <= Cardinality(since'[t])
      BY <2>7, <2>8, FS_Injection
  <2>10. Cardinality(1 .. MaxPending) = MaxPending
    <3>1. Cardinality(1 .. MaxPending) = IF 1 > MaxPending THEN 0 ELSE MaxPending - 1 + 1
        BY <1>4, FS_Interval
    <3> QED
        BY <1>4, <3>1
  <2>11. Cardinality(since'[t]) \in Nat
      BY <2>8, FS_CardinalityType
  <2> QED
      BY <1>4, <2>9, <2>10, <2>11
<1> QED
    BY <1>7, <1>8

(* Eviction is LRU: a transfer leaves the table incomplete only when       *)
(* max_pending other transfers were active after its last chunk.           *)
THEOREM EvictionIsLRU == Spec => EvictedOnlyWhenStale
<1> DEFINE A == copies' # copies =>
                  \A t \in Tids(pending) \ Tids(pending') :
                     since'[t] = {} \/ Cardinality(since'[t]) >= MaxPending
<1>1. IInv /\ [Next]_vars => [A]_vars
  <2> SUFFICES ASSUME IInv, Next, copies' # copies, NEW t \in Tids(pending) \ Tids(pending')
               PROVE  since'[t] = {} \/ Cardinality(since'[t]) >= MaxPending
      OBVIOUS
  <2>1. PICK e \in Envelopes : Push(e)
      BY DEF Next, Clear
  <2>2. PICK k \in DOMAIN pending : t = pending[k].tid
      BY DEF Tids
  <2>3. ~PushMalformed(e)
      BY DEF PushMalformed
  <2>4. Touch(e)
      BY <2>1, <2>3 DEF Push, PushRejected, PushPartial, PushComplete, PushCorrupt
  <2>5. /\ pending \in Seq(Entries) /\ Bounded
      BY DEF IInv, TypeOK, TableSound, Bounded
  <2>6. /\ Touched(e) = Append(Others(e), State(e))
        /\ Others(e) \in Seq(Entries) /\ State(e) \in Entries
      BY <2>5, LookupShape
  <2>7. ASSUME NEW y \in Entries, pending' = Append(Others(e), y)
        PROVE  Tids(Others(e)) \subseteq Tids(pending')
    <3>1. /\ Len(pending') = Len(Others(e)) + 1
          /\ pending' \in Seq(Entries)
          /\ \A i \in 1 .. Len(Others(e)) : pending'[i] = Others(e)[i]
        BY <2>6, <2>7, AppendProperties
    <3>2. /\ DOMAIN Others(e) = 1 .. Len(Others(e)) /\ Len(Others(e)) \in Nat
          /\ DOMAIN pending' = 1 .. Len(Others(e)) + 1
        BY <2>6, <3>1, LenProperties
    <3>3. \A i \in DOMAIN Others(e) : i \in DOMAIN pending' /\ pending'[i] = Others(e)[i]
        BY <3>1, <3>2
    <3> QED
        BY <3>3 DEF Tids
  <2>8. Tids(Others(e)) \subseteq Tids(pending')
    <3>1. CASE PushRejected(e)
        BY <2>6, <2>7, <3>1 DEF PushRejected
    <3>2. CASE PushPartial(e)
        BY <2>5, <2>7, <3>2, StoredIsEntry DEF PushPartial
    <3>3. CASE PushComplete(e) \/ PushCorrupt(e)
        BY <3>3 DEF PushComplete, PushCorrupt
    <3> QED
        BY <2>1, <2>3, <3>1, <3>2, <3>3 DEF Push
  <2>9. pending[k].tid \notin Tids(Others(e))
      BY <2>2, <2>8
  <2> QED
      BY <2>2, <2>4, <2>9, EvictedIsStale
<1> QED
    BY <1>1, InitIInv, NextIInv, PTL DEF Spec, EvictedOnlyWhenStale

-----------------------------------------------------------------------------
(***************************************************************************)
(* The body that joins the chunks is the body that was cut                 *)
(***************************************************************************)
(* A non-empty set of naturals has a least element.                        *)
LEMMA LeastNumber ==
    ASSUME NEW T \in SUBSET Nat, T # {}
    PROVE  \E n \in T : \A m \in T : n <= m
<1> DEFINE R == OpToRel(<, Nat)
<1>1. IsWellFoundedOn(R, Nat)
    BY NatLessThanWellFounded
<1>2. PICK n \in T : \A m \in T : ~(<<m, n>> \in R)
  <2> HIDE DEF R
  <2> QED
      BY <1>1, WFMin
<1>3. \A m \in T : m \in Nat /\ n \in Nat /\ ~(m < n)
    BY <1>2 DEF OpToRel
<1> QED
    BY <1>3

(* FlattenSeq joins its arguments one by one: if W[i] is known to be the   *)
(* result of joining the first i, the last W is the whole.                 *)
LEMMA FlattenByPrefixes ==
    \A n \in Nat \ {0} : \A seqs, S : \A W \in [1 .. n -> S] :
        /\ Len(seqs) = n /\ W[1] = seqs[1]
        /\ \A i \in 2 .. n : W[i] = W[i - 1] \o seqs[i]
        => FlattenSeq(seqs) = W[n]
<1> SUFFICES ASSUME NEW n \in Nat \ {0}, NEW seqs, NEW S, NEW W \in [1 .. n -> S],
                    Len(seqs) = n, W[1] = seqs[1],
                    \A i \in 2 .. n : W[i] = W[i - 1] \o seqs[i]
             PROVE  FlattenSeq(seqs) = W[n]
    BY Zenon
<1> DEFINE P(g) == g = [i \in 1 .. n |-> IF i = 1 THEN seqs[i] ELSE g[i - 1] \o seqs[i]]
           fl == CHOOSE g : P(g)
<1>1. P(W)
  <2>1. \A i \in 1 .. n : W[i] = IF i = 1 THEN seqs[i] ELSE W[i - 1] \o seqs[i]
    <3> SUFFICES ASSUME NEW i \in 1 .. n, i # 1 PROVE W[i] = W[i - 1] \o seqs[i]
        OBVIOUS
    <3>1. i \in 2 .. n
        OBVIOUS
    <3> QED
        BY <3>1
  <2>2. [i \in 1 .. n |-> W[i]]
            = [i \in 1 .. n |-> IF i = 1 THEN seqs[i] ELSE W[i - 1] \o seqs[i]]
      BY <2>1, Zenon
  <2>3. W = [i \in 1 .. n |-> W[i]]
      OBVIOUS
  <2> QED
      BY <2>2, <2>3, Zenon
<1>2. P(fl)
    BY <1>1, Zenon
<1> HIDE DEF fl
<1>3. \A i \in 1 .. n : fl[i] = IF i = 1 THEN seqs[i] ELSE fl[i - 1] \o seqs[i]
    BY <1>2
<1>4. \A i \in 1 .. n : fl[i] = W[i]
  <2> DEFINE T == {i \in 1 .. n : fl[i] # W[i]}
  <2> SUFFICES ASSUME T # {} PROVE FALSE
      OBVIOUS
  <2>0. T \in SUBSET Nat
      OBVIOUS
  <2>1. PICK i \in T : \A m \in T : i <= m
    <3> HIDE DEF T
    <3> QED
        BY <2>0, LeastNumber
  <2>2. i # 1 => i - 1 \in 1 .. n /\ i - 1 \notin T /\ i \in 2 .. n
      BY <2>1
  <2>3. i \in 1 .. n /\ fl[i] # W[i]
      BY <2>1
  <2>4. CASE i = 1
      BY <1>3, <2>3, <2>4
  <2>5. CASE i # 1
    <3>1. fl[i] = fl[i - 1] \o seqs[i]
        BY <1>3, <2>3, <2>5
    <3>2. fl[i - 1] = W[i - 1]
        BY <2>2, <2>5
    <3>3. W[i] = W[i - 1] \o seqs[i]
        BY <2>2, <2>5
    <3> QED
        BY <2>3, <3>1, <3>2, <3>3
  <2> QED
      BY <2>4, <2>5
<1>5. FlattenSeq(seqs) = fl[n]
    BY DEF FlattenSeq, fl
<1> QED
    BY <1>4, <1>5

(* Multiplication by a positive number keeps the order.                    *)
LEMMA TimesKeepsOrder ==
    ASSUME NEW a \in Int, NEW b \in Int, NEW c \in Nat, a <= b
    PROVE  a * c <= b * c
    OBVIOUS

(* How many slices there are: every slice but the first begins before the  *)
(* end of the bytes, and the last one reaches it.                          *)
LEMMA SliceBounds ==
    ASSUME NEW B, NEW bytes \in Seq(B)
    PROVE  /\ ChunkCount(bytes) \in Nat \ {0}
           /\ \A i \in 2 .. ChunkCount(bytes) : (i - 1) * ChunkSize < Len(bytes)
           /\ Len(bytes) <= ChunkCount(bytes) * ChunkSize
<1> DEFINE L == Len(bytes)
           c == ChunkSize
           n == ChunkCount(bytes)
           q == (L + c - 1) \div c
<1>1. L \in Nat /\ c \in Nat \ {0}
    BY LenProperties, ChunkSizeAssumption
<1>2. CASE bytes = <<>>
  <2>1. L = 0 /\ n = 1
      BY <1>2 DEF ChunkCount
  <2> HIDE DEF L, c, n
  <2>2. L <= n * c
      BY <1>1, <2>1
  <2>3. \A i \in 2 .. n : FALSE
      BY <2>1
  <2> QED
      BY <2>1, <2>2, <2>3 DEF L, c, n
<1>3. CASE bytes # <<>>
  <2>1. L # 0 /\ n = q
      BY <1>3, EmptySeq, LenProperties DEF ChunkCount
  <2> HIDE DEF L, c, n
  <2>2. q \in Int /\ q * c <= L + c - 1 /\ L + c - 1 < q * c + c
      BY <1>1, Z3
  <2> HIDE DEF q
  <2>3. q >= 1
    <3>1. CASE q <= 0
      <4>1. q * c <= 0 * c
          BY <1>1, <2>2, <3>1, TimesKeepsOrder
      <4> QED
          BY <1>1, <2>1, <2>2, <4>1
    <3> QED
        BY <2>2, <3>1
  <2>4. L <= q * c
      BY <1>1, <2>2
  <2>5. ASSUME NEW i \in 2 .. q PROVE (i - 1) * c < L
    <3>1. i \in Int /\ i - 1 <= q - 1 /\ i - 1 \in Int /\ q - 1 \in Int
        BY <2>2
    <3>2. (i - 1) * c <= (q - 1) * c
        BY <1>1, <3>1, TimesKeepsOrder
    <3>3. (q - 1) * c = q * c - c
        BY <1>1, <2>2
    <3>4. (i - 1) * c \in Int /\ q * c \in Int
        BY <1>1, <2>2, <3>1
    <3> QED
        BY <1>1, <2>2, <3>2, <3>3, <3>4
  <2> QED
      BY <2>1, <2>2, <2>3, <2>4, <2>5 DEF L, c, n
<1> QED
    BY <1>2, <1>3

(* Neighbouring pieces of a sequence.                                      *)
LEMMA JoinNeighbours ==
    ASSUME NEW B, NEW s \in Seq(B), NEW a \in Nat, NEW b \in Nat, a <= b, b <= Len(s)
    PROVE  SubSeq(s, 1, a) \o SubSeq(s, a + 1, b) = SubSeq(s, 1, b)
<1> DEFINE l == SubSeq(s, 1, a)
           r == SubSeq(s, a + 1, b)
           w == SubSeq(s, 1, b)
<1>1. Len(s) \in Nat /\ \A i \in 1 .. Len(s) : s[i] \in B
    BY LenProperties, ElementOfSeq
<1>2. /\ l \in Seq(B) /\ Len(l) = IF 1 <= a THEN a - 1 + 1 ELSE 0
      /\ \A i \in 1 .. a - 1 + 1 : l[i] = s[1 + i - 1]
  <2>1. \A i \in 1 .. a : s[i] \in B
      BY <1>1
  <2> QED
      BY <2>1, SubSeqProperties
<1>3. /\ r \in Seq(B) /\ Len(r) = IF a + 1 <= b THEN b - (a + 1) + 1 ELSE 0
      /\ \A i \in 1 .. b - (a + 1) + 1 : r[i] = s[a + 1 + i - 1]
  <2>1. \A i \in a + 1 .. b : s[i] \in B
      BY <1>1
  <2>2. a + 1 \in Int /\ b \in Int
      OBVIOUS
  <2> QED
      BY <2>1, <2>2, SubSeqProperties
<1>4. /\ w \in Seq(B) /\ Len(w) = IF 1 <= b THEN b - 1 + 1 ELSE 0
      /\ \A i \in 1 .. b - 1 + 1 : w[i] = s[1 + i - 1]
  <2>1. \A i \in 1 .. b : s[i] \in B
      BY <1>1
  <2> QED
      BY <2>1, SubSeqProperties
<1> HIDE DEF l, r, w
<1>5. Len(l) = a /\ Len(r) = b - a /\ Len(w) = b
    BY <1>2, <1>3, <1>4
<1>6. /\ l \o r \in Seq(B) /\ Len(l \o r) = Len(l) + Len(r)
      /\ \A i \in 1 .. Len(l) + Len(r) : (l \o r)[i] = IF i <= Len(l) THEN l[i] ELSE r[i - Len(l)]
    BY <1>2, <1>3, ConcatProperties
<1>7. Len(l \o r) = b /\ \A i \in 1 .. b : (l \o r)[i] = IF i <= a THEN l[i] ELSE r[i - a]
    BY <1>5, <1>6
<1>8. ASSUME NEW i \in 1 .. b PROVE (l \o r)[i] = w[i]
  <2>1. w[i] = s[i]
      BY <1>4
  <2>2. CASE i <= a
    <3>1. l[i] = s[i]
        BY <1>2, <2>2
    <3> QED
        BY <1>7, <2>1, <2>2, <3>1
  <2>3. CASE ~(i <= a)
    <3>1. i - a \in 1 .. b - (a + 1) + 1 /\ a + 1 + (i - a) - 1 = i
        BY <2>3
    <3>2. r[i - a] = s[i]
        BY <1>3, <3>1
    <3> QED
        BY <1>7, <2>1, <2>3, <3>2
  <2> QED
      BY <2>2, <2>3
<1>9. l \o r = w
    BY <1>4, <1>5, <1>6, <1>7, <1>8, SeqEqual
<1> QED
    BY <1>9 DEF l, r, w

(* encode_chunked_bodies and the join in push: the slices of a payload,    *)
(* the short last one and the empty one included, make up the payload.     *)
LEMMA JoinOfSlices ==
    ASSUME NEW B, NEW bytes \in Seq(B), NEW chunks,
           \A i \in 0 .. ChunkCount(bytes) - 1 : chunks[i] = Slice(bytes, i)
    PROVE  Join(chunks, ChunkCount(bytes)) = bytes
<1> DEFINE L == Len(bytes)
           c == ChunkSize
           n == ChunkCount(bytes)
           End(i) == IF i * c < L THEN i * c ELSE L
           W == [i \in 1 .. n |-> SubSeq(bytes, 1, End(i))]
           seqs == [j \in 1 .. n |-> chunks[j - 1]]
<1>1. /\ L \in Nat /\ c \in Nat \ {0} /\ n \in Nat \ {0}
      /\ \A i \in 2 .. n : (i - 1) * c < L
      /\ L <= n * c
    BY LenProperties, ChunkSizeAssumption, SliceBounds
<1>2. ASSUME NEW i \in 1 .. n PROVE seqs[i] = SubSeq(bytes, (i - 1) * c + 1, End(i))
  <2> HIDE DEF n
  <2>1. i - 1 \in 0 .. n - 1 /\ i - 1 + 1 = i
      BY <1>1
  <2>2. seqs[i] = Slice(bytes, i - 1)
      BY <2>1 DEF n
  <2> QED
      BY <2>1, <2>2 DEF Slice
<1> HIDE DEF L, c, n, seqs
<1>3. W[1] = seqs[1]
  <2>1. 1 \in 1 .. n /\ (1 - 1) * c + 1 = 1
      BY <1>1
  <2> QED
      BY <1>2, <2>1
<1>4. \A i \in 2 .. n : W[i] = W[i - 1] \o seqs[i]
  <2> SUFFICES ASSUME NEW i \in 2 .. n PROVE W[i] = W[i - 1] \o seqs[i]
      OBVIOUS
  <2>1. i \in 1 .. n /\ i - 1 \in 1 .. n /\ i \in Nat /\ i - 1 \in Nat
      BY <1>1
  <2>2. (i - 1) * c < L /\ (i - 1) * c \in Nat /\ i * c \in Nat /\ (i - 1) * c <= i * c
      BY <1>1, <2>1
  <2>3. End(i - 1) = (i - 1) * c /\ End(i) \in Nat /\ (i - 1) * c <= End(i) /\ End(i) <= L
      BY <1>1, <2>2
  <2>4. W[i] = SubSeq(bytes, 1, End(i)) /\ W[i - 1] = SubSeq(bytes, 1, End(i - 1))
      BY <2>1
  <2>5. seqs[i] = SubSeq(bytes, (i - 1) * c + 1, End(i))
      BY <1>2, <2>1
  <2> DEFINE a == (i - 1) * c
             b == End(i)
  <2>6. a \in Nat /\ b \in Nat /\ a <= b /\ b <= Len(bytes)
      BY <2>2, <2>3 DEF L
  <2>7. /\ W[i] = SubSeq(bytes, 1, b) /\ W[i - 1] = SubSeq(bytes, 1, a)
        /\ seqs[i] = SubSeq(bytes, a + 1, b)
      BY <2>3, <2>4, <2>5, Zenon
  <2> HIDE DEF W, a, b
  <2> QED
      BY <2>6, <2>7, JoinNeighbours
<1>5. FlattenSeq(seqs) = W[n]
  <2>1. Len(seqs) = n
      BY <1>1 DEF seqs
  <2>2. W \in [1 .. n -> Range(W)]
      BY DEF Range
  <2>3. n \in Nat \ {0}
      BY <1>1
  <2> HIDE DEF W
  <2> QED
      BY <1>3, <1>4, <2>1, <2>2, <2>3, FlattenByPrefixes
<1>6. W[n] = bytes
  <2>1. n \in 1 .. n /\ End(n) = L
      BY <1>1
  <2>2. W[n] = SubSeq(bytes, 1, L)
      BY <2>1
  <2>3. SubSeq(bytes, 1, L) = bytes
    <3> DEFINE w == SubSeq(bytes, 1, L)
    <3>1. \A i \in 1 .. L : bytes[i] \in B
        BY ElementOfSeq DEF L
    <3>2. /\ w \in Seq(B) /\ Len(w) = IF 1 <= L THEN L - 1 + 1 ELSE 0
          /\ \A i \in 1 .. L - 1 + 1 : w[i] = bytes[1 + i - 1]
        BY <1>1, <3>1, SubSeqProperties
    <3> HIDE DEF w
    <3>3. Len(w) = L /\ \A i \in 1 .. Len(w) : w[i] = bytes[i]
        BY <1>1, <3>2
    <3>4. w = bytes
        BY <3>2, <3>3, SeqEqual DEF L
    <3> QED
        BY <3>4 DEF w
  <2> QED
      BY <2>2, <2>3
<1> QED
    BY <1>5, <1>6 DEF Join, n, seqs

-----------------------------------------------------------------------------
(***************************************************************************)
(* Which envelopes have arrived                                            *)
(***************************************************************************)

(* No envelope arrives more often than it was sent.                        *)
Spare == \A e \in Envelopes : copies[e] <= CopiesOf(e)

(* The entry of an undamaged transfer is a part of what was posted.        *)
Intact ==
    \A t \in Transfers : Untouched(t) =>
        \A k \in DOMAIN pending : pending[k].tid = t =>
            /\ pending[k].meta = Meta(t)
            /\ \A i \in DOMAIN pending[k].chunks : pending[k].chunks[i] = Slice(Posted[t], i)

(* The table has chunk i of transfer t.                                    *)
Holds(t, i) == \E k \in DOMAIN pending : pending[k].tid = t /\ i \in DOMAIN pending[k].chunks

(* What has arrived of an undamaged transfer is held until it is delivered *)
(* or dropped.                                                             *)
Kept ==
    \A t \in Transfers : Untouched(t) /\ t \notin dropped /\ deliveries[t] = 0 =>
        \A e \in Encoded(t) : Arrived(e) > 0 => Holds(t, e.index)

(* A delivery, and a chunk that is held, has its copy among the arrivals.  *)
Paid ==
    \A t \in Transfers : ~Recut(t) => \A i \in 0 .. ChunkCount(Posted[t]) - 1 :
        /\ IsFiniteSet(ArrivedCopies(t, i))
        /\ deliveries[t] + (IF Holds(t, i) THEN 1 ELSE 0) <= Cardinality(ArrivedCopies(t, i))

(* The counts of an envelope are numbers.                                  *)
LEMMA ArrivalTypes ==
    ASSUME TypeOK, Spare, NEW e \in Envelopes
    PROVE  CopiesOf(e) \in Nat /\ copies[e] \in Nat /\ Arrived(e) \in Nat
<1>1. CopiesOf(e) \in Nat
    BY CopiesCounted
<1>2. copies[e] \in Nat /\ copies[e] <= CopiesOf(e)
    BY DEF TypeOK, Spare
<1> QED
    BY <1>1, <1>2 DEF Arrived

(* An arrival counts for its envelope and for no other.                    *)
LEMMA ArrivalCounts ==
    ASSUME TypeOK, Spare, NEW e \in Envelopes, Arrives(e)
    PROVE  /\ Spare' /\ Arrived(e)' = Arrived(e) + 1
           /\ \A f \in Envelopes : f # e => Arrived(f)' = Arrived(f)
<1>1. /\ copies' = [copies EXCEPT ![e] = copies[e] - 1] /\ DOMAIN copies = Envelopes
      /\ copies[e] > 0
    BY DEF Arrives, TypeOK
<1>2. copies'[e] = copies[e] - 1 /\ \A f \in Envelopes : f # e => copies'[f] = copies[f]
    BY <1>1
<1>3. CopiesOf(e) \in Nat /\ copies[e] \in Nat
    BY ArrivalTypes
<1>4. \A f \in Envelopes : copies[f] \in Nat /\ copies[f] <= CopiesOf(f)
    BY DEF TypeOK, Spare
<1>5. Spare'
  <2> SUFFICES ASSUME NEW f \in Envelopes PROVE copies'[f] <= CopiesOf(f)
      BY DEF Spare, CopiesOf
  <2> QED
      BY <1>2, <1>3, <1>4
<1>6. \A f : Arrived(f)' = CopiesOf(f) - copies'[f]
    BY DEF Arrived, CopiesOf
<1>7. Arrived(e)' = Arrived(e) + 1
    BY <1>2, <1>3, <1>6 DEF Arrived
<1> QED
    BY <1>2, <1>5, <1>6, <1>7 DEF Arrived

(* Damage is not forgotten, and a damaged envelope that arrives is damage. *)
LEMMA UntouchedBefore ==
    ASSUME TypeOK, Spare, NEW e \in Envelopes, Arrives(e), NEW t, Untouched(t)'
    PROVE  Untouched(t) /\ (e.tid = t => e \notin Damaged)
<1>1. \A f \in Damaged : f \in Envelopes
    BY DEF Envelopes
<1>2. Arrived(e) \in Nat
    BY ArrivalTypes
<1>3. \A f \in Damaged : f.tid = t => Arrived(f)' = 0
    BY DEF Untouched
<1>4. e \in Damaged => e.tid # t
    BY <1>2, <1>3, ArrivalCounts
<1>5. \A f \in Damaged : f.tid = t => Arrived(f) = 0
    BY <1>1, <1>3, <1>4, ArrivalCounts
<1> QED
    BY <1>4, <1>5 DEF Untouched

(* What encode_chunked_bodies has made.                                    *)
LEMMA GenuineShape ==
    ASSUME NEW t \in Transfers, NEW e \in Encoded(t)
    PROVE  /\ e \in Envelopes /\ e.tid = t /\ e.meta = Meta(t)
           /\ e.data = Slice(Posted[t], e.index)
           /\ e.index \in 0 .. e.meta.count - 1 /\ e.meta.count = ChunkCount(Posted[t])
           /\ ChunkCount(Posted[t]) \in Nat \ {0}
           /\ WellFormed(e)
<1>1. PICK i \in 0 .. ChunkCount(Posted[t]) - 1 :
        e = [tid |-> t, meta |-> Meta(t), index |-> i, data |-> Slice(Posted[t], i)]
    BY DEF Encoded
<1>2. e.tid = t /\ e.meta = Meta(t) /\ e.index = i /\ e.data = Slice(Posted[t], i)
    BY <1>1
<1>3. Meta(t).count = ChunkCount(Posted[t])
    BY DEF Meta
<1>4. ChunkCount(Posted[t]) \in Nat \ {0}
    BY PostedAssumption, SliceBounds
<1>5. e \in Envelopes
    BY DEF Envelopes, Genuine
<1>6. WellFormed(e)
    BY <1>2, <1>3, <1>4 DEF WellFormed
<1> QED
    BY <1>2, <1>3, <1>4, <1>5, <1>6

(* An envelope the relay has not damaged is one the sender made.            *)
LEMMA UndamagedIsGenuine ==
    ASSUME NEW e \in Envelopes, e \notin Damaged
    PROVE  e.tid \in Transfers /\ e \in Encoded(e.tid)
<1>1. PICK t \in Transfers : e \in Encoded(t)
    BY DEF Envelopes, Genuine
<1>2. e.tid = t
    BY <1>1, GenuineShape
<1> QED
    BY <1>1, <1>2

(* The entries of the other transfers, before and after the lookup.        *)
LEMMA OthersAre ==
    ASSUME pending \in Seq(Entries), Bounded, NEW e \in Envelopes
    PROVE  /\ \A i \in DOMAIN Others(e) : \E k \in DOMAIN pending :
                 Others(e)[i] = pending[k] /\ pending[k].tid # e.tid
           /\ \A k \in DOMAIN pending :
                 pending[k].tid # e.tid /\ pending[k].tid \in Tids(Touched(e)) =>
                 \E i \in DOMAIN Others(e) : Others(e)[i] = pending[k]
<1> DEFINE O == Others(e)
<1>1. /\ Touched(e) = Append(O, State(e)) /\ O \in Seq(Entries) /\ State(e) \in Entries
      /\ State(e).tid = e.tid
    BY LookupShape
<1>2. PICK f \in [DOMAIN O -> DOMAIN pending] :
        \A i \in DOMAIN O : O[i] = pending[f[i]] /\ O[i].tid # e.tid
    BY LookupShape DEF Embeds
<1> HIDE DEF O
<1>3. /\ Len(Append(O, State(e))) = Len(O) + 1 /\ Append(O, State(e)) \in Seq(Entries)
      /\ \A i \in 1 .. Len(O) : Append(O, State(e))[i] = O[i]
      /\ Append(O, State(e))[Len(O) + 1] = State(e)
    BY <1>1, AppendProperties
<1>4. Len(O) \in Nat /\ DOMAIN O = 1 .. Len(O) /\ DOMAIN Append(O, State(e)) = 1 .. Len(O) + 1
    BY <1>1, <1>3, LenProperties
<1>5. ASSUME NEW k \in DOMAIN pending, pending[k].tid # e.tid, pending[k].tid \in Tids(Touched(e))
      PROVE  \E i \in DOMAIN O : O[i] = pending[k]
  <2>1. PICK i \in DOMAIN Append(O, State(e)) : Append(O, State(e))[i].tid = pending[k].tid
      BY <1>1, <1>5 DEF Tids
  <2>2. i \in DOMAIN O /\ Append(O, State(e))[i] = O[i]
    <3>1. i # Len(O) + 1
        BY <1>1, <1>3, <1>5, <2>1
    <3>2. i \in 1 .. Len(O)
        BY <1>4, <3>1
    <3> QED
        BY <1>3, <1>4, <3>2
  <2>3. pending[f[i]].tid = pending[k].tid /\ f[i] \in DOMAIN pending
      BY <1>2, <2>1, <2>2
  <2>4. f[i] = k
      BY <2>3 DEF Bounded
  <2> QED
      BY <1>2, <2>2, <2>4
<1> QED
    BY <1>2, <1>5 DEF O

(* The table after a push that has moved, stored or taken out the entry y  *)
(* of its transfer: what is in it was in it, apart from y, and what is not *)
(* in it any more was dropped, apart from y.                               *)
LEMMA PushedTable ==
    ASSUME TypeOK, TableSound, NEW e \in Envelopes, Touch(e), NEW y \in Entries, y.tid = e.tid,
           pending' = Others(e) \/ pending' = Append(Others(e), y)
    PROVE  /\ \A k \in DOMAIN pending' :
                 \/ pending'[k] = y /\ pending' = Append(Others(e), y)
                 \/ \E j \in DOMAIN pending : pending'[k] = pending[j] /\ pending[j].tid # e.tid
           /\ \A j \in DOMAIN pending :
                 pending[j].tid # e.tid /\ pending[j].tid \notin dropped' =>
                 \E k \in DOMAIN pending' : pending'[k] = pending[j]
           /\ pending' = Append(Others(e), y) => \E k \in DOMAIN pending' : pending'[k] = y
<1> DEFINE O == Others(e)
<1>1. pending \in Seq(Entries) /\ Bounded
    BY DEF TypeOK, TableSound, Bounded
<1>2. /\ \A i \in DOMAIN O : \E k \in DOMAIN pending : O[i] = pending[k] /\ pending[k].tid # e.tid
      /\ \A k \in DOMAIN pending :
            pending[k].tid # e.tid /\ pending[k].tid \in Tids(Touched(e)) =>
            \E i \in DOMAIN O : O[i] = pending[k]
    BY <1>1, OthersAre
<1>3. O \in Seq(Entries)
    BY <1>1, LookupShape
<1>4. \A j \in DOMAIN pending : pending[j].tid \notin dropped' => pending[j].tid \in Tids(Touched(e))
    BY DEF Touch, Tids
<1>5. CASE pending' = O
    BY <1>2, <1>4, <1>5
<1>6. CASE pending' = Append(O, y)
  <2> HIDE DEF O
  <2>1. /\ Len(Append(O, y)) = Len(O) + 1 /\ Append(O, y) \in Seq(Entries)
        /\ \A i \in 1 .. Len(O) : Append(O, y)[i] = O[i]
        /\ Append(O, y)[Len(O) + 1] = y
      BY <1>3, AppendProperties
  <2>2. Len(O) \in Nat /\ DOMAIN O = 1 .. Len(O) /\ DOMAIN Append(O, y) = 1 .. Len(O) + 1
      BY <1>3, <2>1, LenProperties
  <2>3. \A k \in DOMAIN pending' : k \in DOMAIN O \/ k = Len(O) + 1
      BY <1>6, <2>2
  <2>4. /\ \A i \in DOMAIN O : i \in DOMAIN pending' /\ pending'[i] = O[i]
        /\ Len(O) + 1 \in DOMAIN pending' /\ pending'[Len(O) + 1] = y
      BY <1>6, <2>1, <2>2
  <2>5. \A k \in DOMAIN pending' :
           \/ pending'[k] = y
           \/ \E j \in DOMAIN pending : pending'[k] = pending[j] /\ pending[j].tid # e.tid
      BY <1>2, <2>3, <2>4
  <2>6. \A j \in DOMAIN pending :
           pending[j].tid # e.tid /\ pending[j].tid \notin dropped' =>
           \E k \in DOMAIN pending' : pending'[k] = pending[j]
      BY <1>2, <1>4, <2>4
  <2> QED
      BY <1>6, <2>4, <2>5, <2>6 DEF O
<1> QED
    BY <1>5, <1>6

(* A complete transfer has all chunks from 0 to its count.                 *)
LEMMA StoredWhole ==
    ASSUME pending \in Seq(Entries), Bounded, NEW e \in Envelopes,
           WellFormed(e), Consistent(e), Completes(e)
    PROVE  /\ DOMAIN Stored(e) = DOMAIN State(e).chunks \cup {e.index}
           /\ DOMAIN Stored(e) = 0 .. e.meta.count - 1
<1>1. State(e) \in Entries
    BY LookupShape
<1>2. State(e).meta = e.meta /\ e.meta.count \in Nat /\ e.index \in 0 .. e.meta.count - 1
    BY EnvelopeShape DEF Consistent, WellFormed
<1>3. DOMAIN State(e).chunks \subseteq 0 .. e.meta.count - 1
    BY <1>1, <1>2 DEF Entries
<1>4. DOMAIN Stored(e) = DOMAIN State(e).chunks \cup {e.index}
    BY DEF Stored
<1>5. DOMAIN Stored(e) \in SUBSET (0 .. e.meta.count - 1)
    BY <1>2, <1>3, <1>4
<1>6. /\ IsFiniteSet(0 .. e.meta.count - 1)
      /\ Cardinality(0 .. e.meta.count - 1) = e.meta.count
  <2>1. 0 \in Int /\ e.meta.count - 1 \in Int
      BY <1>2
  <2>2. /\ IsFiniteSet(0 .. e.meta.count - 1)
        /\ Cardinality(0 .. e.meta.count - 1) =
              IF 0 > e.meta.count - 1 THEN 0 ELSE e.meta.count - 1 - 0 + 1
      BY <2>1, FS_Interval
  <2> QED
      BY <1>2, <2>2
<1>7. Cardinality(DOMAIN Stored(e)) = e.meta.count
    BY <1>2 DEF Completes
<1> QED
    BY <1>4, <1>5, <1>6, <1>7, FS_Subset

(* An envelope of an undamaged transfer agrees with what the table has of  *)
(* it, and the last one makes it the posted payload.                       *)
LEMMA UndamagedPasses ==
    ASSUME TypeOK, TableSound, Spare, Intact, NEW e \in Envelopes, Arrives(e), Untouched(e.tid)'
    PROVE  /\ e.tid \in Transfers /\ e \in Encoded(e.tid)
           /\ WellFormed(e) /\ Consistent(e) /\ ~Conflicting(e)
           /\ State(e).meta = Meta(e.tid)
           /\ \A i \in DOMAIN Stored(e) : Stored(e)[i] = Slice(Posted[e.tid], i)
           /\ Completes(e) => Verified(Payload(e), State(e).meta)
<1>1. pending \in Seq(Entries) /\ Bounded
    BY DEF TypeOK, TableSound, Bounded
<1>2. Untouched(e.tid) /\ e \notin Damaged
    BY UntouchedBefore
<1>3. e.tid \in Transfers /\ e \in Encoded(e.tid)
    BY <1>2, UndamagedIsGenuine
<1>4. /\ e.meta = Meta(e.tid) /\ e.data = Slice(Posted[e.tid], e.index) /\ WellFormed(e)
      /\ e.meta.count = ChunkCount(Posted[e.tid])
    BY <1>3, GenuineShape
<1>5. /\ State(e).meta = e.meta
      /\ \A i \in DOMAIN State(e).chunks : State(e).chunks[i] = Slice(Posted[e.tid], i)
  <2>1. CASE State(e) = Fresh(e)
      BY <2>1, FreshIsEntry
  <2>2. CASE \E k \in DOMAIN pending : State(e) = pending[k]
    <3>1. PICK k \in DOMAIN pending : State(e) = pending[k]
        BY <2>2
    <3>2. pending[k].tid = e.tid
        BY <1>1, <3>1, LookupShape
    <3> QED
        BY <1>2, <1>3, <1>4, <3>1, <3>2 DEF Intact
  <2> QED
      BY <1>1, <2>1, <2>2, LookupShape
<1>6. Consistent(e) /\ ~Conflicting(e)
    BY <1>4, <1>5 DEF Consistent, Conflicting
<1>7. \A i \in DOMAIN Stored(e) : Stored(e)[i] = Slice(Posted[e.tid], i)
    BY <1>4, <1>5 DEF Stored
<1>8. ASSUME Completes(e) PROVE Verified(Payload(e), State(e).meta)
  <2>1. DOMAIN Stored(e) = 0 .. ChunkCount(Posted[e.tid]) - 1
      BY <1>1, <1>4, <1>6, <1>8, StoredWhole
  <2>2. Join(Stored(e), ChunkCount(Posted[e.tid])) = Posted[e.tid]
    <3>1. Posted[e.tid] \in Seq(Range(Posted[e.tid]))
        BY <1>3, PostedAssumption
    <3>2. \A i \in 0 .. ChunkCount(Posted[e.tid]) - 1 : Stored(e)[i] = Slice(Posted[e.tid], i)
        BY <1>7, <2>1
    <3> QED
        BY <3>1, <3>2, JoinOfSlices
  <2>3. Payload(e) = Posted[e.tid]
      BY <1>4, <1>5, <2>2 DEF Payload
  <2>4. /\ Meta(e.tid).total = Len(Posted[e.tid]) /\ Meta(e.tid).sha = Sha256(Posted[e.tid])
        /\ Meta(e.tid).encoding = "identity"
      BY DEF Meta
  <2> QED
      BY <1>4, <1>5, <2>3, <2>4 DEF Verified
<1> QED
    BY <1>3, <1>4, <1>5, <1>6, <1>7, <1>8

(* The entry that the lookup finds is the transfer's own.                  *)
LEMMA StateIsEntry ==
    ASSUME pending \in Seq(Entries), Bounded, NEW e \in Envelopes,
           NEW k \in DOMAIN pending, pending[k].tid = e.tid
    PROVE  State(e) = pending[k]
<1>1. e.tid \in Tids(pending)
    BY DEF Tids
<1>2. PICK m \in DOMAIN pending : State(e) = pending[m]
    BY <1>1, LookupShape
<1>3. pending[m].tid = e.tid
    BY <1>2, LookupShape
<1> QED
    BY <1>2, <1>3 DEF Bounded

(* What is known of undamaged transfers. OnlyDamageIsRejected and           *)
(* DeliveredWhenAllArrived are not inductive: they need what an undamaged  *)
(* entry holds (Intact) and that nothing of it was lost (Kept).            *)
FaithInv == IInv /\ Spare /\ Intact /\ Kept /\ OnlyDamageIsRejected

(* A push of one transfer and what is known of the others.                 *)
LEMMA OthersKept ==
    ASSUME FaithInv, NEW e \in Envelopes, Arrives(e), Touch(e), NEW y \in Entries, y.tid = e.tid,
           pending' = Others(e) \/ pending' = Append(Others(e), y),
           NEW t \in Transfers, t # e.tid, Untouched(t)', t \notin dropped', deliveries[t] = 0,
           NEW f \in Encoded(t), Arrived(f)' > 0
    PROVE  Holds(t, f.index)'
<1>1. TypeOK /\ TableSound /\ Spare /\ Kept
    BY DEF FaithInv, IInv
<1>2. f \in Envelopes /\ f.tid = t
    BY GenuineShape
<1>3. Arrived(f) > 0
    BY <1>1, <1>2, ArrivalCounts
<1>4. Untouched(t) /\ t \notin dropped
    BY <1>1, UntouchedBefore DEF Touch
<1>5. PICK j \in DOMAIN pending : pending[j].tid = t /\ f.index \in DOMAIN pending[j].chunks
    BY <1>1, <1>3, <1>4 DEF Kept, Holds
<1>6. PICK k \in DOMAIN pending' : pending'[k] = pending[j]
    BY <1>1, <1>5, PushedTable
<1> QED
    BY <1>5, <1>6 DEF Holds

(* What is stored of undamaged transfers after a push.                     *)
LEMMA StillIntact ==
    ASSUME FaithInv, NEW e \in Envelopes, Arrives(e), Touch(e), NEW y \in Entries, y.tid = e.tid,
           pending' = Others(e) \/ pending' = Append(Others(e), y),
           pending' = Append(Others(e), y) /\ Untouched(e.tid)' =>
              /\ y.meta = Meta(e.tid)
              /\ \A i \in DOMAIN y.chunks : y.chunks[i] = Slice(Posted[e.tid], i)
    PROVE  Intact'
<1>1. TypeOK /\ TableSound /\ Spare /\ Intact
    BY DEF FaithInv, IInv
<1> SUFFICES ASSUME NEW t \in Transfers, Untouched(t)', NEW k \in DOMAIN pending', pending'[k].tid = t
             PROVE  /\ pending'[k].meta = Meta(t)
                    /\ \A i \in DOMAIN pending'[k].chunks : pending'[k].chunks[i] = Slice(Posted[t], i)
    BY DEF Intact, Meta, Slice
<1>2. CASE pending'[k] = y /\ pending' = Append(Others(e), y)
    BY <1>2
<1>3. CASE \E j \in DOMAIN pending : pending'[k] = pending[j] /\ pending[j].tid # e.tid
  <2>1. PICK j \in DOMAIN pending : pending'[k] = pending[j]
      BY <1>3
  <2>2. Untouched(t)
      BY <1>1, UntouchedBefore
  <2> QED
      BY <1>1, <2>1, <2>2 DEF Intact
<1> QED
    BY <1>1, <1>2, <1>3, PushedTable

(* push raises: the transfer was damaged.                                  *)
LEMMA RefusedIsDamaged ==
    ASSUME FaithInv, NEW e \in Envelopes, PushMalformed(e) \/ PushRejected(e) \/ PushCorrupt(e)
    PROVE  Arrives(e) /\ ~Untouched(e.tid)' /\ OnlyDamageIsRejected'
<1>1. TypeOK /\ TableSound /\ Spare /\ Intact /\ OnlyDamageIsRejected
    BY DEF FaithInv, IInv
<1>2. Arrives(e) /\ rejected' = rejected \cup {e.tid}
    BY DEF PushMalformed, PushRejected, PushCorrupt
<1>3. ~Untouched(e.tid)'
    BY <1>1, <1>2, UndamagedPasses DEF PushMalformed, PushRejected, PushCorrupt
<1>4. \A t : Untouched(t)' => Untouched(t)
    BY <1>1, <1>2, UntouchedBefore
<1> QED
    BY <1>1, <1>2, <1>3, <1>4 DEF OnlyDamageIsRejected

(* Every push and clear() keep what is known of undamaged transfers.       *)
LEMMA FaithStep == FaithInv /\ [Next]_vars => FaithInv'
<1> SUFFICES ASSUME FaithInv, [Next]_vars PROVE FaithInv'
    OBVIOUS
<1>0. TypeOK /\ TableSound /\ Spare /\ Intact /\ Kept /\ OnlyDamageIsRejected
    BY DEF FaithInv, IInv
<1>i. IInv'
    BY NextIInv DEF FaithInv
<1>b. pending \in Seq(Entries) /\ Bounded
    BY <1>0 DEF TypeOK, TableSound, Bounded
<1> USE DEF FaithInv
<1>1. CASE UNCHANGED vars
  <2>1. \A t : Untouched(t)' <=> Untouched(t)
      BY <1>1 DEF vars, Untouched, Arrived, CopiesOf
  <2>2. \A f : Arrived(f)' = Arrived(f)
      BY <1>1 DEF vars, Arrived, CopiesOf
  <2>3. Spare' /\ Intact' /\ OnlyDamageIsRejected'
      BY <1>0, <1>1, <2>1 DEF vars, Spare, CopiesOf, Intact, Meta, Slice, OnlyDamageIsRejected
  <2>4. Kept'
      BY <1>0, <1>1, <2>1, <2>2 DEF vars, Kept, Holds, Encoded, Meta, Slice
  <2> QED
      BY <1>i, <2>3, <2>4
<1>2. CASE Clear
  <2>1. /\ pending' = <<>> /\ dropped' = dropped \cup Tids(pending) /\ copies' = copies
        /\ deliveries' = deliveries /\ rejected' = rejected
      BY <1>2 DEF Clear
  <2>2. \A t : Untouched(t)' <=> Untouched(t)
      BY <2>1 DEF Untouched, Arrived, CopiesOf
  <2>3. Spare' /\ OnlyDamageIsRejected'
      BY <1>0, <2>1, <2>2 DEF Spare, CopiesOf, OnlyDamageIsRejected
  <2>4. Intact'
      BY <2>1 DEF Intact
  <2>5. Kept'
    <3> SUFFICES ASSUME NEW t \in Transfers, Untouched(t)', t \notin dropped', deliveries'[t] = 0,
                        NEW f \in Encoded(t), Arrived(f)' > 0
                 PROVE  FALSE
        BY DEF Kept, Encoded, Meta, Slice
    <3>1. Arrived(f) > 0
        BY <2>1 DEF Arrived, CopiesOf
    <3>2. Holds(t, f.index)
        BY <1>0, <2>1, <2>2, <3>1 DEF Kept
    <3> QED
        BY <2>1, <3>2 DEF Holds, Tids
  <2> QED
      BY <1>i, <2>3, <2>4, <2>5
<1>3. ASSUME NEW e \in Envelopes, PushMalformed(e) PROVE FaithInv'
  <2>1. Arrives(e) /\ ~Untouched(e.tid)' /\ OnlyDamageIsRejected'
      BY <1>3, RefusedIsDamaged
  <2>2. /\ pending' = pending /\ deliveries' = deliveries /\ dropped' = dropped
        /\ \A t : Untouched(t)' => Untouched(t)
      BY <1>0, <1>3, <2>1, UntouchedBefore DEF PushMalformed
  <2>3. Spare'
      BY <1>0, <2>1, ArrivalCounts
  <2>4. Intact'
      BY <1>0, <2>2 DEF Intact, Meta, Slice
  <2>5. Kept'
    <3> SUFFICES ASSUME NEW t \in Transfers, Untouched(t)', t \notin dropped', deliveries'[t] = 0,
                        NEW f \in Encoded(t), Arrived(f)' > 0
                 PROVE  Holds(t, f.index)'
        BY DEF Kept, Encoded, Meta, Slice
    <3>1. f \in Envelopes /\ f # e
        BY <2>1, GenuineShape
    <3>2. Arrived(f) > 0
        BY <1>0, <2>1, <3>1, ArrivalCounts
    <3> QED
        BY <1>0, <2>2, <3>2 DEF Kept, Holds
  <2> QED
      BY <1>i, <2>1, <2>3, <2>4, <2>5
<1>4. ASSUME NEW e \in Envelopes, PushRejected(e) \/ PushCorrupt(e) PROVE FaithInv'
  <2>1. Arrives(e) /\ ~Untouched(e.tid)' /\ OnlyDamageIsRejected'
      BY <1>4, RefusedIsDamaged
  <2>2. Touch(e) /\ deliveries' = deliveries
      BY <1>4 DEF PushRejected, PushCorrupt
  <2>3. State(e) \in Entries /\ State(e).tid = e.tid /\ Touched(e) = Append(Others(e), State(e))
      BY <1>b, LookupShape
  <2>4. pending' = Others(e) \/ pending' = Append(Others(e), State(e))
      BY <1>4, <2>3 DEF PushRejected, PushCorrupt
  <2>5. Spare'
      BY <1>0, <2>1, ArrivalCounts
  <2>6. Intact'
      BY <2>1, <2>2, <2>3, <2>4, StillIntact
  <2>7. Kept'
    <3> SUFFICES ASSUME NEW t \in Transfers, Untouched(t)', t \notin dropped', deliveries'[t] = 0,
                        NEW f \in Encoded(t), Arrived(f)' > 0
                 PROVE  Holds(t, f.index)'
        BY DEF Kept, Encoded, Meta, Slice
    <3> QED
        BY <2>1, <2>2, <2>3, <2>4, OthersKept
  <2> QED
      BY <1>i, <2>1, <2>5, <2>6, <2>7
<1>5. ASSUME NEW e \in Envelopes, PushPartial(e) PROVE FaithInv'
  <2> DEFINE y == [State(e) EXCEPT !.chunks = Stored(e)]
  <2>1. Arrives(e) /\ Touch(e) /\ deliveries' = deliveries /\ rejected' = rejected
      BY <1>5 DEF PushPartial
  <2>2. y \in Entries /\ y.tid = e.tid
      BY <1>b, <1>5, StoredIsEntry DEF PushPartial
  <2>3. pending' = Append(Others(e), y)
      BY <1>5 DEF PushPartial
  <2>4. y.meta = State(e).meta /\ y.chunks = Stored(e)
      BY <1>b, LookupShape DEF Entries
  <2> HIDE DEF y
  <2>5. Spare'
      BY <1>0, <2>1, ArrivalCounts
  <2>6. Intact'
    <3>1. Untouched(e.tid)' => /\ y.meta = Meta(e.tid)
                               /\ \A i \in DOMAIN y.chunks : y.chunks[i] = Slice(Posted[e.tid], i)
        BY <1>0, <2>1, <2>4, UndamagedPasses
    <3> QED
        BY <2>1, <2>2, <2>3, <3>1, StillIntact
  <2>7. OnlyDamageIsRejected'
      BY <1>0, <2>1, UntouchedBefore DEF OnlyDamageIsRejected
  <2>8. Kept'
    <3> SUFFICES ASSUME NEW t \in Transfers, Untouched(t)', t \notin dropped', deliveries'[t] = 0,
                        NEW f \in Encoded(t), Arrived(f)' > 0
                 PROVE  Holds(t, f.index)'
        BY DEF Kept, Encoded, Meta, Slice
    <3>1. CASE t # e.tid
        BY <2>1, <2>2, <2>3, <3>1, OthersKept
    <3>2. CASE t = e.tid
      <4>1. PICK k \in DOMAIN pending' : pending'[k] = y
          BY <1>0, <2>1, <2>2, <2>3, PushedTable
      <4>2. DOMAIN Stored(e) = DOMAIN State(e).chunks \cup {e.index}
          BY DEF Stored
      <4>3. ASSUME f # e PROVE f.index \in DOMAIN State(e).chunks
        <5>1. Arrived(f) > 0
            BY <1>0, <2>1, <4>3, ArrivalCounts, GenuineShape
        <5>2. Untouched(t) /\ t \notin dropped
            BY <1>0, <2>1, UntouchedBefore DEF Touch
        <5>3. PICK m \in DOMAIN pending : pending[m].tid = t /\ f.index \in DOMAIN pending[m].chunks
            BY <1>0, <2>1, <5>1, <5>2 DEF Kept, Holds
        <5> QED
            BY <1>b, <3>2, <5>3, StateIsEntry
      <4>4. f.index \in DOMAIN y.chunks
          BY <2>4, <4>2, <4>3
      <4> QED
          BY <2>2, <3>2, <4>1, <4>4 DEF Holds
    <3> QED
        BY <3>1, <3>2
  <2> QED
      BY <1>i, <2>5, <2>6, <2>7, <2>8
<1>6. ASSUME NEW e \in Envelopes, PushComplete(e) PROVE FaithInv'
  <2>1. /\ Arrives(e) /\ Touch(e) /\ rejected' = rejected /\ pending' = Others(e)
        /\ deliveries' = [deliveries EXCEPT ![e.tid] = @ + 1]
      BY <1>6 DEF PushComplete
  <2>2. State(e) \in Entries /\ State(e).tid = e.tid /\ e.tid \in Transfers
      BY <1>b, LookupShape, EnvelopeShape
  <2>3. Spare'
      BY <1>0, <2>1, ArrivalCounts
  <2>4. Intact'
    <3>1. pending' # Append(Others(e), State(e))
      <4>1. Others(e) \in Seq(Entries)
          BY <1>b, LookupShape
      <4>2. Len(Append(Others(e), State(e))) = Len(Others(e)) + 1 /\ Len(Others(e)) \in Nat
          BY <2>2, <4>1, AppendProperties, LenProperties
      <4> QED
          BY <2>1, <4>2
    <3> QED
        BY <2>1, <2>2, <3>1, StillIntact
  <2>5. OnlyDamageIsRejected'
      BY <1>0, <2>1, UntouchedBefore DEF OnlyDamageIsRejected
  <2>6. Kept'
    <3> SUFFICES ASSUME NEW t \in Transfers, Untouched(t)', t \notin dropped', deliveries'[t] = 0,
                        NEW f \in Encoded(t), Arrived(f)' > 0
                 PROVE  Holds(t, f.index)'
        BY DEF Kept, Encoded, Meta, Slice
    <3>1. deliveries \in [Transfers -> Nat]
        BY <1>0 DEF TypeOK
    <3>2. t # e.tid
        BY <2>1, <2>2, <3>1
    <3>3. deliveries[t] = 0
        BY <2>1, <2>2, <3>1, <3>2
    <3> QED
        BY <2>1, <2>2, <3>2, <3>3, OthersKept
  <2> QED
      BY <1>i, <2>3, <2>4, <2>5, <2>6
<1> QED
    BY <1>1, <1>2, <1>3, <1>4, <1>5, <1>6 DEF Next, Push

(* At the start the table is empty and nothing has arrived.                *)
LEMMA FaithInit == Init => FaithInv
<1> SUFFICES ASSUME Init PROVE FaithInv
    OBVIOUS
<1>1. /\ pending = <<>> /\ DOMAIN pending = {} /\ rejected = {}
      /\ \A e \in Envelopes : copies[e] = CopiesOf(e)
    BY DEF Init
<1>2. \A e \in Envelopes : CopiesOf(e) \in Nat
    BY CopiesCounted
<1>3. \A e \in Envelopes : Arrived(e) = 0
    BY <1>1, <1>2 DEF Arrived
<1>4. Spare
    BY <1>1, <1>2 DEF Spare
<1>5. Kept
    BY <1>3, GenuineShape DEF Kept
<1> QED
    BY <1>1, <1>4, <1>5, InitIInv DEF FaithInv, Intact, OnlyDamageIsRejected

(* So it holds in every state.                                             *)
LEMMA FaithAlways == Spec => []FaithInv
    BY FaithInit, FaithStep, PTL DEF Spec

(* OnlyDamageIsRejected, for push: it raises only for a transfer of which  *)
(* a damaged envelope arrived.                                             *)
THEOREM OnlyDamageRaises == Spec => []OnlyDamageIsRejected
<1>1. FaithInv => OnlyDamageIsRejected
    BY DEF FaithInv
<1> QED
    BY <1>1, FaithAlways, PTL

(* DeliveredWhenAllArrived: an undamaged transfer that was never evicted   *)
(* or cleared is delivered by the push of its last chunk, whatever the     *)
(* order of the arrivals and their repetitions. Otherwise its entry would  *)
(* hold all chunks, and push keeps no entry that does.                     *)
THEOREM AllArrivedIsDelivered == Spec => []DeliveredWhenAllArrived
<1>1. ASSUME FaithInv, NEW t \in Transfers, Untouched(t), t \notin dropped,
             \A e \in Encoded(t) : Arrived(e) > 0, ~(deliveries[t] > 0)
      PROVE  FALSE
  <2>1. TypeOK /\ TableSound /\ Intact /\ Kept
      BY <1>1 DEF FaithInv, IInv
  <2>2. deliveries[t] = 0
      BY <1>1, <2>1 DEF TypeOK
  <2> DEFINE n == ChunkCount(Posted[t])
             E(i) == [tid |-> t, meta |-> Meta(t), index |-> i, data |-> Slice(Posted[t], i)]
  <2>3. n \in Nat \ {0}
      BY PostedAssumption, SliceBounds
  <2>4. \A i \in 0 .. n - 1 : Holds(t, i)
    <3> SUFFICES ASSUME NEW i \in 0 .. n - 1 PROVE Holds(t, i)
        OBVIOUS
    <3>1. E(i) \in Encoded(t) /\ E(i).index = i
        BY DEF Encoded
    <3> HIDE DEF E
    <3> QED
        BY <1>1, <2>1, <2>2, <3>1 DEF Kept
  <2> HIDE DEF E, n
  <2>5. PICK k \in DOMAIN pending : pending[k].tid = t
      BY <2>3, <2>4 DEF Holds
  <2>6. \A i \in 0 .. n - 1 : i \in DOMAIN pending[k].chunks
      BY <2>1, <2>4, <2>5 DEF Holds, TableSound
  <2>7. pending[k].meta.count = n /\ pending[k] \in Entries
    <3>1. pending[k] \in Entries
        BY <2>1, LenProperties, ElementOfSeq DEF TypeOK
    <3>2. pending[k].meta = Meta(t)
        BY <1>1, <2>1, <2>5 DEF Intact
    <3> QED
        BY <3>1, <3>2 DEF Meta, n
  <2>8. DOMAIN pending[k].chunks = 0 .. n - 1
      BY <2>6, <2>7 DEF Entries
  <2>9. Cardinality(0 .. n - 1) = n
    <3>1. 0 \in Int /\ n - 1 \in Int
        BY <2>3
    <3>2. Cardinality(0 .. n - 1) = IF 0 > n - 1 THEN 0 ELSE n - 1 - 0 + 1
        BY <3>1, FS_Interval
    <3> QED
        BY <2>3, <3>2
  <2>10. Cardinality(DOMAIN pending[k].chunks) \in 1 .. n - 1
      BY <2>1, <2>7 DEF TableSound
  <2> QED
      BY <2>3, <2>8, <2>9, <2>10
<1>2. FaithInv => DeliveredWhenAllArrived
    BY <1>1 DEF DeliveredWhenAllArrived
<1> QED
    BY <1>2, FaithAlways, PTL

-----------------------------------------------------------------------------
(***************************************************************************)
(* What a delivery costs                                                   *)
(***************************************************************************)
(* DeliveriesPaid alone is not inductive: a delivery is paid by chunks     *)
(* that arrived earlier, so the chunks held count too (Paid).              *)
PaidInv == IInv /\ Spare /\ Paid

(* An arrival is one more copy of its chunk.                               *)
LEMMA CopiesArrive ==
    ASSUME TypeOK, Spare, NEW e \in Envelopes, Arrives(e), NEW t, NEW i,
           IsFiniteSet(ArrivedCopies(t, i))
    PROVE  /\ IsFiniteSet(ArrivedCopies(t, i)')
           /\ Cardinality(ArrivedCopies(t, i)) \in Nat /\ Cardinality(ArrivedCopies(t, i)') \in Nat
           /\ Cardinality(ArrivedCopies(t, i)) <= Cardinality(ArrivedCopies(t, i)')
           /\ e.tid = t /\ e.index = i =>
                 Cardinality(ArrivedCopies(t, i)') = Cardinality(ArrivedCopies(t, i)) + 1
<1> DEFINE S == {f \in Envelopes : f.tid = t /\ f.index = i}
           A == ArrivedCopies(t, i)
           Z == ArrivedCopies(t, i)'
           x == <<e, Arrived(e) + 1>>
<1>1. /\ Arrived(e) \in Nat /\ Arrived(e)' = Arrived(e) + 1
      /\ \A f \in Envelopes : f # e => Arrived(f)' = Arrived(f)
    BY ArrivalTypes, ArrivalCounts
<1>2. A = UNION {{f} \X (1 .. Arrived(f)) : f \in S}
    BY DEF ArrivedCopies
<1>3. Z = UNION {{f} \X (1 .. Arrived(f)') : f \in S}
    BY DEF ArrivedCopies, Envelopes, Genuine, Encoded, Meta, Slice
<1>4. CASE e \in S
  <2>1. 1 .. Arrived(e)' = (1 .. Arrived(e)) \cup {Arrived(e) + 1} /\ Arrived(e) + 1 \notin 1 .. Arrived(e)
      BY <1>1
  <2>2. Z = A \cup {x}
    <3>1. ASSUME NEW p \in Z PROVE p \in A \cup {x}
      <4>0. PICK f \in S : p \in {f} \X (1 .. Arrived(f)')
          BY <1>3
      <4>1. PICK n \in 1 .. Arrived(f)' : p = <<f, n>>
          BY <4>0
      <4>2. CASE f = e
          BY <1>2, <2>1, <4>1, <4>2
      <4>3. CASE f # e
          BY <1>1, <1>2, <4>1, <4>3
      <4> QED
          BY <4>2, <4>3
    <3>2. ASSUME NEW p \in A PROVE p \in Z
      <4>0. PICK f \in S : p \in {f} \X (1 .. Arrived(f))
          BY <1>2
      <4>1. PICK n \in 1 .. Arrived(f) : p = <<f, n>>
          BY <4>0
      <4>2. n \in 1 .. Arrived(f)'
          BY <1>1, <2>1, <4>1
      <4> QED
          BY <1>3, <4>1, <4>2
    <3>3. x \in Z
        BY <1>3, <1>4, <2>1
    <3> QED
        BY <3>1, <3>2, <3>3
  <2>3. x \notin A
      BY <1>2, <2>1
  <2> HIDE DEF A, Z, x
  <2>4. /\ IsFiniteSet(A \cup {x})
        /\ Cardinality(A \cup {x}) = Cardinality(A) + 1
        /\ Cardinality(A) \in Nat
      BY <2>3, FS_AddElement, FS_CardinalityType DEF A
  <2> QED
      BY <2>2, <2>4 DEF A, Z
<1>5. CASE e \notin S
  <2>1. \A f \in S : Arrived(f)' = Arrived(f)
      BY <1>1, <1>5
  <2>2. Z = A
      BY <1>2, <1>3, <2>1
  <2> HIDE DEF A, Z
  <2>3. Cardinality(A) \in Nat /\ Cardinality(A) <= Cardinality(A)
      BY FS_CardinalityType DEF A
  <2> QED
      BY <1>5, <2>2, <2>3 DEF A, Z
<1> QED
    BY <1>4, <1>5

(* What the lookup finds was held.                                         *)
LEMMA StateHeld ==
    ASSUME pending \in Seq(Entries), Bounded, NEW e \in Envelopes, NEW i \in DOMAIN State(e).chunks
    PROVE  Holds(e.tid, i)
<1>1. State(e) # Fresh(e)
    BY FreshIsEntry
<1>2. PICK k \in DOMAIN pending : State(e) = pending[k]
    BY <1>1, LookupShape
<1>3. pending[k].tid = e.tid
    BY <1>2, LookupShape
<1> QED
    BY <1>2, <1>3 DEF Holds

(* What is held after a push was held before, or is in the pushed entry.   *)
LEMMA HeldBefore ==
    ASSUME TypeOK, TableSound, NEW e \in Envelopes, Touch(e), NEW y \in Entries, y.tid = e.tid,
           pending' = Others(e) \/ pending' = Append(Others(e), y), NEW t, NEW i, Holds(t, i)'
    PROVE  \/ t = e.tid /\ i \in DOMAIN y.chunks /\ pending' = Append(Others(e), y)
           \/ t # e.tid /\ Holds(t, i)
<1>1. PICK k \in DOMAIN pending' : pending'[k].tid = t /\ i \in DOMAIN pending'[k].chunks
    BY DEF Holds
<1> QED
    BY <1>1, PushedTable DEF Holds

(* Every push and clear() keep the account: a push that returns the body   *)
(* takes the whole entry, and with it one copy of every chunk.             *)
LEMMA PaidStep == PaidInv /\ [Next]_vars => PaidInv'
<1> SUFFICES ASSUME PaidInv, [Next]_vars PROVE PaidInv'
    OBVIOUS
<1>0. TypeOK /\ TableSound /\ Spare /\ Paid
    BY DEF PaidInv, IInv
<1>i. IInv'
    BY NextIInv DEF PaidInv
<1>b. pending \in Seq(Entries) /\ Bounded
    BY <1>0 DEF TypeOK, TableSound, Bounded
<1>r. \A t : Recut(t)' <=> Recut(t)
    BY DEF Recut, ChunkCount
<1>1. CASE copies' = copies /\ deliveries' = deliveries /\ \A t, i : Holds(t, i)' => Holds(t, i)
  <2>1. \A t, i : ArrivedCopies(t, i)' = ArrivedCopies(t, i)
      BY <1>1 DEF ArrivedCopies, Arrived, CopiesOf, Envelopes, Genuine, Encoded, Meta, Slice
  <2>2. Paid'
    <3> SUFFICES ASSUME NEW t \in Transfers, ~Recut(t), NEW i \in 0 .. ChunkCount(Posted[t]) - 1
                 PROVE  /\ IsFiniteSet(ArrivedCopies(t, i)')
                        /\ deliveries'[t] + (IF Holds(t, i)' THEN 1 ELSE 0)
                              <= Cardinality(ArrivedCopies(t, i)')
        BY <1>r DEF Paid, ChunkCount
    <3>1. /\ IsFiniteSet(ArrivedCopies(t, i))
          /\ deliveries[t] + (IF Holds(t, i) THEN 1 ELSE 0) <= Cardinality(ArrivedCopies(t, i))
        BY <1>0 DEF Paid
    <3>2. Cardinality(ArrivedCopies(t, i)) \in Nat /\ deliveries[t] \in Nat
        BY <1>0, <3>1, FS_CardinalityType DEF TypeOK
    <3> QED
        BY <1>1, <2>1, <3>1, <3>2
  <2>3. Spare'
      BY <1>0, <1>1 DEF Spare, CopiesOf
  <2> QED
      BY <1>i, <2>2, <2>3 DEF PaidInv
<1>2. ASSUME NEW e \in Envelopes, Arrives(e),
             \A t \in Transfers : ~Recut(t) => \A i \in 0 .. ChunkCount(Posted[t]) - 1 :
                \/ /\ deliveries'[t] = deliveries[t]
                   /\ Holds(t, i)' => Holds(t, i) \/ (e.tid = t /\ e.index = i)
                \/ /\ deliveries'[t] = deliveries[t] + 1 /\ ~Holds(t, i)'
                   /\ Holds(t, i) \/ (e.tid = t /\ e.index = i)
      PROVE  PaidInv'
  <2>1. Paid'
    <3> SUFFICES ASSUME NEW t \in Transfers, ~Recut(t), NEW i \in 0 .. ChunkCount(Posted[t]) - 1
                 PROVE  /\ IsFiniteSet(ArrivedCopies(t, i)')
                        /\ deliveries'[t] + (IF Holds(t, i)' THEN 1 ELSE 0)
                              <= Cardinality(ArrivedCopies(t, i)')
        BY <1>r DEF Paid, ChunkCount
    <3> DEFINE c == Cardinality(ArrivedCopies(t, i))
               d == Cardinality(ArrivedCopies(t, i)')
    <3>1. /\ IsFiniteSet(ArrivedCopies(t, i))
          /\ deliveries[t] + (IF Holds(t, i) THEN 1 ELSE 0) <= c
        BY <1>0 DEF Paid
    <3>2. /\ IsFiniteSet(ArrivedCopies(t, i)') /\ c \in Nat /\ d \in Nat /\ c <= d
          /\ e.tid = t /\ e.index = i => d = c + 1
        BY <1>0, <1>2, <3>1, CopiesArrive
    <3>3. deliveries[t] \in Nat
        BY <1>0 DEF TypeOK
    <3> HIDE DEF c, d
    <3>4. deliveries'[t] + (IF Holds(t, i)' THEN 1 ELSE 0) <= d
      <4>1. CASE /\ deliveries'[t] = deliveries[t]
                 /\ Holds(t, i)' => Holds(t, i) \/ (e.tid = t /\ e.index = i)
          BY <3>1, <3>2, <3>3, <4>1
      <4>2. CASE /\ deliveries'[t] = deliveries[t] + 1 /\ ~Holds(t, i)'
                 /\ Holds(t, i) \/ (e.tid = t /\ e.index = i)
          BY <3>1, <3>2, <3>3, <4>2
      <4> QED
          BY <1>2, <4>1, <4>2
    <3> QED
        BY <3>2, <3>4 DEF d
  <2>2. Spare'
      BY <1>0, <1>2, ArrivalCounts
  <2> QED
      BY <1>i, <2>1, <2>2 DEF PaidInv
<1>3. CASE UNCHANGED vars
  <2>1. copies' = copies /\ deliveries' = deliveries /\ \A t, i : Holds(t, i)' => Holds(t, i)
      BY <1>3 DEF vars, Holds
  <2> QED
      BY <1>1, <2>1
<1>4. CASE Clear
  <2>1. copies' = copies /\ deliveries' = deliveries /\ pending' = <<>>
      BY <1>4 DEF Clear
  <2>2. \A t, i : ~Holds(t, i)'
      BY <2>1 DEF Holds
  <2> QED
      BY <1>1, <2>1, <2>2
<1>5. ASSUME NEW e \in Envelopes, PushMalformed(e) PROVE PaidInv'
  <2>1. Arrives(e) /\ deliveries' = deliveries /\ \A t, i : Holds(t, i)' => Holds(t, i)
      BY <1>5 DEF PushMalformed, Holds
  <2> QED
      BY <1>2, <2>1
<1>6. ASSUME NEW e \in Envelopes, PushRejected(e) \/ PushCorrupt(e) PROVE PaidInv'
  <2>1. Arrives(e) /\ Touch(e) /\ deliveries' = deliveries
      BY <1>6 DEF PushRejected, PushCorrupt
  <2>2. State(e) \in Entries /\ State(e).tid = e.tid /\ Touched(e) = Append(Others(e), State(e))
      BY <1>b, LookupShape
  <2>3. pending' = Others(e) \/ pending' = Append(Others(e), State(e))
      BY <1>6, <2>2 DEF PushRejected, PushCorrupt
  <2>4. \A t, i : Holds(t, i)' => Holds(t, i)
      BY <1>0, <1>b, <2>1, <2>2, <2>3, HeldBefore, StateHeld
  <2> QED
      BY <1>2, <2>1, <2>4
<1>7. ASSUME NEW e \in Envelopes, PushPartial(e) PROVE PaidInv'
  <2> DEFINE y == [State(e) EXCEPT !.chunks = Stored(e)]
  <2>1. Arrives(e) /\ Touch(e) /\ deliveries' = deliveries /\ pending' = Append(Others(e), y)
      BY <1>7 DEF PushPartial
  <2>2. y \in Entries /\ y.tid = e.tid
      BY <1>b, <1>7, StoredIsEntry DEF PushPartial
  <2>3. y.chunks = Stored(e) /\ DOMAIN Stored(e) = DOMAIN State(e).chunks \cup {e.index}
      BY <1>b, LookupShape DEF Entries, Stored
  <2> HIDE DEF y
  <2>4. \A t, i : Holds(t, i)' => Holds(t, i) \/ (e.tid = t /\ e.index = i)
    <3> SUFFICES ASSUME NEW t, NEW i, Holds(t, i)'
                 PROVE  Holds(t, i) \/ (e.tid = t /\ e.index = i)
        OBVIOUS
    <3>1. \/ t = e.tid /\ i \in DOMAIN y.chunks /\ pending' = Append(Others(e), y)
          \/ t # e.tid /\ Holds(t, i)
        BY <1>0, <2>1, <2>2, HeldBefore
    <3> QED
        BY <1>b, <2>3, <3>1, StateHeld
  <2> QED
      BY <1>2, <2>1, <2>4
<1>8. ASSUME NEW e \in Envelopes, PushComplete(e) PROVE PaidInv'
  <2>1. /\ Arrives(e) /\ Touch(e) /\ pending' = Others(e)
        /\ deliveries' = [deliveries EXCEPT ![e.tid] = deliveries[e.tid] + 1]
      BY <1>8 DEF PushComplete
  <2>2. State(e) \in Entries /\ State(e).tid = e.tid /\ e.tid \in Transfers /\ e.meta.count \in Nat
      BY <1>b, LookupShape, EnvelopeShape
  <2>3. pending' # Append(Others(e), State(e))
    <3>1. Others(e) \in Seq(Entries)
        BY <1>b, LookupShape
    <3>2. Len(Append(Others(e), State(e))) = Len(Others(e)) + 1 /\ Len(Others(e)) \in Nat
        BY <2>2, <3>1, AppendProperties, LenProperties
    <3> QED
        BY <2>1, <3>2
  <2>4. \A t, i : Holds(t, i)' => t # e.tid /\ Holds(t, i)
      BY <1>0, <2>1, <2>2, <2>3, HeldBefore
  <2>5. DOMAIN State(e).chunks \cup {e.index} = 0 .. e.meta.count - 1
      BY <1>b, <1>8, StoredWhole DEF PushComplete
  <2>6. ~Recut(e.tid) => ChunkCount(Posted[e.tid]) <= e.meta.count
    <3>1. ChunkCount(Posted[e.tid]) \in Nat
        BY <2>2, PostedAssumption, SliceBounds
    <3>2. CASE e \in Damaged
        BY <2>2, <3>1, <3>2 DEF Recut
    <3>3. CASE e \notin Damaged
        BY <3>1, <3>3, UndamagedIsGenuine, GenuineShape
    <3> QED
        BY <3>2, <3>3
  <2>7. ASSUME NEW t \in Transfers, ~Recut(t), NEW i \in 0 .. ChunkCount(Posted[t]) - 1
        PROVE  \/ /\ deliveries'[t] = deliveries[t]
                  /\ Holds(t, i)' => Holds(t, i) \/ (e.tid = t /\ e.index = i)
               \/ /\ deliveries'[t] = deliveries[t] + 1 /\ ~Holds(t, i)'
                  /\ Holds(t, i) \/ (e.tid = t /\ e.index = i)
    <3>1. deliveries \in [Transfers -> Nat]
        BY <1>0 DEF TypeOK
    <3>2. CASE t # e.tid
        BY <2>1, <2>2, <2>4, <3>1, <3>2
    <3>3. CASE t = e.tid
      <4>1. deliveries'[t] = deliveries[t] + 1 /\ ~Holds(t, i)'
          BY <2>1, <2>2, <2>4, <3>1, <3>3
      <4>2. ChunkCount(Posted[t]) \in Nat
          BY PostedAssumption, SliceBounds
      <4>3. i \in 0 .. e.meta.count - 1
          BY <2>2, <2>6, <2>7, <3>3, <4>2
      <4>4. Holds(t, i) \/ e.index = i
          BY <1>b, <2>5, <3>3, <4>3, StateHeld
      <4> QED
          BY <3>3, <4>1, <4>4
    <3> QED
        BY <3>2, <3>3
  <2> QED
      BY <1>2, <2>1, <2>7
<1> QED
    BY <1>3, <1>4, <1>5, <1>6, <1>7, <1>8 DEF Next, Push

(* At the start nothing is held or delivered.                              *)
LEMMA PaidInit == Init => PaidInv
<1> SUFFICES ASSUME Init PROVE PaidInv
    OBVIOUS
<1>1. IInv /\ Spare
    BY InitIInv, FaithInit DEF FaithInv
<1>2. pending = <<>> /\ DOMAIN pending = {} /\ deliveries = [t \in Transfers |-> 0]
    BY DEF Init
<1>3. \A e \in Envelopes : copies[e] = CopiesOf(e) /\ CopiesOf(e) \in Nat
    BY CopiesCounted DEF Init
<1>4. \A e \in Envelopes : Arrived(e) = 0
    BY <1>3 DEF Arrived
<1>5. \A t, i : ArrivedCopies(t, i) = {}
    BY <1>4 DEF ArrivedCopies
<1>6. \A t, i : ~Holds(t, i)
    BY <1>2 DEF Holds
<1>7. IsFiniteSet({}) /\ Cardinality({}) = 0
    BY FS_EmptySet
<1>8. ASSUME NEW t \in Transfers, NEW i PROVE
          /\ IsFiniteSet(ArrivedCopies(t, i))
          /\ deliveries[t] + (IF Holds(t, i) THEN 1 ELSE 0) <= Cardinality(ArrivedCopies(t, i))
    BY <1>2, <1>5, <1>6, <1>7
<1>9. Paid
    BY <1>8 DEF Paid
<1> QED
    BY <1>1, <1>9 DEF PaidInv

(* DeliveriesPaid: push returns a body at most as often as copies of each  *)
(* of its chunks arrived: duplicates after the delivery start a new entry, *)
(* which waits for another copy of each of the other chunks.               *)
THEOREM EveryDeliveryIsPaid == Spec => []DeliveriesPaid
<1>1. ASSUME PaidInv PROVE DeliveriesPaid
  <2> SUFFICES ASSUME NEW t \in Transfers, ~Recut(t), NEW i \in 0 .. ChunkCount(Posted[t]) - 1
               PROVE  deliveries[t] <= Cardinality(ArrivedCopies(t, i))
      BY DEF DeliveriesPaid
  <2>1. /\ IsFiniteSet(ArrivedCopies(t, i))
        /\ deliveries[t] + (IF Holds(t, i) THEN 1 ELSE 0) <= Cardinality(ArrivedCopies(t, i))
      BY <1>1 DEF PaidInv, Paid
  <2>2. Cardinality(ArrivedCopies(t, i)) \in Nat /\ deliveries[t] \in Nat
      BY <1>1, <2>1, FS_CardinalityType DEF PaidInv, IInv, TypeOK
  <2> QED
      BY <2>1, <2>2
<1> QED
    BY <1>1, PaidInit, PaidStep, PTL DEF Spec

=============================================================================
