---------------------------- MODULE FormatProofs ----------------------------
(***************************************************************************)
(* Proofs about the two formats that leave the process: API keys as text   *)
(* (ApiKeys), for every set of segments, ids, secrets and texts, and the   *)
(* frames of the wire (Wire), for every set of call ids and methods.       *)
(***************************************************************************)
EXTENDS ApiKeys, Wire, TLAPS, SequenceTheorems

-----------------------------------------------------------------------------
(***************************************************************************)
(* API keys                                                                *)
(***************************************************************************)
Keys == Callees \X KeyIds

(* A record is there exactly for a key that was issued, with the hash of   *)
(* the one secret it was issued with.                                      *)
Recorded ==
    \A c \in Callees, k \in KeyIds :
        /\ records[<<c, k>>] # Absent =>
              \E s \in Secrets :
                  records[<<c, k>>].hash = Hash(s) /\ Generate(c, k, s) \in issued
        /\ \A s \in Secrets :
              Generate(c, k, s) \in issued =>
                  records[<<c, k>>] # Absent /\ records[<<c, k>>].hash = Hash(s)
        /\ records[<<c, k>>].revoked <=> <<c, k>> \in revoked

KeyInv ==
    /\ records \in [Keys -> [hash : {<<>>} \cup {Hash(s) : s \in Secrets}, revoked : BOOLEAN]]
    /\ apiKeys \in [Callees -> Texts \cup {NoKey}]
    /\ issued \subseteq {Generate(c, k, s) : c \in Callees, k \in KeyIds, s \in Secrets}
    /\ Recorded

(* Texts that parse are the texts of keys, with their pieces.              *)
LEMMA GeneratedParses ==
    ASSUME NEW c \in Callees, NEW k \in KeyIds, NEW s \in Secrets
    PROVE  /\ Parses(Generate(c, k, s)) /\ CalleeOf(Generate(c, k, s)) = c
           /\ KeyOf(Generate(c, k, s)) = <<c, k>> /\ SecretOf(Generate(c, k, s)) = s
<1> DEFINE t == <<"rpcp", "ck", c, k, s>>
<1>1. Len(t) = 5 /\ t[1] = "rpcp" /\ t[2] = "ck" /\ t[3] = c /\ t[4] = k /\ t[5] = s
    OBVIOUS
<1>2. t[3] \in Segments /\ t[4] \in Segments /\ t[5] \in Segments
    BY <1>1, SegmentsAssumption
<1> HIDE DEF t
<1>3. \A i \in 3 .. 5 : t[i] \in Segments
  <2>1. \A i \in 3 .. 5 : i = 3 \/ i = 4 \/ i = 5
      OBVIOUS
  <2> QED
      BY <1>2, <2>1
<1>4. Parses(t) /\ CalleeOf(t) = c /\ KeyOf(t) = <<c, k>> /\ SecretOf(t) = s
    BY <1>1, <1>3 DEF Parses, CalleeOf, KeyOf, SecretOf
<1> QED
    BY <1>4 DEF t, Generate

(* A text that parses is the key made of its parts.                        *)
LEMMA ParsedIsGenerated ==
    ASSUME NEW t \in Texts, Parses(t)
    PROVE  t = Generate(t[3], t[4], t[5])
<1>1. t \in Seq(STRING) /\ Len(t) = 5 /\ t[1] = "rpcp" /\ t[2] = "ck"
    BY SegmentsAssumption DEF Parses
<1>2. "rpcp" \in STRING /\ "ck" \in STRING /\ t[3] \in STRING /\ t[4] \in STRING /\ t[5] \in STRING
  <2>1. \A i \in 1 .. Len(t) : t[i] \in STRING
      BY <1>1, ElementOfSeq
  <2>2. 1 \in 1 .. Len(t) /\ 2 \in 1 .. Len(t) /\ 3 \in 1 .. Len(t) /\ 4 \in 1 .. Len(t) /\ 5 \in 1 .. Len(t)
      BY <1>1
  <2> QED
      BY <1>1, <2>1, <2>2
<1> DEFINE g == <<"rpcp", "ck", t[3], t[4], t[5]>>
<1>3. /\ g \in Seq(STRING) /\ Len(g) = 5
      /\ g[1] = "rpcp" /\ g[2] = "ck" /\ g[3] = t[3] /\ g[4] = t[4] /\ g[5] = t[5]
    BY <1>2
<1> HIDE DEF g
<1>4. \A i \in 1 .. 5 : i = 1 \/ i = 2 \/ i = 3 \/ i = 4 \/ i = 5
    OBVIOUS
<1>5. \A i \in 1 .. Len(t) : t[i] = g[i]
    BY <1>1, <1>3, <1>4
<1>6. t = g
    BY <1>1, <1>3, <1>5, SeqEqual
<1> QED
    BY <1>6 DEF g, Generate

(* The pieces of a key tell it from every other.                           *)
LEMMA GenerateInjective ==
    ASSUME NEW c, NEW k, NEW s, NEW c1, NEW k1, NEW s1, Generate(c, k, s) = Generate(c1, k1, s1)
    PROVE  c = c1 /\ k = k1 /\ s = s1
    BY DEF Generate

(* Hashes of different secrets differ.                                     *)
LEMMA HashInjective ==
    ASSUME NEW s, NEW s1
    PROVE  (Hash(s) = Hash(s1) => s = s1) /\ Hash(s) # <<>>
    BY DEF Hash

(* At the start nothing is issued and nothing recorded.                    *)
LEMMA KeyInit == Init => KeyInv
<1> SUFFICES ASSUME Init PROVE KeyInv
    OBVIOUS
<1>1. \A c \in Callees, k \in KeyIds : records[<<c, k>>] = Absent /\ ~records[<<c, k>>].revoked
    BY DEF Init, Absent
<1>2. Recorded
    BY <1>1 DEF Recorded, Init
<1> QED
    BY <1>2 DEF Init, KeyInv, Keys, Absent

(* Issuing records the hash of the secret it hands out.                    *)
LEMMA IssueKeeps ==
    ASSUME KeyInv, NEW c \in Callees, NEW k \in KeyIds, NEW s \in Secrets, Issue(c, k, s)
    PROVE  KeyInv'
<1> DEFINE r == [hash |-> Hash(s), revoked |-> FALSE]
<1>1. KeyOf(Generate(c, k, s)) = <<c, k>> /\ SecretOf(Generate(c, k, s)) = s
    BY GeneratedParses
<1>2. /\ records[<<c, k>>] = Absent /\ records' = [records EXCEPT ![<<c, k>>] = r]
      /\ issued' = issued \cup {Generate(c, k, s)} /\ apiKeys' = apiKeys /\ revoked' = revoked
    BY <1>1 DEF Issue
<1>3. r \in [hash : {<<>>} \cup {Hash(x) : x \in Secrets}, revoked : BOOLEAN]
      /\ r.hash = Hash(s) /\ r.revoked = FALSE /\ r # Absent
  <2>1. r.hash = Hash(s) /\ Absent.hash = <<>>
      BY DEF Absent
  <2> QED
      BY <2>1, HashInjective
<1> HIDE DEF r
<1>4. <<c, k>> \in Keys /\ \A d \in Callees, j \in KeyIds : <<d, j>> \in Keys
    BY DEF Keys
<1>5. /\ records' \in [Keys -> [hash : {<<>>} \cup {Hash(x) : x \in Secrets}, revoked : BOOLEAN]]
      /\ records'[<<c, k>>] = r
      /\ \A d \in Callees, j \in KeyIds :
            <<d, j>> # <<c, k>> => records'[<<d, j>>] = records[<<d, j>>]
    BY <1>2, <1>3, <1>4 DEF KeyInv
<1>6. \A x \in Secrets : Generate(c, k, x) \notin issued
    BY <1>2 DEF KeyInv, Recorded
<1>7. <<c, k>> \notin revoked
    BY <1>2 DEF KeyInv, Recorded, Absent
<1>8. Recorded'
  <2>1. SUFFICES ASSUME NEW d \in Callees, NEW j \in KeyIds
                 PROVE  /\ records'[<<d, j>>] # Absent =>
                              \E x \in Secrets :
                                  records'[<<d, j>>].hash = Hash(x) /\ Generate(d, j, x) \in issued'
                        /\ \A x \in Secrets :
                              Generate(d, j, x) \in issued' =>
                                  records'[<<d, j>>] # Absent /\ records'[<<d, j>>].hash = Hash(x)
                        /\ records'[<<d, j>>].revoked <=> <<d, j>> \in revoked'
      BY DEF Recorded
  <2>2. CASE d = c /\ j = k
    <3>1. \A x \in Secrets : Generate(c, k, x) \in issued' => x = s
        BY <1>2, <1>6, GenerateInjective
    <3> QED
        BY <1>2, <1>3, <1>5, <1>7, <2>2, <3>1
  <2>3. CASE ~(d = c /\ j = k)
    <3>1. records'[<<d, j>>] = records[<<d, j>>]
        BY <1>5, <2>3
    <3>2. \A x \in Secrets : Generate(d, j, x) \in issued' <=> Generate(d, j, x) \in issued
        BY <1>2, <2>3, GenerateInjective
    <3> QED
        BY <1>2, <3>1, <3>2 DEF KeyInv, Recorded
  <2> QED
      BY <2>2, <2>3
<1> QED
    BY <1>2, <1>5, <1>8 DEF KeyInv

(* Revoking takes out the record of one key.                               *)
LEMMA RevokeKeeps ==
    ASSUME KeyInv, NEW c \in Callees, NEW k \in KeyIds, Revoke(c, k)
    PROVE  KeyInv'
<1> DEFINE R == [hash : {<<>>} \cup {Hash(x) : x \in Secrets}, revoked : BOOLEAN]
           r == [records[<<c, k>>] EXCEPT !.revoked = TRUE]
<1>1. /\ records[<<c, k>>] # Absent /\ records' = [records EXCEPT ![<<c, k>>] = r]
      /\ revoked' = revoked \cup {<<c, k>>} /\ apiKeys' = apiKeys /\ issued' = issued
    BY DEF Revoke
<1>2. <<c, k>> \in Keys /\ \A d \in Callees, j \in KeyIds : <<d, j>> \in Keys
    BY DEF Keys
<1>3. r \in R /\ r.hash = records[<<c, k>>].hash /\ r.revoked = TRUE /\ r # Absent
  <2> DEFINE q == records[<<c, k>>]
  <2>1. q \in R
      BY <1>2 DEF KeyInv
  <2> HIDE DEF q
  <2>2. [q EXCEPT !.revoked = TRUE] \in R
      BY <2>1, Zenon
  <2>3. [q EXCEPT !.revoked = TRUE].hash = q.hash
      BY <2>1, Zenon
  <2>4. [q EXCEPT !.revoked = TRUE].revoked = TRUE
      BY <2>1, Zenon
  <2>5. r \in R /\ r.hash = q.hash /\ r.revoked = TRUE
      BY <2>2, <2>3, <2>4, Zenon DEF q
  <2>6. r # Absent
      BY <2>5 DEF Absent
  <2> QED
      BY <2>5, <2>6 DEF q
<1> HIDE DEF r
<1>4. /\ records' \in [Keys -> R] /\ records'[<<c, k>>] = r
      /\ \A d \in Callees, j \in KeyIds :
            <<d, j>> # <<c, k>> => records'[<<d, j>>] = records[<<d, j>>]
    BY <1>1, <1>2, <1>3 DEF KeyInv
<1>5. Recorded'
  <2>1. SUFFICES ASSUME NEW d \in Callees, NEW j \in KeyIds
                 PROVE  /\ records'[<<d, j>>] # Absent =>
                              \E x \in Secrets :
                                  records'[<<d, j>>].hash = Hash(x) /\ Generate(d, j, x) \in issued'
                        /\ \A x \in Secrets :
                              Generate(d, j, x) \in issued' =>
                                  records'[<<d, j>>] # Absent /\ records'[<<d, j>>].hash = Hash(x)
                        /\ records'[<<d, j>>].revoked <=> <<d, j>> \in revoked'
      BY DEF Recorded
  <2>2. CASE d = c /\ j = k
      BY <1>1, <1>3, <1>4, <2>2 DEF KeyInv, Recorded
  <2>3. CASE ~(d = c /\ j = k)
    <3>1. records'[<<d, j>>] = records[<<d, j>>] /\ <<d, j>> # <<c, k>>
        BY <1>4, <2>3
    <3> QED
        BY <1>1, <3>1 DEF KeyInv, Recorded
  <2> QED
      BY <2>2, <2>3
<1> QED
    BY <1>1, <1>4, <1>5 DEF KeyInv

(* Every step keeps the records true.                                      *)
LEMMA KeyStep == KeyInv /\ [Next]_vars => KeyInv'
<1> SUFFICES ASSUME KeyInv, [Next]_vars PROVE KeyInv'
    OBVIOUS
<1>1. CASE UNCHANGED vars
    BY <1>1 DEF vars, KeyInv, Recorded
<1>2. ASSUME NEW c \in Callees, NEW t \in Texts, SaveApiKey(c, t) PROVE KeyInv'
    BY <1>2 DEF SaveApiKey, KeyInv, Recorded
<1>3. ASSUME NEW c \in Callees, RemoveApiKey(c) PROVE KeyInv'
    BY <1>3 DEF RemoveApiKey, KeyInv, Recorded
<1> QED
    BY <1>1, <1>2, <1>3, IssueKeeps, RevokeKeeps DEF Next

(* What the callee has looked up when it accepts a text.                   *)
LEMMA AcceptedIsIssued ==
    ASSUME KeyInv, NEW c, NEW t, Verifies(c, t)
    PROVE  /\ t[3] = c /\ c \in Callees /\ t[4] \in KeyIds /\ <<c, t[4]>> \notin revoked
           /\ t[5] \in Secrets /\ Generate(c, t[4], t[5]) \in issued
<1>1. /\ t[3] = c /\ <<c, t[4]>> \in DOMAIN records
      /\ records[<<c, t[4]>>] # Absent /\ ~records[<<c, t[4]>>].revoked
      /\ records[<<c, t[4]>>].hash = Hash(t[5])
    BY DEF Verifies, CalleeOf, KeyOf, SecretOf
<1>2. c \in Callees /\ t[4] \in KeyIds
    BY <1>1 DEF KeyInv, Keys
<1>3. PICK s \in Secrets : Hash(t[5]) = Hash(s) /\ Generate(c, t[4], s) \in issued
    BY <1>1, <1>2 DEF KeyInv, Recorded
<1>4. t[5] = s
    BY <1>3, HashInjective
<1> QED
    BY <1>1, <1>2, <1>3, <1>4 DEF KeyInv, Recorded

(* A key that was issued and not revoked passes.                           *)
LEMMA IssuedIsAccepted ==
    ASSUME KeyInv, NEW c \in Callees, NEW t \in issued, t[3] = c, <<c, t[4]>> \notin revoked
    PROVE  Verifies(c, t)
<1>1. PICK d \in Callees, k \in KeyIds, s \in Secrets : t = Generate(d, k, s)
    BY DEF KeyInv
<1>2. /\ Parses(t) /\ CalleeOf(t) = d /\ KeyOf(t) = <<d, k>> /\ SecretOf(t) = s
    BY <1>1, GeneratedParses
<1>3. d = c /\ t[4] = k
    BY <1>2 DEF CalleeOf, KeyOf
<1>4. records[<<c, k>>] # Absent /\ records[<<c, k>>].hash = Hash(s) /\ ~records[<<c, k>>].revoked
  <2>1. Generate(c, k, s) \in issued
      BY <1>1, <1>3
  <2>2. records[<<c, k>>] # Absent /\ records[<<c, k>>].hash = Hash(s)
      BY <2>1 DEF KeyInv, Recorded
  <2>3. <<c, k>> \notin revoked
      BY <1>3
  <2>4. ~records[<<c, k>>].revoked
      BY <2>3 DEF KeyInv, Recorded
  <2> QED
      BY <2>2, <2>4
<1>5. <<c, k>> \in DOMAIN records
    BY DEF KeyInv, Keys
<1> QED
    BY <1>2, <1>3, <1>4, <1>5 DEF Verifies

(* True records accept exactly what was issued.                            *)
LEMMA ExactlyIssued == KeyInv => VerifiesExactlyIssued
<1> SUFFICES ASSUME KeyInv, NEW c \in Callees, NEW t \in Texts \cup issued
             PROVE  Verifies(c, t) <=> t \in issued /\ t[3] = c /\ <<c, t[4]>> \notin revoked
    BY DEF VerifiesExactlyIssued
<1>1. ASSUME Verifies(c, t) PROVE t \in issued /\ t[3] = c /\ <<c, t[4]>> \notin revoked
  <2>1. t[3] = c /\ <<c, t[4]>> \notin revoked /\ Generate(c, t[4], t[5]) \in issued
      BY <1>1, AcceptedIsIssued
  <2>2. CASE t \in Texts
    <3>1. t = Generate(t[3], t[4], t[5])
        BY <1>1, <2>2, ParsedIsGenerated DEF Verifies
    <3> QED
        BY <2>1, <3>1
  <2> QED
      BY <2>1, <2>2
<1> QED
    BY <1>1, IssuedIsAccepted

(* A masked key that still parses has the mask for its secret.             *)
LEMMA MaskedSecret ==
    ASSUME NEW t, Len(t) = 5 => \E S : t \in Seq(S)
    PROVE  Parses(Mask(t)) => Mask(t)[5] = "..."
<1>1. CASE Parses(t)
  <2>1. PICK S : t \in Seq(S)
      BY <1>1 DEF Parses
  <2>2. 5 \in DOMAIN t
      BY <1>1, <2>1, LenProperties DEF Parses
  <2> QED
      BY <1>1, <2>2 DEF Mask
<1>2. CASE ~Parses(t)
  <2>1. Mask(t) = <<"<invalid-api-key>">>
      BY <1>2 DEF Mask
  <2>2. Len(Mask(t)) # 5
      BY <2>1
  <2> QED
      BY <2>2 DEF Parses
<1> QED
    BY <1>1, <1>2

(* The mask of a key keeps all but the secret.                             *)
LEMMA MaskOfKey ==
    ASSUME NEW c \in Callees, NEW k \in KeyIds, NEW s \in Secrets
    PROVE  Mask(Generate(c, k, s)) = <<"rpcp", "ck", c, k, "...">>
<1>1. Mask(Generate(c, k, s)) = [Generate(c, k, s) EXCEPT ![5] = "..."]
    BY GeneratedParses DEF Mask
<1> QED
    BY <1>1 DEF Generate

(* True records refuse every mask.                                         *)
LEMMA MaskUseless == KeyInv => MaskedKeyUseless
<1> SUFFICES ASSUME KeyInv PROVE MaskedKeyUseless
    OBVIOUS
<1>1. ASSUME NEW t \in issued \cup {apiKeys[c] : c \in Callees}, NEW c \in Callees
      PROVE  ~Verifies(c, Mask(t))
  <2>1. Len(t) = 5 => \E S : t \in Seq(S)
    <3>1. CASE t \in issued
      <4>1. PICK d \in Callees, k \in KeyIds, s \in Secrets : t = Generate(d, k, s)
          BY <3>1 DEF KeyInv
      <4>2. t \in Seq({"rpcp", "ck", d, k, s})
          BY <4>1 DEF Generate
      <4> QED
          BY <4>2
    <3>2. CASE t \in Texts
        BY <3>2, SegmentsAssumption
    <3>3. CASE t = NoKey
        BY <3>3 DEF NoKey
    <3>4. t \in issued \/ t \in Texts \/ t = NoKey
        BY DEF KeyInv
    <3> QED
        BY <3>1, <3>2, <3>3, <3>4
  <2>2. Parses(Mask(t)) => Mask(t)[5] = "..."
      BY <2>1, MaskedSecret
  <2>3. Verifies(c, Mask(t)) => Mask(t)[5] \in Secrets /\ Parses(Mask(t))
      BY AcceptedIsIssued DEF Verifies
  <2> QED
      BY <2>2, <2>3, SegmentsAssumption
<1>2. ASSUME NEW t \in issued, NEW s \in Secrets PROVE Mask(Generate(t[3], t[4], s)) = Mask(t)
  <2>1. PICK d \in Callees, k \in KeyIds, x \in Secrets : t = Generate(d, k, x)
      BY DEF KeyInv
  <2>2. t[3] = d /\ t[4] = k
      BY <2>1, GeneratedParses DEF CalleeOf, KeyOf
  <2> QED
      BY <2>1, <2>2, MaskOfKey
<1> QED
    BY <1>1, <1>2 DEF MaskedKeyUseless

(* The records are true in every reachable state.                          *)
LEMMA AlwaysKeyInv == Spec => []KeyInv
    BY KeyInit, KeyStep, PTL DEF Spec

(* ApiKeyVerifier.verify_api_key: exactly the keys this callee has issued  *)
(* and not revoked pass, whatever text arrives and whoever shares the      *)
(* store of records.                                                       *)
THEOREM KeysVerifyExactly == Spec => []VerifiesExactlyIssued
    BY AlwaysKeyInv, ExactlyIssued, PTL

(* mask_api_key: what is logged in place of a key is no key, and the same  *)
(* for every secret.                                                       *)
THEOREM MaskedKeysAreUseless == Spec => []MaskedKeyUseless
    BY AlwaysKeyInv, MaskUseless, PTL

-----------------------------------------------------------------------------
(***************************************************************************)
(* The wire                                                                *)
(***************************************************************************)
(* The frames of each side.                                                *)
ClientFrames ==
    {Request("post_message", <<i, "text">>) : i \in Ids}
        \cup {Response(<<i, "text">>, "result") : i \in Ids}

Answers  == {Response(<<i, form>>, i) : i \in Ids, form \in Forms}
Asks     == {Request(m, <<i, form>>) : m \in Methods, i \in Ids, form \in Forms}
Notices  == {Request(m, Null) : m \in Methods}

PeerFrames == Asks \cup Notices \cup Answers \cup {Both(f, g) : f \in Asks, g \in Answers}

(* f is the peer's call i, or the reply to it.                             *)
CallOf(f, i) ==
    /\ f.request # <<>> /\ f.response = <<>>
    /\ \E form \in Forms : f.request[1].id = <<i, form>>

ReplyTo(f, i) == f.response # <<>> /\ Str(f.response[1].id) = i

(* The call i or its reply is on its way only once, and only while the     *)
(* peer waits for it.                                                      *)
Once(i) ==
    /\ \A m, n \in DOMAIN toClient : CallOf(toClient[m], i) /\ CallOf(toClient[n], i) => m = n
    /\ \A m, n \in DOMAIN toPeer : ReplyTo(toPeer[m], i) /\ ReplyTo(toPeer[n], i) => m = n
    /\ \A m \in DOMAIN toClient, n \in DOMAIN toPeer :
          ~(CallOf(toClient[m], i) /\ ReplyTo(toPeer[n], i))
    /\ \A m \in DOMAIN toClient : CallOf(toClient[m], i) => peerCalls[i] = "open"
    /\ \A n \in DOMAIN toPeer : ReplyTo(toPeer[n], i) => peerCalls[i] = "open"

WireTypes ==
    /\ toPeer \in Seq(ClientFrames) /\ toClient \in Seq(PeerFrames)
    /\ calls \in [Ids -> {"none", "pending", "done", "given_up"}] /\ DOMAIN got = Ids
    /\ DOMAIN peerCalls = Ids
    /\ \A r \in owed : r.id \in Ids

WireInv == WireTypes /\ (\A i \in Ids : Once(i)) /\ OwnResult

(* Where the elements of a queue are after a frame is sent.                *)
LEMMA AppendAt ==
    ASSUME NEW F, NEW s \in Seq(F), NEW f \in F
    PROVE  /\ Append(s, f) \in Seq(F)
           /\ \A n \in DOMAIN s : n \in DOMAIN Append(s, f) /\ Append(s, f)[n] = s[n]
           /\ \A n \in DOMAIN Append(s, f) : n \in DOMAIN s \/ n = Len(s) + 1
           /\ Append(s, f)[Len(s) + 1] = f /\ Len(s) + 1 \notin DOMAIN s
    BY AppendProperties, LenProperties

(* Where the elements of a queue are after a frame is read.                *)
LEMMA TailAt ==
    ASSUME NEW F, NEW s \in Seq(F), s # <<>>
    PROVE  /\ Tail(s) \in Seq(F) /\ 1 \in DOMAIN s /\ s[1] = Head(s) /\ Head(s) \in F
           /\ \A n \in DOMAIN Tail(s) : n + 1 \in DOMAIN s /\ n + 1 # 1 /\ Tail(s)[n] = s[n + 1]
           /\ \A m, n \in DOMAIN Tail(s) : m + 1 = n + 1 => m = n
<1>1. /\ Tail(s) \in Seq(F) /\ Head(s) \in F /\ Len(s) \in Nat /\ Len(s) # 0
      /\ Len(Tail(s)) = Len(s) - 1
    BY HeadTailProperties, LenProperties, EmptySeq
<1>2. DOMAIN s = 1 .. Len(s) /\ DOMAIN Tail(s) = 1 .. Len(s) - 1
    BY <1>1, LenProperties
<1>3. \A n \in 1 .. Len(s) - 1 : Tail(s)[n] = s[n + 1]
    BY <1>1
<1>4. s[1] = Head(s)
    OBVIOUS
<1> QED
    BY <1>1, <1>2, <1>3, <1>4

(* What the frames of the peer are to the client.                          *)
LEMMA PeerFrameKinds ==
    ASSUME NEW f \in PeerFrames
    PROVE  /\ f.response # <<>> => f.response[1].result = Str(f.response[1].id)
           /\ Extracts(f) => Extracted(f).id \in Ids /\ CallOf(f, Extracted(f).id)
           /\ \A i, j : CallOf(f, i) /\ CallOf(f, j) => i = j
<1>1. CASE f \in Asks
  <2>1. PICK m \in Methods, i \in Ids, form \in Forms : f = Request(m, <<i, form>>)
      BY <1>1 DEF Asks
  <2>2. f.response = <<>> /\ f.request = <<[method |-> m, id |-> <<i, form>>]>>
      BY <2>1 DEF Request
  <2>3. f.request[1].id = <<i, form>> /\ f.request # <<>>
      BY <2>2
  <2>4. Extracted(f).id = i
      BY <2>3 DEF Extracted, Str
  <2> QED
      BY <2>2, <2>3, <2>4 DEF CallOf
<1>2. CASE f \in Notices
  <2>1. PICK m \in Methods : f = Request(m, Null)
      BY <1>2 DEF Notices
  <2>2. f.response = <<>> /\ f.request[1].id = Null
      BY <2>1 DEF Request
  <2>3. \A i, form : form \in Forms => <<i, form>> # Null
      BY DEF Null, Forms
  <2> QED
      BY <2>2, <2>3 DEF CallOf, Extracts
<1>3. ASSUME NEW g \in Answers, f.response = g.response
      PROVE  /\ f.response # <<>>
             /\ f.response[1].result = Str(f.response[1].id)
  <2>1. PICK i \in Ids, form \in Forms : g = Response(<<i, form>>, i)
      BY DEF Answers
  <2>2. g.response = <<[id |-> <<i, form>>, result |-> i]>>
      BY <2>1 DEF Response
  <2>3. g.response[1].id = <<i, form>> /\ g.response[1].result = i /\ g.response # <<>>
      BY <2>2
  <2> QED
      BY <1>3, <2>3 DEF Str
<1>4. CASE f \in Answers \/ f \in {Both(x, g) : x \in Asks, g \in Answers}
  <2>1. PICK g \in Answers : f.response = g.response
      BY <1>4 DEF Both
  <2>2. f.response # <<>> /\ f.response[1].result = Str(f.response[1].id)
      BY <2>1, <1>3
  <2> QED
      BY <2>2 DEF CallOf, Extracts, IsPendingCall
<1> QED
    BY <1>1, <1>2, <1>4 DEF PeerFrames

(* What the client sends is a request or a response, never both.           *)
LEMMA ClientFrameKinds ==
    ASSUME NEW f \in ClientFrames
    PROVE  \/ /\ Extracts(f) /\ Extracted(f).id \in Ids /\ f.response = <<>>
           \/ /\ ~Extracts(f) /\ f.response # <<>> /\ Str(f.response[1].id) \in Ids
<1>1. CASE \E i \in Ids : f = Request("post_message", <<i, "text">>)
  <2>1. PICK i \in Ids : f = Request("post_message", <<i, "text">>)
      BY <1>1
  <2>2. f.response = <<>> /\ f.request # <<>> /\ f.request[1].id = <<i, "text">>
      BY <2>1 DEF Request
  <2>3. <<i, "text">> # Null
      BY DEF Null
  <2> QED
      BY <2>2, <2>3 DEF Extracts, IsPendingCall, Extracted, Str
<1>2. CASE \E i \in Ids : f = Response(<<i, "text">>, "result")
  <2>1. PICK i \in Ids : f = Response(<<i, "text">>, "result")
      BY <1>2
  <2>2. f.response # <<>> /\ f.response[1].id = <<i, "text">>
      BY <2>1 DEF Response
  <2> QED
      BY <2>2 DEF Extracts, IsPendingCall, Str
<1> QED
    BY <1>1, <1>2 DEF ClientFrames

(* The frames that each step puts on the wire.                             *)
LEMMA NewFrames ==
    /\ \A i \in Ids : /\ Request("post_message", <<i, "text">>) \in ClientFrames
                      /\ Response(<<i, "text">>, "result") \in ClientFrames
    /\ \A i \in Ids : \A j : ~ReplyTo(Request("post_message", <<i, "text">>), j)
    /\ \A i \in Ids : \A j : ReplyTo(Response(<<i, "text">>, "result"), j) => i = j
    /\ \A m \in Methods, i \in Ids, form \in Forms : \A j :
          CallOf(Request(m, <<i, form>>), j) => i = j
    /\ \A f \in Notices : \A j : ~CallOf(f, j)
    /\ \A f \in Answers : \A j : ~CallOf(f, j)
    /\ \A f \in Asks, g \in Answers : \A j : ~CallOf(Both(f, g), j)
<1>1. \A i \in Ids : /\ Request("post_message", <<i, "text">>) \in ClientFrames
                     /\ Response(<<i, "text">>, "result") \in ClientFrames
    BY DEF ClientFrames
<1>2. \A i \in Ids : \A j : ~ReplyTo(Request("post_message", <<i, "text">>), j)
    BY DEF ReplyTo, Request
<1>3. ASSUME NEW i \in Ids, NEW j, ReplyTo(Response(<<i, "text">>, "result"), j) PROVE i = j
  <2>1. Response(<<i, "text">>, "result").response[1].id = <<i, "text">>
      BY DEF Response
  <2> QED
      BY <1>3, <2>1 DEF ReplyTo, Str
<1>4. ASSUME NEW m \in Methods, NEW i \in Ids, NEW form \in Forms, NEW j,
             CallOf(Request(m, <<i, form>>), j)
      PROVE  i = j
  <2>1. Request(m, <<i, form>>).request[1].id = <<i, form>>
      BY DEF Request
  <2> QED
      BY <1>4, <2>1 DEF CallOf
<1>5. ASSUME NEW f \in Notices, NEW j PROVE ~CallOf(f, j)
  <2>1. PICK m \in Methods : f = Request(m, Null)
      BY DEF Notices
  <2>2. f.request[1].id = Null
      BY <2>1 DEF Request
  <2> QED
      BY <2>2 DEF CallOf, Null, Forms
<1>6. ASSUME NEW g \in Answers PROVE g.response # <<>>
    BY DEF Answers, Response
<1>7. \A f \in Asks, g \in Answers : Both(f, g).response = g.response
    BY DEF Both
<1> QED
    BY <1>1, <1>2, <1>3, <1>4, <1>5, <1>6, <1>7 DEF CallOf

(* A frame that the client takes from the wire.                            *)
LEMMA ClientTakes ==
    ASSUME WireInv, toClient # <<>>, toClient' = Tail(toClient), toPeer' = toPeer,
           peerCalls' = peerCalls, NEW i \in Ids
    PROVE  /\ toClient' \in Seq(PeerFrames)
           /\ Once(i)'
           /\ CallOf(Head(toClient), i) => \A n \in DOMAIN toClient' : ~CallOf(toClient'[n], i)
<1>1. toClient \in Seq(PeerFrames) /\ Once(i)
    BY DEF WireInv, WireTypes
<1>2. /\ Tail(toClient) \in Seq(PeerFrames) /\ 1 \in DOMAIN toClient
      /\ toClient[1] = Head(toClient)
      /\ \A n \in DOMAIN Tail(toClient) :
            n + 1 \in DOMAIN toClient /\ n + 1 # 1 /\ Tail(toClient)[n] = toClient[n + 1]
      /\ \A m, n \in DOMAIN Tail(toClient) : m + 1 = n + 1 => m = n
    BY <1>1, TailAt
<1>3. Once(i)'
    BY <1>1, <1>2 DEF Once
<1>4. CallOf(Head(toClient), i) => \A n \in DOMAIN toClient' : ~CallOf(toClient'[n], i)
    BY <1>1, <1>2 DEF Once
<1> QED
    BY <1>2, <1>3, <1>4

(* A frame that the peer sends.                                            *)
LEMMA PeerSends ==
    ASSUME WireInv, NEW f \in PeerFrames, toClient' = Append(toClient, f), toPeer' = toPeer,
           NEW i \in Ids, peerCalls'[i] = peerCalls[i], ~CallOf(f, i)
    PROVE  Once(i)'
<1>1. toClient \in Seq(PeerFrames) /\ Once(i)
    BY DEF WireInv, WireTypes
<1>2. /\ \A n \in DOMAIN toClient : n \in DOMAIN toClient' /\ toClient'[n] = toClient[n]
      /\ \A n \in DOMAIN toClient' : n \in DOMAIN toClient \/ n = Len(toClient) + 1
      /\ toClient'[Len(toClient) + 1] = f
    BY <1>1, AppendAt
<1>3. \A n \in DOMAIN toClient' :
          CallOf(toClient'[n], i) => n \in DOMAIN toClient /\ CallOf(toClient[n], i)
    BY <1>2
<1> QED
    BY <1>1, <1>3 DEF Once

(* The peer's call i, which it makes once.                                 *)
LEMMA PeerCallsKeeps ==
    ASSUME WireInv, NEW i \in Ids, NEW m \in Methods, NEW form \in Forms,
           PeerCalls(i, m, form)
    PROVE  WireInv'
<1> DEFINE f == Request(m, <<i, form>>)
<1>1. /\ peerCalls[i] = "none" /\ toClient' = Append(toClient, f) /\ toPeer' = toPeer
      /\ peerCalls' = [peerCalls EXCEPT ![i] = "open"]
      /\ calls' = calls /\ got' = got /\ owed' = owed
    BY DEF PeerCalls, Send, clientVars
<1>2. f \in PeerFrames /\ \A j : CallOf(f, j) => i = j
    BY NewFrames DEF PeerFrames, Asks
<1> HIDE DEF f
<1>3. toClient \in Seq(PeerFrames) /\ DOMAIN peerCalls = Ids /\ Once(i)
    BY DEF WireInv, WireTypes
<1>4. /\ DOMAIN peerCalls' = Ids /\ peerCalls'[i] = "open"
      /\ \A j \in Ids : j # i => peerCalls'[j] = peerCalls[j]
    BY <1>1, <1>3
<1>5. /\ toClient' \in Seq(PeerFrames)
      /\ \A n \in DOMAIN toClient : n \in DOMAIN toClient' /\ toClient'[n] = toClient[n]
      /\ \A n \in DOMAIN toClient' : n \in DOMAIN toClient \/ n = Len(toClient) + 1
    BY <1>1, <1>2, <1>3, AppendAt
<1>6. Once(i)'
  <2>1. /\ \A n \in DOMAIN toClient : ~CallOf(toClient[n], i)
        /\ \A n \in DOMAIN toPeer : ~ReplyTo(toPeer[n], i)
      BY <1>1, <1>3 DEF Once
  <2>2. \A n \in DOMAIN toClient' : CallOf(toClient'[n], i) => n = Len(toClient) + 1
      BY <1>5, <2>1
  <2> QED
      BY <1>1, <1>4, <2>1, <2>2 DEF Once
<1>7. \A j \in Ids : j # i => Once(j)'
    BY <1>1, <1>2, <1>4, PeerSends
<1>8. WireTypes' /\ OwnResult'
    BY <1>1, <1>4, <1>5 DEF WireInv, WireTypes, OwnResult
<1> QED
    BY <1>6, <1>7, <1>8 DEF WireInv

(* Notices and answers are no calls, a request in an answer's frame        *)
(* included.                                                               *)
LEMMA PeerSpeaksKeeps ==
    ASSUME WireInv,
           \/ \E m \in Methods : PeerNotifies(m)
           \/ \E r \in owed, form \in Forms : PeerAnswers(r, form)
    PROVE  WireInv'
<1>1. PICK f \in PeerFrames :
          /\ toClient' = Append(toClient, f) /\ \A j : ~CallOf(f, j)
          /\ UNCHANGED <<toPeer, calls, got, peerCalls, owed>>
  <2>1. ASSUME NEW m \in Methods, PeerNotifies(m)
        PROVE  \E f \in PeerFrames :
                  /\ toClient' = Append(toClient, f) /\ \A j : ~CallOf(f, j)
                  /\ UNCHANGED <<toPeer, calls, got, peerCalls, owed>>
    <3>1. Request(m, Null) \in Notices
        BY DEF Notices
    <3> QED
        BY <2>1, <3>1, NewFrames DEF PeerNotifies, Send, PeerFrames, clientVars
  <2>2. ASSUME NEW r \in owed, NEW form \in Forms, PeerAnswers(r, form)
        PROVE  \E f \in PeerFrames :
                  /\ toClient' = Append(toClient, f) /\ \A j : ~CallOf(f, j)
                  /\ UNCHANGED <<toPeer, calls, got, peerCalls, owed>>
    <3> DEFINE g == Response(<<r.id, form>>, r.id)
    <3>1. g \in Answers
      <4>1. r.id \in Ids
          BY DEF WireInv, WireTypes
      <4>2. \A i \in Ids : Response(<<i, form>>, i) \in Answers
          BY DEF Answers
      <4> QED
          BY <4>1, <4>2
    <3>2. \A m \in Methods, i \in Ids : Request(m, <<i, "text">>) \in Asks
        BY DEF Asks, Forms
    <3>3. /\ \/ toClient' = Append(toClient, g)
             \/ \E m \in Methods, i \in Ids :
                   toClient' = Append(toClient, Both(Request(m, <<i, "text">>), g))
          /\ UNCHANGED <<toPeer, calls, got, peerCalls, owed>>
        BY <2>2 DEF PeerAnswers, Send, clientVars
    <3> HIDE DEF g
    <3> DEFINE Speech == Answers \cup {Both(x, y) : x \in Asks, y \in Answers}
    <3>s. \E h \in Speech : toClient' = Append(toClient, h)
      <4>1. CASE toClient' = Append(toClient, g)
          BY <3>1, <4>1
      <4>2. CASE \E m \in Methods, i \in Ids :
                     toClient' = Append(toClient, Both(Request(m, <<i, "text">>), g))
        <5>1. PICK m \in Methods, i \in Ids :
                  toClient' = Append(toClient, Both(Request(m, <<i, "text">>), g))
            BY <4>2
        <5>2. Both(Request(m, <<i, "text">>), g) \in {Both(x, y) : x \in Asks, y \in Answers}
            BY <3>1, <3>2
        <5> QED
            BY <5>1, <5>2
      <4>3. \/ toClient' = Append(toClient, g)
            \/ \E m \in Methods, i \in Ids :
                  toClient' = Append(toClient, Both(Request(m, <<i, "text">>), g))
          BY <3>3, Zenon
      <4> HIDE DEF Speech
      <4> QED
          BY <4>1, <4>2, <4>3
    <3>4. PICK f \in Speech : toClient' = Append(toClient, f)
        BY <3>s
    <3>5. f \in PeerFrames /\ \A j : ~CallOf(f, j)
        BY NewFrames DEF PeerFrames
    <3> QED
        BY <3>3, <3>4, <3>5
  <2> QED
      BY <2>1, <2>2
<1>2. toClient' \in Seq(PeerFrames)
    BY <1>1, AppendProperties DEF WireInv, WireTypes
<1>3. \A i \in Ids : Once(i)'
    BY <1>1, PeerSends
<1>4. WireTypes' /\ OwnResult'
    BY <1>1, <1>2 DEF WireInv, WireTypes, OwnResult
<1> QED
    BY <1>3, <1>4 DEF WireInv

(* The reader of the client: a response to the call it is for, a call to   *)
(* A reader that stops ends calls, and none with a result.                 *)
LEMMA StoppedCalls ==
    ASSUME WireInv, ReaderStops
    PROVE  calls' \in [Ids -> {"none", "pending", "done", "given_up"}] /\ OwnResult'
    BY DEF ReaderStops, WireInv, WireTypes, OwnResult

(* its handler, the rest to nobody.                                        *)
LEMMA ReadKeeps ==
    ASSUME WireInv, Read
    PROVE  WireInv'
<1>0. toClient \in Seq(PeerFrames) /\ toPeer \in Seq(ClientFrames)
    BY DEF WireInv, WireTypes
<1>1. ASSUME NEW i \in Ids, ReadResponse(i) PROVE WireInv'
  <2>1. /\ toClient # <<>> /\ Completes(Head(toClient), i) /\ toClient' = Tail(toClient)
        /\ calls' = [calls EXCEPT ![i] = "done"]
        /\ got' = [got EXCEPT ![i] = Head(toClient).response[1].result]
        /\ UNCHANGED <<toPeer, peerCalls, owed>>
      BY <1>1 DEF ReadResponse, peerVars
  <2>2. Head(toClient) \in PeerFrames
      BY <1>0, <2>1, TailAt
  <2>3. Head(toClient).response[1].result = i
      BY <2>1, <2>2, PeerFrameKinds DEF Completes
  <2>4. OwnResult'
      BY <2>1, <2>3 DEF WireInv, WireTypes, OwnResult
  <2>5. toClient' \in Seq(PeerFrames) /\ \A j \in Ids : Once(j)'
      BY <1>1, <2>1, ClientTakes
  <2>6. WireTypes'
      BY <2>1, <2>5 DEF WireInv, WireTypes
  <2> QED
      BY <2>4, <2>5, <2>6 DEF WireInv
<1>2. CASE ReadIgnored
  <2>1. /\ toClient # <<>> /\ toClient' = Tail(toClient)
        /\ UNCHANGED <<toPeer, calls, got, peerCalls, owed>>
      BY <1>2 DEF ReadIgnored, Unclaimed, clientVars, peerVars
  <2>2. toClient' \in Seq(PeerFrames)
      BY <1>0, <2>1, TailAt
  <2>3. \A j \in Ids : Once(j)'
      BY <2>1, ClientTakes
  <2>4. WireTypes' /\ OwnResult'
      BY <2>1, <2>2 DEF WireInv, WireTypes, OwnResult
  <2> QED
      BY <2>3, <2>4 DEF WireInv
<1>3. CASE ReadCall
  <2> DEFINE j == Extracted(Head(toClient)).id
             reply == Response(<<j, "text">>, "result")
  <2>1. /\ toClient # <<>> /\ Extracts(Head(toClient)) /\ toClient' = Tail(toClient)
        /\ toPeer' = Append(toPeer, reply)
        /\ UNCHANGED <<calls, got, peerCalls, owed>>
      BY <1>3 DEF ReadCall, Known, Unclaimed, clientVars, peerVars
  <2>2. /\ Head(toClient) \in PeerFrames /\ Tail(toClient) \in Seq(PeerFrames)
        /\ 1 \in DOMAIN toClient /\ toClient[1] = Head(toClient)
        /\ \A n \in DOMAIN Tail(toClient) :
              n + 1 \in DOMAIN toClient /\ n + 1 # 1 /\ Tail(toClient)[n] = toClient[n + 1]
        /\ \A m, n \in DOMAIN Tail(toClient) : m + 1 = n + 1 => m = n
      BY <1>0, <2>1, TailAt
  <2>3. j \in Ids /\ CallOf(Head(toClient), j)
      BY <2>1, <2>2, PeerFrameKinds
  <2>4. reply \in ClientFrames /\ \A i : ReplyTo(reply, i) => i = j
      BY <2>3, NewFrames
  <2> HIDE DEF j, reply
  <2>5. /\ toPeer' \in Seq(ClientFrames)
        /\ \A n \in DOMAIN toPeer : n \in DOMAIN toPeer' /\ toPeer'[n] = toPeer[n]
        /\ \A n \in DOMAIN toPeer' : n \in DOMAIN toPeer \/ n = Len(toPeer) + 1
        /\ toPeer'[Len(toPeer) + 1] = reply
      BY <1>0, <2>1, <2>4, AppendAt
  <2>6. ASSUME NEW i \in Ids PROVE Once(i)'
    <3>1. Once(i)
        BY DEF WireInv
    <3>2. CASE i = j
      <4>1. /\ \A n \in DOMAIN toClient : CallOf(toClient[n], i) => n = 1
            /\ \A n \in DOMAIN toPeer : ~ReplyTo(toPeer[n], i)
            /\ peerCalls[i] = "open"
          BY <2>2, <2>3, <3>1, <3>2 DEF Once
      <4>2. \A n \in DOMAIN toClient' : ~CallOf(toClient'[n], i)
          BY <2>1, <2>2, <4>1
      <4>3. \A n \in DOMAIN toPeer' : ReplyTo(toPeer'[n], i) => n = Len(toPeer) + 1
          BY <2>5, <4>1
      <4> QED
          BY <2>1, <4>1, <4>2, <4>3 DEF Once
    <3>3. CASE i # j
      <4>1. \A n \in DOMAIN toPeer' :
                ReplyTo(toPeer'[n], i) => n \in DOMAIN toPeer /\ ReplyTo(toPeer[n], i)
          BY <2>4, <2>5, <3>3
      <4>2. \A n \in DOMAIN toClient' :
                CallOf(toClient'[n], i) => n + 1 \in DOMAIN toClient /\ CallOf(toClient[n + 1], i)
          BY <2>1, <2>2
      <4> QED
          BY <2>1, <2>2, <3>1, <4>1, <4>2 DEF Once
    <3> QED
        BY <3>2, <3>3
  <2>7. WireTypes' /\ OwnResult'
      BY <2>1, <2>2, <2>5 DEF WireInv, WireTypes, OwnResult
  <2> QED
      BY <2>6, <2>7 DEF WireInv
<1>4. CASE ReadFails
  <2>1. /\ toClient # <<>> /\ toClient' = Tail(toClient)
        /\ UNCHANGED <<toPeer, got, peerCalls, owed>>
      BY <1>4 DEF ReadFails, ReaderStops, Unclaimed, peerVars
  <2>2. toClient' \in Seq(PeerFrames)
      BY <1>0, <2>1, TailAt
  <2>3. \A j \in Ids : Once(j)'
      BY <2>1, ClientTakes
  <2>4. calls' \in [Ids -> {"none", "pending", "done", "given_up"}] /\ OwnResult'
      BY <1>4, StoppedCalls DEF ReadFails
  <2> QED
      BY <2>1, <2>2, <2>3, <2>4 DEF WireInv, WireTypes
<1> QED
    BY <1>1, <1>2, <1>3, <1>4 DEF Read

(* The reader ends between two frames.                                     *)
LEMMA ReaderEndsKeeps ==
    ASSUME WireInv, ReaderEnds
    PROVE  WireInv'
<1>1. UNCHANGED <<toPeer, toClient, got, peerCalls, owed>>
    BY DEF ReaderEnds, ReaderStops, peerVars
<1>2. calls' \in [Ids -> {"none", "pending", "done", "given_up"}] /\ OwnResult'
    BY StoppedCalls DEF ReaderEnds
<1>3. \A j \in Ids : Once(j)'
    BY <1>1 DEF WireInv, Once
<1> QED
    BY <1>1, <1>2, <1>3 DEF WireInv, WireTypes

(* The client begins a call or gives it up.                                *)
LEMMA ClientStepsKeep ==
    ASSUME WireInv, NEW i \in Ids, ClientCalls(i) \/ ClientGivesUp(i)
    PROVE  WireInv'
<1>1. CASE ClientGivesUp(i)
  <2>1. /\ calls' = [calls EXCEPT ![i] = "given_up"]
        /\ UNCHANGED <<toPeer, toClient, got, peerCalls, owed>>
      BY <1>1 DEF ClientGivesUp, peerVars
  <2>2. WireTypes' /\ OwnResult'
      BY <2>1 DEF WireInv, WireTypes, OwnResult
  <2>3. \A j \in Ids : Once(j)'
      BY <2>1 DEF WireInv, Once
  <2> QED
      BY <2>2, <2>3 DEF WireInv
<1>2. CASE ClientCalls(i)
  <2> DEFINE f == Request("post_message", <<i, "text">>)
  <2>1. /\ calls' = [calls EXCEPT ![i] = "pending"] /\ toPeer' = Append(toPeer, f)
        /\ UNCHANGED <<toClient, got, peerCalls, owed>>
      BY <1>2 DEF ClientCalls, peerVars
  <2>2. f \in ClientFrames /\ \A j : ~ReplyTo(f, j)
      BY NewFrames
  <2> HIDE DEF f
  <2>3. toPeer \in Seq(ClientFrames)
      BY DEF WireInv, WireTypes
  <2>4. /\ toPeer' \in Seq(ClientFrames)
        /\ \A n \in DOMAIN toPeer : n \in DOMAIN toPeer' /\ toPeer'[n] = toPeer[n]
        /\ \A n \in DOMAIN toPeer' : n \in DOMAIN toPeer \/ n = Len(toPeer) + 1
        /\ toPeer'[Len(toPeer) + 1] = f
      BY <2>1, <2>2, <2>3, AppendAt
  <2>5. \A n \in DOMAIN toPeer' : \A j :
            ReplyTo(toPeer'[n], j) => n \in DOMAIN toPeer /\ ReplyTo(toPeer[n], j)
      BY <2>2, <2>4
  <2>6. \A j \in Ids : Once(j)'
      BY <2>1, <2>5 DEF WireInv, Once
  <2>7. WireTypes' /\ OwnResult'
      BY <2>1, <2>4 DEF WireInv, WireTypes, OwnResult
  <2> QED
      BY <2>6, <2>7 DEF WireInv
<1> QED
    BY <1>1, <1>2

(* The peer reads a reply: no other reply to the same call follows.        *)
LEMMA PeerReadsKeeps ==
    ASSUME WireInv, PeerReads
    PROVE  WireInv'
<1> DEFINE f == Head(toPeer)
           j == Str(f.response[1].id)
<1>0. toPeer \in Seq(ClientFrames) /\ DOMAIN peerCalls = Ids
    BY DEF WireInv, WireTypes
<1>1. /\ toPeer # <<>> /\ toPeer' = Tail(toPeer)
      /\ IF Extracts(f)
          THEN owed' = owed \cup {Extracted(f)} /\ UNCHANGED peerCalls
          ELSE /\ peerCalls' = [peerCalls EXCEPT ![j] =
                                   IF peerCalls[j] = "open" THEN "answered" ELSE peerCalls[j]]
               /\ UNCHANGED owed
      /\ UNCHANGED <<toClient, calls, got>>
    BY DEF PeerReads, clientVars
<1>2. /\ f \in ClientFrames /\ toPeer' \in Seq(ClientFrames)
      /\ 1 \in DOMAIN toPeer /\ toPeer[1] = f
      /\ \A n \in DOMAIN toPeer' :
            n + 1 \in DOMAIN toPeer /\ n + 1 # 1 /\ toPeer'[n] = toPeer[n + 1]
      /\ \A m, n \in DOMAIN toPeer' : m + 1 = n + 1 => m = n
    BY <1>0, <1>1, TailAt
<1>3. \/ /\ Extracts(f) /\ Extracted(f).id \in Ids
      \/ /\ ~Extracts(f) /\ j \in Ids /\ ReplyTo(f, j)
    BY <1>2, ClientFrameKinds DEF ReplyTo
<1> HIDE DEF f, j
<1>4. WireTypes' /\ OwnResult'
  <2>1. DOMAIN peerCalls' = Ids /\ \A r \in owed' : r.id \in Ids
      BY <1>0, <1>1, <1>3 DEF WireInv, WireTypes
  <2> QED
      BY <1>1, <1>2, <2>1 DEF WireInv, WireTypes, OwnResult
<1>5. ASSUME NEW i \in Ids PROVE Once(i)'
  <2>1. Once(i)
      BY DEF WireInv
  <2>2. CASE peerCalls'[i] = peerCalls[i]
      BY <1>1, <1>2, <2>1, <2>2 DEF Once
  <2>3. CASE peerCalls'[i] # peerCalls[i]
    <3>1. ReplyTo(f, i)
        BY <1>0, <1>1, <1>3, <2>3
    <3>2. /\ \A n \in DOMAIN toPeer : ReplyTo(toPeer[n], i) => n = 1
          /\ \A n \in DOMAIN toClient : ~CallOf(toClient[n], i)
        BY <1>2, <2>1, <3>1 DEF Once
    <3>3. \A n \in DOMAIN toPeer' : ~ReplyTo(toPeer'[n], i)
        BY <1>2, <3>2
    <3> QED
        BY <1>1, <3>2, <3>3 DEF Once
  <2> QED
      BY <2>2, <2>3
<1> QED
    BY <1>4, <1>5 DEF WireInv

(* Every step keeps the invariant.                                         *)
LEMMA WireStep == WireInv /\ [WNext]_wireVars => WireInv'
<1> SUFFICES ASSUME WireInv, [WNext]_wireVars PROVE WireInv'
    OBVIOUS
<1>1. CASE UNCHANGED wireVars
    BY <1>1 DEF wireVars, clientVars, peerVars, WireInv, WireTypes, Once, OwnResult
<1>2. CASE Peer
    BY <1>2, PeerCallsKeeps, PeerSpeaksKeeps, PeerReadsKeeps DEF Peer
<1> QED
    BY <1>1, <1>2, ReadKeeps, ReaderEndsKeeps, ClientStepsKeep DEF WNext

(* At the start both directions are empty.                                 *)
LEMMA WireInit == WInit => WireInv
<1> SUFFICES ASSUME WInit PROVE WireInv
    OBVIOUS
<1>1. toPeer = <<>> /\ toClient = <<>> /\ \A i \in Ids : calls[i] = "none"
    BY DEF WInit
<1>2. WireTypes
    BY <1>1, EmptySeq DEF WInit, WireTypes
<1>3. \A i \in Ids : Once(i)
    BY <1>1 DEF Once
<1>4. OwnResult
    BY <1>1 DEF OwnResult
<1> QED
    BY <1>2, <1>3, <1>4 DEF WireInv

(* The invariant holds in every reachable state.                           *)
LEMMA AlwaysWireInv == WSpec => []WireInv
    BY WireInit, WireStep, PTL DEF WSpec

(* _try_complete_pending: a call gets the result of its own request,       *)
(* whatever the peer sends, as often and in whatever order.                *)
THEOREM CallsGetTheirResult == WSpec => []OwnResult
<1>1. WireInv => OwnResult
    BY DEF WireInv
<1> QED
    BY <1>1, AlwaysWireInv, PTL

(* _dispatch_inbound: every reply is to a call that the peer still waits   *)
(* for, and the only one.                                                  *)
THEOREM RepliesAreExpected == WSpec => []RepliesExpected
<1>1. ASSUME WireInv PROVE RepliesExpected
  <2>1. SUFFICES ASSUME NEW n \in DOMAIN toPeer, toPeer[n].response # <<>>
                 PROVE  /\ peerCalls[Str(toPeer[n].response[1].id)] = "open"
                        /\ \A m \in DOMAIN toPeer : toPeer[m] = toPeer[n] => m = n
      BY DEF RepliesExpected
  <2> DEFINE i == Str(toPeer[n].response[1].id)
  <2>2. toPeer[n] \in ClientFrames
      BY <1>1, ElementOfSeq DEF WireInv, WireTypes
  <2>3. i \in Ids /\ ReplyTo(toPeer[n], i)
      BY <2>1, <2>2, ClientFrameKinds DEF ReplyTo
  <2>4. Once(i)
      BY <1>1, <2>3 DEF WireInv
  <2> QED
      BY <2>3, <2>4 DEF Once
<1> QED
    BY <1>1, AlwaysWireInv, PTL

=============================================================================
