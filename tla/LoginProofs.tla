---------------------------- MODULE LoginProofs ----------------------------
(***************************************************************************)
(* Proofs about LoginAuthorization for every number of callers, requests,  *)
(* sessions and keys: threads that interleave without a lock neither give  *)
(* a key to who came too late nor confirm a session twice, and a key that  *)
(* went out verifies.                                                      *)
(***************************************************************************)
EXTENDS LoginAuthorization, TLAPS

Places == {"idle", "lookup", "check", "issue", "push", "complete", "recheck", "mark",
           "expire", "answered"}

Session == [id : Nat, expires : Nat, status : {"absent", "pending", "expired", "completed"}]

Types ==
    /\ now \in Nat /\ created \in Nat /\ issued \in Nat
    /\ sessions \in [Callers -> Session]
    /\ pc \in [Requests -> Places]
    /\ asks \in [Requests -> {"none", "show", "confirm"}]
    /\ cid \in [Requests -> Callers]
    /\ session \in [Requests -> Session] /\ found \in [Requests -> Session]
    /\ key \in [Requests -> Nat] /\ code \in [Requests -> Nat]
    /\ arrived \in [Requests -> Nat]

(* Who is being served has asked for something, and has no answer yet.     *)
Served ==
    \A r \in Requests :
        /\ pc[r] # "idle" => asks[r] # "none"
        /\ pc[r] # "answered" => code[r] = 0

(* The way of a key: recorded, then pushed, then reported.                 *)
KeysRecorded ==
    /\ pushed \subseteq records
    /\ \A r \in Requests :
          /\ pc[r] \in {"idle", "lookup", "check", "issue"} => key[r] = 0
          /\ pc[r] = "push" => key[r] \in records
          /\ pc[r] \in {"complete", "recheck", "mark"} => key[r] \in pushed
          /\ code[r] = 200 /\ asks[r] = "confirm" => key[r] \in pushed

(* Who is given a key has come before the end of the session it resolved.  *)
InTime ==
    \A r \in Requests :
        /\ arrived[r] <= now
        /\ pc[r] = "issue" \/ key[r] # 0 => arrived[r] < session[r].expires

KeyInv == Types /\ Served /\ KeysRecorded /\ InTime

(* Who is idle has looked nothing up.  A number names one session for      *)
(* ever, and a session belongs to one caller: wherever its number is       *)
(* found, in the store or in a thread's hands, the caller is the same.     *)
Owned ==
    /\ \A r \in Requests : pc[r] = "idle" => found[r].id = 0 /\ session[r].id = 0
    /\ \A c \in Callers : sessions[c].id <= created
    /\ \A r \in Requests : found[r].id <= created /\ session[r].id <= created
    /\ \A c \in Callers : sessions[c].status = "pending" => sessions[c].id # 0
    /\ \A c, d \in Callers : sessions[c].id # 0 /\ sessions[c].id = sessions[d].id => c = d
    /\ \A c \in Callers, r \in Requests :
          sessions[c].id # 0 /\ sessions[c].id \in {found[r].id, session[r].id} => cid[r] = c
    /\ \A r, q \in Requests :
          found[r].id # 0 /\ found[r].id \in {found[q].id, session[q].id} => cid[r] = cid[q]

(* A confirmed session is never again pending, and what a request goes on  *)
(* with was not confirmed when it came.                                    *)
Spent ==
    /\ \A c \in Callers : sessions[c].status = "pending" => sessions[c].id \notin Confirmed
    /\ \A r \in Requests :
          /\ spent[r] \subseteq Confirmed
          /\ pc[r] = "check" => found[r].id \notin spent[r]
          /\ pc[r] = "issue" \/ key[r] # 0 => session[r].id \notin spent[r]

ReuseInv == KeyInv /\ Owned /\ Spent

-----------------------------------------------------------------------------
(* What replacing the status of a session does.                            *)
LEMMA StatusReplaced ==
    ASSUME NEW s \in Session, NEW st \in {"absent", "pending", "expired", "completed"}
    PROVE  /\ [s EXCEPT !.status = st] \in Session
           /\ [s EXCEPT !.status = st].id = s.id
           /\ [s EXCEPT !.status = st].status = st
<1>1. s = [id |-> s.id, expires |-> s.expires, status |-> s.status]
    BY DEF Session
<1> QED
    BY <1>1 DEF Session

(* At the start there are no sessions, requests or keys.                   *)
LEMMA KeyInit == Init => KeyInv
<1> SUFFICES ASSUME Init PROVE KeyInv
    OBVIOUS
<1>1. Types
    BY DEF Init, Types, Absent, Session, Places
<1>2. Served /\ KeysRecorded /\ InTime
    BY DEF Init, Served, KeysRecorded, InTime
<1> QED
    BY <1>1, <1>2 DEF KeyInv

(* The application and the clock leave requests alone.                     *)
LEMMA KeyStepApplication ==
    ASSUME KeyInv,
           \/ Tick \/ Start \/ Stop
           \/ \E c \in Callers : CreateSession(c) \/ RemoveSession(c)
           \/ \E k \in records : RevokeRecord(k)
    PROVE  KeyInv'
<1> USE DEF KeyInv, Types, storeVars, keyVars, requestVars
<1>1. CASE Tick
    BY <1>1 DEF Tick, Served, KeysRecorded, InTime
<1>2. CASE Start \/ Stop
    BY <1>2 DEF Start, Stop, Served, KeysRecorded, InTime
<1>3. ASSUME NEW c \in Callers, CreateSession(c) \/ RemoveSession(c)
      PROVE  KeyInv'
  <2>1. sessions' \in [Callers -> Session] /\ created' \in Nat
      BY <1>3, TtlAssumption DEF CreateSession, RemoveSession, Session, Absent
  <2> QED
      BY <1>3, <2>1 DEF CreateSession, RemoveSession, Served, KeysRecorded, InTime
<1>4. ASSUME NEW k \in records, RevokeRecord(k)
      PROVE  KeyInv'
    BY <1>4 DEF RevokeRecord, Served, KeysRecorded, InTime
<1> QED
    BY <1>1, <1>2, <1>3, <1>4

(* The steps of a request thread keep the account of keys.                 *)
LEMMA KeyStepRequest ==
    ASSUME KeyInv, NEW r \in Requests, Request(r)
    PROVE  KeyInv'
<1> USE DEF KeyInv, Types, storeVars, keyVars, requestVars, Respond, Places
<1>1. ASSUME NEW what \in {"show", "confirm"}, NEW c \in Callers, Arrive(r, what, c)
      PROVE  KeyInv'
  <2>1. Types'
      BY <1>1 DEF Arrive
  <2>2. Served' /\ KeysRecorded'
      BY <1>1 DEF Arrive, Served, KeysRecorded
  <2>3. InTime'
      BY <1>1 DEF Arrive, InTime, KeysRecorded
  <2> QED
      BY <2>1, <2>2, <2>3
<1>2. ASSUME NEW from, NEW to, Lookup(r, from, to),
             <<from, to>> \in {<<"lookup", "check">>, <<"complete", "recheck">>}
      PROVE  KeyInv'
  <2>0. /\ found' = [found EXCEPT ![r] = sessions[cid[r]]] /\ sessions[cid[r]] \in Session
        /\ \/ pc[r] = "lookup" /\ pc' = [pc EXCEPT ![r] = "check"] /\ code' = code
           \/ pc[r] = "complete" /\ pc' = [pc EXCEPT ![r] = "recheck"] /\ code' = code
           \/ /\ pc[r] \in {"lookup", "complete"}
              /\ pc' = [pc EXCEPT ![r] = "answered"] /\ code' = [code EXCEPT ![r] = 400]
        /\ UNCHANGED <<now, storeVars, keyVars, up, requestVars, session, key>>
      BY <1>2 DEF Lookup
  <2>1. Types'
      BY <2>0
  <2>2. Served' /\ KeysRecorded'
      BY <2>0 DEF Served, KeysRecorded
  <2>3. InTime'
      BY <2>0 DEF InTime
  <2> QED
      BY <2>1, <2>2, <2>3
<1>3. CASE Resolve(r)
  <2>0. /\ pc[r] = "check" /\ session' = [session EXCEPT ![r] = found[r]]
        /\ \/ pc' = [pc EXCEPT ![r] = "expire"] /\ code' = code
           \/ /\ asks[r] = "show"
              /\ pc' = [pc EXCEPT ![r] = "answered"] /\ code' = [code EXCEPT ![r] = 200]
           \/ /\ now < found[r].expires
              /\ pc' = [pc EXCEPT ![r] = "issue"] /\ code' = code
        /\ UNCHANGED <<now, storeVars, keyVars, up, requestVars, found, key>>
      BY <1>3 DEF Resolve, IsExpired, Served, Session
  <2>1. Types'
      BY <2>0
  <2>2. Served' /\ KeysRecorded'
      BY <2>0 DEF Served, KeysRecorded
  <2>3. InTime'
      BY <2>0 DEF InTime, KeysRecorded, Session
  <2> QED
      BY <2>1, <2>2, <2>3
<1>4. CASE MarkExpired(r) \/ MarkCompleted(r)
  <2>0. PICK s \in Session : sessions' = [sessions EXCEPT ![cid[r]] = s]
      BY <1>4, StatusReplaced DEF MarkExpired, MarkCompleted
  <2>1. sessions' \in [Callers -> Session]
      BY <2>0
  <2>2. Types'
      BY <1>4, <2>1 DEF MarkExpired, MarkCompleted
  <2>3. Served' /\ KeysRecorded'
      BY <1>4 DEF MarkExpired, MarkCompleted, Served, KeysRecorded
  <2>4. InTime'
      BY <1>4 DEF MarkExpired, MarkCompleted, InTime
  <2> QED
      BY <2>2, <2>3, <2>4
<1>5. CASE IssueApiKey(r)
  <2>1. Types'
      BY <1>5 DEF IssueApiKey
  <2>2. Served' /\ KeysRecorded'
      BY <1>5 DEF IssueApiKey, Served, KeysRecorded
  <2>3. InTime'
      BY <1>5 DEF IssueApiKey, InTime
  <2> QED
      BY <2>1, <2>2, <2>3
<1>6. CASE PushApiKey(r) \/ PushRaises(r)
  <2>1. Types'
      BY <1>6 DEF PushApiKey, PushRaises
  <2>2. Served' /\ KeysRecorded'
      BY <1>6 DEF PushApiKey, PushRaises, Served, KeysRecorded
  <2>3. InTime'
      BY <1>6 DEF PushApiKey, PushRaises, InTime
  <2> QED
      BY <2>1, <2>2, <2>3
<1>7. CASE Recheck(r)
    BY <1>7 DEF Recheck, Served, KeysRecorded, InTime
<1> QED
  <2>1. Lookup(r, "lookup", "check") \/ Lookup(r, "complete", "recheck") => KeyInv'
      BY <1>2
  <2> QED
      BY <1>1, <1>3, <1>4, <1>5, <1>6, <1>7, <2>1 DEF Request

(* The account of keys holds in every reachable state.                     *)
LEMMA KeyInvariant == Spec => []KeyInv
<1>1. KeyInv /\ [Next]_vars => KeyInv'
  <2>1. KeyInv /\ Next => KeyInv'
      BY KeyStepApplication, KeyStepRequest DEF Next
  <2>2. KeyInv /\ UNCHANGED vars => KeyInv'
      BY DEF vars, storeVars, keyVars, requestVars, KeyInv, Types, Served, KeysRecorded, InTime
  <2> QED
      BY <2>1, <2>2
<1> QED
    BY <1>1, KeyInit, PTL DEF Spec

(* PushedKeysVerify, for confirm_authorization: a key that is out verifies *)
(* until it is revoked, and the browser is told of success only when the   *)
(* key of its confirmation is out.                                         *)
THEOREM KeysThatWentOutVerify == Spec => []PushedKeysVerify
<1>1. KeyInv => PushedKeysVerify
    BY DEF KeyInv, KeysRecorded, PushedKeysVerify, Verifies
<1> QED
    BY <1>1, KeyInvariant, PTL

(* ExpiredOnArrivalRejected, for get_pending_session and complete_session: *)
(* whoever arrives when its session is over gets no key, whatever other    *)
(* threads do to the session between its reading and its use.              *)
THEOREM LatecomersGetNoKey == Spec => []ExpiredOnArrivalRejected
<1>1. KeyInv => ExpiredOnArrivalRejected
    BY DEF KeyInv, InTime, ExpiredOnArrivalRejected
<1> QED
    BY <1>1, KeyInvariant, PTL

-----------------------------------------------------------------------------
(* A session is confirmed when the answer to its confirmation is sent, and *)
(* stays confirmed.                                                        *)
LEMMA ConfirmedKept ==
    ASSUME \A q \in Requests : asks[q] = "confirm" /\ code[q] = 200
               <=> asks'[q] = "confirm" /\ code'[q] = 200,
           \A q \in Requests : asks[q] = "confirm" /\ code[q] = 200 => session'[q] = session[q]
    PROVE  Confirmed' = Confirmed
    BY DEF Confirmed

(* At the start no session is spent.                                       *)
LEMMA ReuseInit == Init => ReuseInv
<1> SUFFICES ASSUME Init PROVE ReuseInv
    OBVIOUS
<1>1. Confirmed = {}
    BY DEF Init, Confirmed
<1>2. Owned /\ Spent
    BY <1>1 DEF Init, Owned, Spent, Absent
<1> QED
    BY <1>2, KeyInit DEF ReuseInv

(* The application, the clock and the server do not revive a session.      *)
LEMMA ReuseStepApplication ==
    ASSUME ReuseInv,
           \/ Tick \/ Start \/ Stop
           \/ \E c \in Callers : CreateSession(c) \/ RemoveSession(c)
           \/ \E k \in records : RevokeRecord(k)
    PROVE  ReuseInv'
<1> USE DEF storeVars, keyVars, requestVars
<1>0. KeyInv'
    BY KeyStepApplication DEF ReuseInv
<1>1. Confirmed' = Confirmed
    BY DEF Confirmed, Tick, Start, Stop, CreateSession, RemoveSession, RevokeRecord
<1>2. CASE \/ Tick \/ Start \/ Stop \/ \E k \in records : RevokeRecord(k)
    BY <1>0, <1>1, <1>2 DEF Tick, Start, Stop, RevokeRecord, ReuseInv, Owned, Spent
<1>3. ASSUME NEW c \in Callers, CreateSession(c)
      PROVE  ReuseInv'
  <2>1. /\ sessions'[c].id = created + 1 /\ \A d \in Callers \ {c} : sessions'[d] = sessions[d]
        /\ created' = created + 1 /\ created \in Nat
        /\ sessions \in [Callers -> Session] /\ session \in [Requests -> Session]
        /\ found \in [Requests -> Session]
      BY <1>3 DEF CreateSession, ReuseInv, KeyInv, Types
  <2>2. Owned'
      BY <1>3, <2>1 DEF CreateSession, ReuseInv, Owned, Session
  <2>3. \A i \in Confirmed : i <= created
      BY DEF Confirmed, ReuseInv, Owned
  <2>4. Spent'
      BY <1>1, <1>3, <2>1, <2>3 DEF CreateSession, ReuseInv, Spent
  <2> QED
      BY <1>0, <2>2, <2>4 DEF ReuseInv
<1>4. ASSUME NEW c \in Callers, RemoveSession(c)
      PROVE  ReuseInv'
  <2>1. /\ sessions'[c].id = 0 /\ sessions'[c].status = "absent"
        /\ \A d \in Callers \ {c} : sessions'[d] = sessions[d]
        /\ created' = created /\ created \in Nat
      BY <1>4 DEF RemoveSession, ReuseInv, KeyInv, Types, Absent
  <2>2. Owned' /\ Spent'
      BY <1>1, <1>4, <2>1 DEF RemoveSession, ReuseInv, Owned, Spent
  <2> QED
      BY <1>0, <2>2 DEF ReuseInv
<1> QED
    BY <1>2, <1>3, <1>4

(* Nor do the reads and the late writes of a request thread.               *)
LEMMA ReuseStepRequest ==
    ASSUME ReuseInv, NEW r \in Requests, Request(r)
    PROVE  ReuseInv'
<1> USE DEF storeVars, keyVars, requestVars, Respond
<1>0. KeyInv' /\ KeyInv /\ Types /\ Served /\ KeysRecorded
    BY KeyStepRequest DEF ReuseInv, KeyInv
<1>1. ASSUME NEW what \in {"show", "confirm"}, NEW c \in Callers, Arrive(r, what, c)
      PROVE  ReuseInv'
  <2>1. Confirmed' = Confirmed
      BY <1>0, <1>1, ConfirmedKept DEF Arrive, Types, Served
  <2>2. Owned'
      BY <1>0, <1>1 DEF Arrive, ReuseInv, Owned, Types
  <2>3. Spent'
      BY <1>0, <1>1, <2>1 DEF Arrive, ReuseInv, Spent, Types, KeysRecorded
  <2> QED
      BY <1>0, <2>2, <2>3 DEF ReuseInv
<1>2. ASSUME NEW from, NEW to, Lookup(r, from, to),
             <<from, to>> \in {<<"lookup", "check">>, <<"complete", "recheck">>}
      PROVE  ReuseInv'
  <2>0. /\ found' = [found EXCEPT ![r] = sessions[cid[r]]] /\ cid[r] \in Callers
        /\ \/ /\ pc' = [pc EXCEPT ![r] = "check"] /\ code' = code
              /\ sessions[cid[r]].status = "pending"
           \/ pc' = [pc EXCEPT ![r] = "recheck"] /\ code' = code
           \/ /\ pc' = [pc EXCEPT ![r] = "answered"] /\ code' = [code EXCEPT ![r] = 400]
        /\ pc[r] \in {"lookup", "complete"}
        /\ UNCHANGED <<now, storeVars, keyVars, up, requestVars, session, key>>
      BY <1>0, <1>2 DEF Lookup, Types
  <2>1. Confirmed' = Confirmed
      BY <1>0, <2>0, ConfirmedKept DEF Types, Served
  <2>2. Owned'
      BY <1>0, <2>0 DEF ReuseInv, Owned, Types
  <2>3. Spent'
      BY <1>0, <2>0, <2>1 DEF ReuseInv, Spent, Types
  <2> QED
      BY <1>0, <2>2, <2>3 DEF ReuseInv
<1>3. CASE Resolve(r)
  <2>0. /\ pc[r] = "check" /\ session' = [session EXCEPT ![r] = found[r]]
        /\ \/ pc' = [pc EXCEPT ![r] = "expire"] /\ code' = code
           \/ /\ asks[r] = "show"
              /\ pc' = [pc EXCEPT ![r] = "answered"] /\ code' = [code EXCEPT ![r] = 200]
           \/ pc' = [pc EXCEPT ![r] = "issue"] /\ code' = code
        /\ UNCHANGED <<now, storeVars, keyVars, up, requestVars, found, key>>
      BY <1>3 DEF Resolve
  <2>1. Confirmed' = Confirmed
      BY <1>0, <2>0, ConfirmedKept DEF Types, Served
  <2>2. Owned'
      BY <1>0, <2>0 DEF ReuseInv, Owned, Types
  <2>3. Spent'
      BY <1>0, <2>0, <2>1 DEF ReuseInv, Spent, Types, KeysRecorded
  <2> QED
      BY <1>0, <2>2, <2>3 DEF ReuseInv
<1>4. CASE MarkExpired(r) \/ MarkCompleted(r)
  <2>0. PICK s \in Session : /\ sessions' = [sessions EXCEPT ![cid[r]] = s]
                             /\ s.id = found[r].id /\ s.status \in {"expired", "completed"}
    <3>1. CASE MarkExpired(r)
      <4> DEFINE s == [found[r] EXCEPT !.status = "expired"]
      <4>1. s \in Session /\ s.id = found[r].id /\ s.status = "expired"
          BY <1>0, StatusReplaced DEF Types
      <4>2. sessions' = [sessions EXCEPT ![cid[r]] = s]
          BY <3>1, Zenon DEF MarkExpired
      <4> HIDE DEF s
      <4> QED
          BY <4>1, <4>2
    <3>2. CASE MarkCompleted(r)
      <4> DEFINE s == [found[r] EXCEPT !.status = "completed"]
      <4>1. s \in Session /\ s.id = found[r].id /\ s.status = "completed"
          BY <1>0, StatusReplaced DEF Types
      <4>2. sessions' = [sessions EXCEPT ![cid[r]] = s]
          BY <3>2, Zenon DEF MarkCompleted
      <4> HIDE DEF s
      <4> QED
          BY <4>1, <4>2
    <3> QED
        BY <1>4, <3>1, <3>2
  <2>1. /\ sessions'[cid[r]] = s /\ \A c \in Callers \ {cid[r]} : sessions'[c] = sessions[c]
        /\ cid[r] \in Callers /\ pc[r] \in {"expire", "mark"}
        /\ pc' = [pc EXCEPT ![r] = "answered"]
        /\ UNCHANGED <<created, requestVars, session, found, key>>
      BY <1>0, <1>4, <2>0 DEF Types, MarkExpired, MarkCompleted
  <2>2. Owned'
      BY <1>0, <2>0, <2>1 DEF ReuseInv, Owned, Types
  <2>3. Confirmed \subseteq Confirmed' /\ Confirmed' \subseteq Confirmed \cup {session[r].id}
      BY <1>0, <1>4 DEF Confirmed, MarkExpired, MarkCompleted, Types, Served
  <2>4. \A c \in Callers : sessions'[c].status = "pending" => sessions'[c].id \notin Confirmed'
      BY <1>0, <2>0, <2>1, <2>3 DEF ReuseInv, Owned, Spent, Types
  <2>5. Spent'
      BY <1>0, <2>1, <2>3, <2>4 DEF ReuseInv, Spent, Types
  <2> QED
      BY <1>0, <2>2, <2>5 DEF ReuseInv
<1>5. CASE IssueApiKey(r) \/ PushApiKey(r) \/ PushRaises(r) \/ Recheck(r)
  <2>0. /\ \/ pc[r] = "issue"
           \/ pc[r] \in {"push", "recheck"} /\ key' = key
        /\ \A q \in Requests \ {r} : pc'[q] = pc[q] /\ code'[q] = code[q] /\ key'[q] = key[q]
        /\ code'[r] \in {0, 500} /\ code[r] = 0
        /\ pc'[r] \in {"push", "complete", "answered", "expire", "mark"}
        /\ UNCHANGED <<sessions, created, requestVars, session, found>>
      BY <1>0, <1>5 DEF IssueApiKey, PushApiKey, PushRaises, Recheck, Types, Served
  <2>1. Confirmed' = Confirmed
      BY <2>0, ConfirmedKept
  <2>2. Owned'
      BY <2>0 DEF ReuseInv, Owned
  <2>3. Spent'
      BY <2>0, <2>1 DEF ReuseInv, Spent
  <2> QED
      BY <1>0, <2>2, <2>3 DEF ReuseInv
<1> QED
  <2>1. Lookup(r, "lookup", "check") \/ Lookup(r, "complete", "recheck") => ReuseInv'
      BY <1>2
  <2> QED
      BY <1>1, <1>3, <1>4, <1>5, <2>1 DEF Request

(* NoReuseAfterCompletion, for the session store that threads share: a     *)
(* session whose confirmation a browser was told of gives no key to a      *)
(* request that comes later: the writes of stale copies that threads make  *)
(* without a lock never turn it into a pending session.                    *)
THEOREM ConfirmedOnce == Spec => []NoReuseAfterCompletion
<1>1. ReuseInv /\ [Next]_vars => ReuseInv'
  <2>1. ReuseInv /\ Next => ReuseInv'
      BY ReuseStepApplication, ReuseStepRequest DEF Next
  <2>2. ReuseInv /\ UNCHANGED vars => ReuseInv'
      BY DEF vars, storeVars, keyVars, requestVars, ReuseInv, KeyInv, Types, Served,
             KeysRecorded, InTime, Owned, Spent, Confirmed
  <2> QED
      BY <2>1, <2>2
<1>2. ReuseInv => NoReuseAfterCompletion
    BY DEF ReuseInv, Spent, NoReuseAfterCompletion
<1> QED
    BY <1>1, <1>2, ReuseInit, PTL DEF Spec

=============================================================================
