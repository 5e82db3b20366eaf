------------------------ MODULE LoginAuthorization ------------------------
(***************************************************************************)
(* The callee's login flow (src/rpcproxy/auth): the session store, the     *)
(* API key records, and LocalAuthorizationServer, which serves each HTTP   *)
(* request in a thread of its own.                                         *)
(*                                                                         *)
(* Nothing is locked.  A thread takes one step for each access to what     *)
(* threads share: a look-up in a dict, a reading of the clock, a write.    *)
(* A key is named by its number in the order of issue; its secret, hash    *)
(* and text form, the HTML pages and requests that carry no state are left *)
(* out.  External: the application, which creates and removes sessions and *)
(* revokes keys, and the push_api_key callback.                            *)
(***************************************************************************)
EXTENDS Naturals, FiniteSets

CONSTANTS
    Callers,        \* caller ids
    Requests,       \* HTTP requests, each with its thread
    Ttl,            \* ttl_seconds of every session
    MaxTime,        \* bound: clock
    MaxSessions     \* bound: sessions created

VARIABLES
    now,        \* the clock
    sessions,   \* _sessions: what is stored for each caller id
    created,    \* sessions created so far
    records,    \* _records: keys with a record
    revoked,    \* keys whose record is revoked
    up,         \* the HTTP server accepts requests
    pc,         \* where each request is
    asks,       \* "show" for GET authorize_path, "confirm" for POST confirm_path
    cid,        \* its caller id
    session,    \* the session that confirm_authorization resolved
    found,      \* the session that get_pending_session looked up last
    key,        \* the key issued (0: none)
    code,       \* the HTTP status sent (0: none)
    issued,     \* history: number of keys issued
    pushed,     \* history: keys that reached their caller
    arrived,    \* history: when the request arrived
    spent       \* history: sessions confirmed with 200 before it arrived

storeVars   == <<sessions, created>>
keyVars     == <<records, revoked, issued, pushed>>
requestVars == <<asks, cid, arrived, spent>>
vars == <<now, storeVars, keyVars, up, pc, requestVars, session, found, key, code>>

ASSUME TtlAssumption == Ttl \in Nat \ {0}

Absent == [id |-> 0, expires |-> 0, status |-> "absent"]

Init ==
    /\ now = 0
    /\ sessions = [c \in Callers |-> Absent] /\ created = 0
    /\ records = {} /\ revoked = {} /\ issued = 0 /\ pushed = {}
    /\ up = FALSE
    /\ pc = [r \in Requests |-> "idle"]
    /\ asks = [r \in Requests |-> "none"]
    /\ cid \in [Requests -> Callers]
    /\ session = [r \in Requests |-> Absent]
    /\ found = [r \in Requests |-> Absent]
    /\ key = [r \in Requests |-> 0]
    /\ code = [r \in Requests |-> 0]
    /\ arrived = [r \in Requests |-> 0]
    /\ spent = [r \in Requests |-> {}]

-----------------------------------------------------------------------------
(***************************************************************************)
(* The application and the clock                                           *)
(***************************************************************************)
Tick ==
    /\ now < MaxTime
    /\ now' = now + 1
    /\ UNCHANGED <<storeVars, keyVars, up, pc, requestVars, session, found, key, code>>

(* A new session replaces whatever is stored for the caller.               *)
CreateSession(c) ==
    /\ created < MaxSessions
    /\ created' = created + 1
    /\ sessions' = [sessions EXCEPT ![c] =
           [id |-> created + 1, expires |-> now + Ttl, status |-> "pending"]]
    /\ UNCHANGED <<now, keyVars, up, pc, requestVars, session, found, key, code>>

RemoveSession(c) ==
    /\ sessions[c] # Absent
    /\ sessions' = [sessions EXCEPT ![c] = Absent]
    /\ UNCHANGED <<now, created, keyVars, up, pc, requestVars, session, found, key, code>>

RevokeRecord(k) ==
    /\ k \in records \ revoked
    /\ revoked' = revoked \cup {k}
    /\ UNCHANGED <<now, storeVars, records, issued, pushed, up, pc, requestVars,
                   session, found, key, code>>

(* verify_api_key of the issuing callee.                                   *)
Verifies(k) == k \in records /\ k \notin revoked

Start ==
    /\ ~up /\ up' = TRUE
    /\ UNCHANGED <<now, storeVars, keyVars, pc, requestVars, session, found, key, code>>

(* Request threads are daemons: stop() does not wait for them.             *)
Stop ==
    /\ up /\ up' = FALSE
    /\ UNCHANGED <<now, storeVars, keyVars, pc, requestVars, session, found, key, code>>

-----------------------------------------------------------------------------
(***************************************************************************)
(* A request                                                               *)
(***************************************************************************)
Respond(r, status) ==
    /\ pc' = [pc EXCEPT ![r] = "answered"]
    /\ code' = [code EXCEPT ![r] = status]

(* The sessions some request has confirmed.                                *)
Confirmed == {session[r].id : r \in {q \in Requests : asks[q] = "confirm" /\ code[q] = 200}}

Arrive(r, what, c) ==
    /\ up /\ pc[r] = "idle"
    /\ pc' = [pc EXCEPT ![r] = "lookup"]
    /\ asks' = [asks EXCEPT ![r] = what]
    /\ cid' = [cid EXCEPT ![r] = c]
    /\ arrived' = [arrived EXCEPT ![r] = now]
    /\ spent' = [spent EXCEPT ![r] = Confirmed]
    /\ UNCHANGED <<now, storeVars, keyVars, up, session, found, key, code>>

(* get_pending_session looks the session up: at first for                  *)
(* resolve_pending_session, and after the push for complete_session.       *)
Lookup(r, from, to) ==
    /\ pc[r] = from
    /\ found' = [found EXCEPT ![r] = sessions[cid[r]]]
    /\ IF sessions[cid[r]].status = "pending"
       THEN pc' = [pc EXCEPT ![r] = to] /\ UNCHANGED code
       ELSE Respond(r, 400)
    /\ UNCHANGED <<now, storeVars, keyVars, up, requestVars, session, key>>

(* Mutant of IsExpired: the last instant still counts.                     *)
IsExpiredLate(s) == now > s.expires

IsExpired(s) == now >= s.expires

(* It reads the clock.  The session is pending: the page is shown, or a    *)
(* key is issued next.                                                     *)
Resolve(r) ==
    /\ pc[r] = "check"
    /\ session' = [session EXCEPT ![r] = found[r]]
    /\ \/ IsExpired(found[r]) /\ pc' = [pc EXCEPT ![r] = "expire"] /\ UNCHANGED code
       \/ ~IsExpired(found[r]) /\ asks[r] = "show" /\ Respond(r, 200)
       \/ /\ ~IsExpired(found[r]) /\ asks[r] = "confirm"
          /\ pc' = [pc EXCEPT ![r] = "issue"] /\ UNCHANGED code
    /\ UNCHANGED <<now, storeVars, keyVars, up, requestVars, found, key>>

(* It stores the session it looked up as expired.                          *)
MarkExpired(r) ==
    /\ pc[r] = "expire"
    /\ sessions' = [sessions EXCEPT ![cid[r]] = [found[r] EXCEPT !.status = "expired"]]
    /\ Respond(r, 400)
    /\ UNCHANGED <<now, created, keyVars, up, requestVars, session, found, key>>

(* issue_api_key: a fresh key whose record is saved before anyone has it.  *)
IssueApiKey(r) ==
    /\ pc[r] = "issue"
    /\ issued' = issued + 1
    /\ records' = records \cup {issued + 1}
    /\ key' = [key EXCEPT ![r] = issued + 1]
    /\ pc' = [pc EXCEPT ![r] = "push"]
    /\ UNCHANGED <<now, storeVars, revoked, pushed, up, requestVars, session, found, code>>

PushApiKey(r) ==
    /\ pc[r] = "push"
    /\ pushed' = pushed \cup {key[r]}
    /\ pc' = [pc EXCEPT ![r] = "complete"]
    /\ UNCHANGED <<now, storeVars, records, revoked, issued, up, requestVars, session,
                   found, key, code>>

(* Mutant of PushRaises: the exception is swallowed.                       *)
PushSwallowed(r) ==
    /\ pc[r] = "push"
    /\ pc' = [pc EXCEPT ![r] = "complete"]
    /\ UNCHANGED <<now, storeVars, keyVars, up, requestVars, session, found, key, code>>

(* The callback raises, perhaps after the key has gone out.  The session   *)
(* stays as it is, and so does the record.                                 *)
PushRaises(r) ==
    /\ pc[r] = "push"
    /\ pushed' \in {pushed, pushed \cup {key[r]}}
    /\ Respond(r, 500)
    /\ UNCHANGED <<now, storeVars, records, revoked, issued, up, requestVars, session,
                   found, key>>

(* complete_session reads the clock in its turn.                           *)
Recheck(r) ==
    /\ pc[r] = "recheck"
    /\ pc' = [pc EXCEPT ![r] = IF IsExpired(found[r]) THEN "expire" ELSE "mark"]
    /\ UNCHANGED <<now, storeVars, keyVars, up, requestVars, session, found, key, code>>

(* Mutant of MarkCompleted: the session is left pending.                   *)
MarkNothing(r) ==
    /\ pc[r] = "mark"
    /\ Respond(r, 200)
    /\ UNCHANGED <<now, storeVars, keyVars, up, requestVars, session, found, key>>

MarkCompleted(r) ==
    /\ pc[r] = "mark"
    /\ sessions' = [sessions EXCEPT ![cid[r]] = [found[r] EXCEPT !.status = "completed"]]
    /\ Respond(r, 200)
    /\ UNCHANGED <<now, created, keyVars, up, requestVars, session, found, key>>

Request(r) ==
    \/ \E what \in {"show", "confirm"}, c \in Callers : Arrive(r, what, c)
    \/ Lookup(r, "lookup", "check") \/ Resolve(r) \/ MarkExpired(r)
    \/ IssueApiKey(r) \/ PushApiKey(r) \/ PushRaises(r)
    \/ Lookup(r, "complete", "recheck") \/ Recheck(r) \/ MarkCompleted(r)

Next ==
    \/ Tick \/ Start \/ Stop
    \/ \E c \in Callers : CreateSession(c) \/ RemoveSession(c)
    \/ \E k \in records : RevokeRecord(k)
    \/ \E r \in Requests : Request(r)

Spec == Init /\ [][Next]_vars

-----------------------------------------------------------------------------
(***************************************************************************)
(* Properties                                                              *)
(***************************************************************************)

(* A key that is out verifies until it is revoked, also when the           *)
(* confirmation that issued it fails afterwards, and the browser is told   *)
(* of success only when the key of its own confirmation is out.            *)
PushedKeysVerify ==
    /\ \A k \in pushed : k \in revoked \/ Verifies(k)
    /\ \A r \in Requests : code[r] = 200 /\ asks[r] = "confirm" => key[r] \in pushed

(* A request that arrives when the session is over (at the very instant it *)
(* expires, too) gets no key, whatever other requests do to the session.   *)
ExpiredOnArrivalRejected ==
    \A r \in Requests : key[r] # 0 => arrived[r] < session[r].expires

(* A session whose confirmation was reported to a browser cannot be        *)
(* confirmed again: stale writes of other threads may turn a completed     *)
(* session into an expired one, never into a pending one.                  *)
NoReuseAfterCompletion ==
    \A r \in Requests : key[r] # 0 => session[r].id \notin spent[r]

=============================================================================
