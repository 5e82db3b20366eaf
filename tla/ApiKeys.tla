------------------------------ MODULE ApiKeys ------------------------------
(***************************************************************************)
(* The API keys of callees (src/rpcproxy/auth/api_key.py): their text      *)
(* form, the records that ApiKeyIssuer and ApiKeyVerifier of several       *)
(* callees share, and the store in which a caller keeps one key for each   *)
(* callee.                                                                 *)
(*                                                                         *)
(* A text is the sequence of its pieces between underscores.  Segments are *)
(* the pieces that _SEGMENT_RE accepts.  LoginAuthorization takes from     *)
(* here that a key verifies exactly if it was issued and is not revoked.   *)
(*                                                                         *)
(* External: secrets.token_hex (a key id is fresh for its callee; secrets  *)
(* need not differ), sha256 (without collisions).                          *)
(***************************************************************************)
EXTENDS Naturals, Sequences

CONSTANTS
    Segments,   \* legal segments
    Callees,    \* callee ids
    KeyIds,     \* what token_hex(8) returns
    Secrets,    \* what token_hex(32) returns
    Texts       \* texts that reach a verifier or a caller

VARIABLES
    records,    \* _records of InMemoryApiKeyRecordStore
    apiKeys,    \* _api_keys of InMemoryApiKeyStore
    issued,     \* history: texts of the keys issued
    revoked     \* history: <<callee_id, key_id>> revoked

vars == <<records, apiKeys, issued, revoked>>

ASSUME SegmentsAssumption ==
    /\ Callees \cup KeyIds \cup Secrets \cup {"..."} \subseteq Segments
    /\ "..." \notin Secrets
    /\ \A t \in Texts : t \in Seq(STRING)

Absent == [hash |-> <<>>, revoked |-> FALSE]
NoKey  == <<>>

Hash(secret) == <<"sha256", secret>>

Generate(callee, keyId, secret) == <<"rpcp", "ck", callee, keyId, secret>>

(* Mutant of Parses: what follows the fifth piece is ignored.              *)
ParsesPrefix(text) ==
    /\ Len(text) >= 5
    /\ text[1] = "rpcp" /\ text[2] = "ck"
    /\ \A i \in 3 .. 5 : text[i] \in Segments

(* split("_", 4) leaves any further underscore in the secret, which is     *)
(* then not a segment.                                                     *)
Parses(text) ==
    /\ Len(text) = 5
    /\ text[1] = "rpcp" /\ text[2] = "ck"
    /\ \A i \in 3 .. 5 : text[i] \in Segments

CalleeOf(text) == text[3]
KeyOf(text)    == <<text[3], text[4]>>
SecretOf(text) == text[5]

(* Mutant of Mask: the secret is shown.                                    *)
MaskNothing(text) == IF Parses(text) THEN text ELSE <<"<invalid-api-key>">>

Mask(text) == IF Parses(text) THEN [text EXCEPT ![5] = "..."] ELSE <<"<invalid-api-key>">>

-----------------------------------------------------------------------------
Init ==
    /\ records = [k \in Callees \X KeyIds |-> Absent]
    /\ apiKeys = [c \in Callees |-> NoKey]
    /\ issued = {} /\ revoked = {}

(* issue_api_key of the callee: generate, parse, save the record.          *)
Issue(c, k, s) ==
    LET text == Generate(c, k, s)
    IN  /\ Parses(text) /\ records[KeyOf(text)] = Absent
        /\ records' = [records EXCEPT ![KeyOf(text)] =
                          [hash |-> Hash(SecretOf(text)), revoked |-> FALSE]]
        /\ issued' = issued \cup {text}
        /\ UNCHANGED <<apiKeys, revoked>>

(* revoke_record.                                                          *)
Revoke(c, k) ==
    /\ records[<<c, k>>] # Absent
    /\ records' = [records EXCEPT ![<<c, k>>].revoked = TRUE]
    /\ revoked' = revoked \cup {<<c, k>>}
    /\ UNCHANGED <<apiKeys, issued>>

(* save_api_key; it raises for any other text.                             *)
SaveApiKey(c, text) ==
    /\ Parses(text) /\ CalleeOf(text) = c
    /\ apiKeys' = [apiKeys EXCEPT ![c] = text]
    /\ UNCHANGED <<records, issued, revoked>>

RemoveApiKey(c) ==
    /\ apiKeys' = [apiKeys EXCEPT ![c] = NoKey]
    /\ UNCHANGED <<records, issued, revoked>>

(* verify_api_key of the callee.                                           *)
Verifies(c, text) ==
    /\ Parses(text) /\ CalleeOf(text) = c
    /\ KeyOf(text) \in DOMAIN records       \* get_record
    /\ records[KeyOf(text)] # Absent /\ ~records[KeyOf(text)].revoked
    /\ records[KeyOf(text)].hash = Hash(SecretOf(text))

Next ==
    \/ \E c \in Callees, k \in KeyIds : Revoke(c, k) \/ \E s \in Secrets : Issue(c, k, s)
    \/ \E c \in Callees : RemoveApiKey(c) \/ \E t \in Texts : SaveApiKey(c, t)

Spec == Init /\ [][Next]_vars

-----------------------------------------------------------------------------
(***************************************************************************)
(* Properties                                                              *)
(***************************************************************************)

(* A callee accepts exactly the texts of the keys it has issued and not    *)
(* revoked, although callees share the store of records and may draw the   *)
(* same key ids and secrets: no other text passes for one of them.         *)
VerifiesExactlyIssued ==
    \A c \in Callees, t \in Texts \cup issued :
        Verifies(c, t) <=> t \in issued /\ t[3] = c /\ <<c, t[4]>> \notin revoked

(* The masked form of a key has the form of a key itself and a caller may  *)
(* store it as one: no callee accepts it, also when what was masked is     *)
(* what a caller has stored, and it tells nothing of the secret.           *)
MaskedKeyUseless ==
    /\ \A t \in issued \cup {apiKeys[c] : c \in Callees} : \A c \in Callees : ~Verifies(c, Mask(t))
    /\ \A t \in issued, s \in Secrets : Mask(Generate(t[3], t[4], s)) = Mask(t)

=============================================================================
