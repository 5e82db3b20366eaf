-------------------------------- MODULE Wire --------------------------------
(***************************************************************************)
(* The wire format (src/rpcproxy/fastapi_ws_rpc/wire.py) and how the       *)
(* reader of RpcProxyClientBase sorts frames: a conversation between the   *)
(* client and a peer over a WebSocket, which keeps the order of frames.    *)
(* RpcClient models what the client does with the outcome.                 *)
(*                                                                         *)
(* A frame has at most one request and at most one response.  A request or *)
(* response that is null or no object is absent, except that a response of *)
(* another type still counts as present, like one without a call id.  A    *)
(* call id may be written as JSON text or as a number.  Client and peer    *)
(* draw call ids independently, so that they may coincide.                 *)
(*                                                                         *)
(* External: the peer.  It answers calls by reply_message_for_envelope, in *)
(* any order, late, again, or never; it may put a request of its own into  *)
(* the frame of an answer, which makes it no call (is_pending_rpc_call).   *)
(***************************************************************************)
EXTENDS Naturals, Sequences

CONSTANTS
    Ids,        \* call ids, as text
    Methods,    \* the methods that the peer calls
    MaxFrames   \* bound: frames the peer sends

VARIABLES
    toPeer, toClient,   \* frames on their way
    reading,    \* does the client's reader run?
    calls,      \* the client's calls: "none", "pending", "done", "given_up"
    got,        \* the result each call returned
    peerCalls,  \* the peer's calls: "none", "open", "answered"
    method,     \* the method of each call of the peer
    owed,       \* requests the peer has read
    sent        \* frames the peer has sent

clientVars == <<calls, got>>
peerVars   == <<peerCalls, method, owed, sent>>
wireVars   == <<toPeer, toClient, reading, clientVars, peerVars>>

Null  == <<"null", "null">>
Forms == {"text", "number"}
Str(id) == id[1]

BuiltIn == {"_ping_", "_get_channel_id_"}

WInit ==
    /\ toPeer = <<>> /\ toClient = <<>> /\ reading = TRUE
    /\ calls = [i \in Ids |-> "none"] /\ got = [i \in Ids |-> "none"]
    /\ peerCalls = [i \in Ids |-> "none"] /\ method = [i \in Ids |-> "none"]
    /\ owed = {} /\ sent = 0

(* Frames: call_request_message, response_message, and one with both.      *)
Request(name, id)    == [request |-> <<[method |-> name, id |-> id]>>, response |-> <<>>]
Response(id, result) == [request |-> <<>>, response |-> <<[id |-> id, result |-> result]>>]
Both(f, g)           == [request |-> f.request, response |-> g.response]

(* Mutant of IsPendingCall: the response is not looked at.                 *)
IsPendingCallAnyway(f) == f.request # <<>>

(* is_pending_rpc_call.                                                    *)
IsPendingCall(f) == f.request # <<>> /\ f.response = <<>>

(* extract_request: no request without a call id, and its id as text.      *)
Extracts(f) == IsPendingCall(f) /\ f.request[1].id # Null
Extracted(f) == [method |-> f.request[1].method, id |-> Str(f.request[1].id)]

-----------------------------------------------------------------------------
(***************************************************************************)
(* The client                                                              *)
(***************************************************************************)
Pending == {i \in Ids : calls[i] = "pending"}

(* The result of a call depends on the call: it is named by its id.        *)
ClientCalls(i) ==
    /\ calls[i] = "none"
    /\ calls' = [calls EXCEPT ![i] = "pending"]
    /\ toPeer' = Append(toPeer, Request("post_message", <<i, "text">>))
    /\ UNCHANGED <<toClient, reading, got, peerVars>>

(* Its timeout, or a cancellation.                                         *)
ClientGivesUp(i) ==
    /\ calls[i] = "pending"
    /\ calls' = [calls EXCEPT ![i] = "given_up"]
    /\ UNCHANGED <<toPeer, toClient, reading, got, peerVars>>

(* Mutant of Completes: a response completes any pending call.             *)
CompletesAny(f, i) == f.response # <<>> /\ f.response[1].id # Null /\ i \in Pending

(* Mutant of Completes: call ids are compared as they came.                *)
CompletesAsText(f, i) ==
    f.response # <<>> /\ f.response[1].id = <<i, "text">> /\ i \in Pending

(* _try_complete_pending: the response is for the pending call i.          *)
Completes(f, i) ==
    /\ f.response # <<>> /\ f.response[1].id # Null
    /\ i = Str(f.response[1].id) /\ i \in Pending

ReadResponse(i) ==
    /\ reading /\ toClient # <<>> /\ Completes(Head(toClient), i)
    /\ toClient' = Tail(toClient)
    /\ calls' = [calls EXCEPT ![i] = "done"]
    /\ got' = [got EXCEPT ![i] = Head(toClient).response[1].result]
    /\ UNCHANGED <<toPeer, reading, peerVars>>

(* Mutant of Answered: one built-in method is forgotten.                   *)
AnsweredButOne == {"_ping_", "receive_envelope"}

(* The methods that _dispatch_inbound answers.                             *)
Answered == BuiltIn \cup {"receive_envelope"}

(* The frame is not a response to a pending call.                          *)
Unclaimed == reading /\ toClient # <<>> /\ \A i \in Ids : ~Completes(Head(toClient), i)

(* It is a call that _dispatch_inbound answers.                            *)
Known == Extracts(Head(toClient)) /\ Extracted(Head(toClient)).method \in Answered

(* _dispatch_inbound.  The reader reads on only after it has replied.      *)
ReadCall ==
    /\ Unclaimed /\ Known
    /\ toPeer' = Append(toPeer, Response(<<Extracted(Head(toClient)).id, "text">>, "result"))
    /\ toClient' = Tail(toClient)
    /\ UNCHANGED <<reading, clientVars, peerVars>>

(* The reader's finally block cancels what is pending.                     *)
ReaderStops ==
    /\ reading' = FALSE
    /\ calls' = [i \in Ids |-> IF calls[i] = "pending" THEN "given_up" ELSE calls[i]]
    /\ UNCHANGED <<toPeer, got, peerVars>>

(* _dispatch_inbound raises: is_chunk_envelope on a chunk without version, *)
(* receive_envelope, or ws.send of the reply.  The call is never answered. *)
ReadFails ==
    /\ Unclaimed /\ Known
    /\ toClient' = Tail(toClient)
    /\ ReaderStops

(* recv() raises ConnectionClosed, or the reader is cancelled.             *)
ReaderEnds == reading /\ ReaderStops /\ UNCHANGED toClient

(* An unknown method, no call id, or neither a call nor a response that    *)
(* somebody waits for (on_unmatched_message).                              *)
ReadIgnored ==
    /\ Unclaimed /\ ~Known
    /\ toClient' = Tail(toClient)
    /\ UNCHANGED <<toPeer, reading, clientVars, peerVars>>

(* What becomes of the frame that the reader has got.                      *)
Read == (\E i \in Ids : ReadResponse(i)) \/ ReadCall \/ ReadFails \/ ReadIgnored

-----------------------------------------------------------------------------
(***************************************************************************)
(* The peer                                                                *)
(***************************************************************************)
Send(f) ==
    /\ sent < MaxFrames
    /\ sent' = sent + 1
    /\ toClient' = Append(toClient, f)

PeerCalls(i, m, form) ==
    /\ peerCalls[i] = "none"
    /\ Send(Request(m, <<i, form>>))
    /\ peerCalls' = [peerCalls EXCEPT ![i] = "open"]
    /\ method' = [method EXCEPT ![i] = m]
    /\ UNCHANGED <<toPeer, reading, clientVars, owed>>

(* A request without a call id.                                            *)
PeerNotifies(m) ==
    /\ Send(Request(m, Null))
    /\ UNCHANGED <<toPeer, reading, clientVars, peerCalls, method, owed>>

(* reply_message_for_request, with a request of the peer's own or without. *)
PeerAnswers(request, form) ==
    LET answer == Response(<<request.id, form>>, request.id)
    IN  /\ \/ Send(answer)
           \/ \E m \in Methods, i \in Ids : Send(Both(Request(m, <<i, "text">>), answer))
        /\ UNCHANGED <<toPeer, reading, clientVars, peerCalls, method, owed>>

(* The peer sorts frames as the client does.                               *)
PeerReads ==
    /\ toPeer # <<>>
    /\ toPeer' = Tail(toPeer)
    /\ LET f == Head(toPeer)
       IN  IF Extracts(f)
           THEN owed' = owed \cup {Extracted(f)} /\ UNCHANGED peerCalls
           ELSE /\ peerCalls' = [peerCalls EXCEPT ![Str(f.response[1].id)] =
                                    IF @ = "open" THEN "answered" ELSE @]
                /\ UNCHANGED owed
    /\ UNCHANGED <<toClient, reading, clientVars, method, sent>>

Peer ==
    \/ \E i \in Ids, m \in Methods, form \in Forms : PeerCalls(i, m, form)
    \/ \E m \in Methods : PeerNotifies(m)
    \/ \E r \in owed, form \in Forms : PeerAnswers(r, form)
    \/ PeerReads

WNext == Read \/ ReaderEnds \/ Peer \/ \E i \in Ids : ClientCalls(i) \/ ClientGivesUp(i)

(* Both ends read what has arrived, the client as long as its reader runs. *)
WSpec == WInit /\ [][WNext]_wireVars /\ WF_wireVars(Read) /\ WF_wireVars(PeerReads)

-----------------------------------------------------------------------------
(***************************************************************************)
(* Properties                                                              *)
(***************************************************************************)

(* A call returns the result of its own request, although answers come in  *)
(* any order, twice or after the call was given up, and the peer's calls   *)
(* may have the same ids.                                                  *)
OwnResult == \A i \in Ids : calls[i] = "done" => got[i] = i

(* The client replies only to calls that are still open, and once: never   *)
(* to a response, not even to one with a request in the same frame.        *)
RepliesExpected ==
    \A n \in DOMAIN toPeer :
        toPeer[n].response # <<>> =>
            /\ peerCalls[Str(toPeer[n].response[1].id)] = "open"
            /\ \A m \in DOMAIN toPeer : toPeer[m] = toPeer[n] => m = n

(* While the reader runs, every call of the peer is answered, unless its   *)
(* method is unknown: also one that came between responses, carries its id *)
(* as a number or has the id of a call of the client.                      *)
PeerCallsAnswered ==
    \A i \in Ids :
        peerCalls[i] = "open" /\ method[i] # "unknown" ~> peerCalls[i] = "answered" \/ ~reading

(* An answer on its way to a running reader ends the call that waits for   *)
(* it, even if the reader fails on a frame that comes before it.           *)
AnswersArrive ==
    \A i \in Ids :
        reading /\ (\E n \in DOMAIN toClient : \E form \in Forms :
                       toClient[n].response = <<[id |-> <<i, form>>, result |-> i]>>)
        ~> calls[i] # "pending"

=============================================================================
