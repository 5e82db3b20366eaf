-------------------------- MODULE MCHandlerClient --------------------------
(***************************************************************************)
(* Small instances of HandlerClient.                                       *)
(***************************************************************************)
EXTENDS HandlerClient, TLC

CONSTANTS r1

None == {}
OneRid == {r1}

(* Four replies and two slots: the least with which a slot is freed while  *)
(* a woken waiter has not run.  The second reply is chunked.               *)
FourReplies == <<1, 2, 1, 1>>

CallsOf(parts) == UNION {{<<p, k>> : k \in 1 .. parts[p]} : p \in DOMAIN parts}
FourCalls == CallsOf(FourReplies)

(* One call whose timer may fire.                                          *)
TimedCalls == {<<3, 1>>}

=============================================================================
