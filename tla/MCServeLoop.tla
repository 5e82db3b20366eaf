---------------------------- MODULE MCServeLoop ----------------------------
(***************************************************************************)
(* Small instance of ServeLoop.                                            *)
(***************************************************************************)
EXTENDS ServeLoop

CONSTANTS r1

None == {}
OneRid == {r1}

(* A small reply and a chunked one compete for one slot.                   *)
Replies == <<1, 2>>
PostCalls == {<<1, 1>>, <<2, 1>>, <<2, 2>>}
AllCalls == PostCalls \cup {Token}

=============================================================================
