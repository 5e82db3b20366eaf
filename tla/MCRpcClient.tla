---------------------------- MODULE MCRpcClient ----------------------------
(***************************************************************************)
(* Small instances of RpcClient.                                           *)
(***************************************************************************)
EXTENDS RpcClient, TLC

CONSTANTS c1, w1, w2, r1, r2

None == {}

OneCall == {c1}
OneWait == {w1}
TwoWaits == {w1, w2}
OneRid == {r1}
TwoRids == {r1, r2}

(* The request ids are interchangeable.                                    *)
RidSymmetry == Permutations(TwoRids)

=============================================================================
