----------------------- MODULE MCLoginAuthorization -----------------------
(***************************************************************************)
(* Small instances of LoginAuthorization.                                  *)
(***************************************************************************)
EXTENDS LoginAuthorization, TLC

CONSTANTS a, q1, q2

OneCaller == {a}
TwoRequests == {q1, q2}
RequestSymmetry == Permutations(TwoRequests)

=============================================================================
