------------------------ MODULE MCPlaywrightSession ------------------------
(***************************************************************************)
(* Small instances of PlaywrightSession.                                   *)
(***************************************************************************)
EXTENDS PlaywrightSession, TLC

CONSTANTS c1, c2, c3

OneCommand == {c1}
ThreeCommands == {c1, c2, c3}
CommandSymmetry == Permutations(ThreeCommands)

=============================================================================
