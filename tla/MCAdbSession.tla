---------------------------- MODULE MCAdbSession ----------------------------
(***************************************************************************)
(* Small instances of AdbSession.                                          *)
(***************************************************************************)
EXTENDS AdbSession

CONSTANTS c1, c2, s1

TwoCommands == {c1, c2}
OneShot     == {s1}

=============================================================================
