------------------------------- MODULE MCWire -------------------------------
(***************************************************************************)
(* Small instance of Wire: two call ids in each direction.                 *)
(***************************************************************************)
EXTENDS Wire

CONSTANTS i1, i2

TwoIds == {i1, i2}

(* Methods that are answered (_ping_ is answered as _get_channel_id_ is)   *)
(* and one that is not.                                                    *)
SomeMethods == {"_get_channel_id_", "receive_envelope", "unknown"}

=============================================================================
