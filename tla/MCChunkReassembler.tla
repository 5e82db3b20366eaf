------------------------- MODULE MCChunkReassembler -------------------------
(***************************************************************************)
(* A small instance of ChunkReassembler: a body of a full and a short      *)
(* chunk, one of two full chunks, and the empty body (one empty chunk).    *)
(***************************************************************************)
EXTENDS ChunkReassembler

CONSTANTS odd, even, empty

ThreeTransfers == {odd, even, empty}

Bodies == (odd :> <<1, 2, 3>>) @@ (even :> <<1, 2, 3, 4>>) @@ (empty :> <<>>)

(* The chunks of one transfer may arrive twice.                            *)
Copies == (odd :> 2) @@ (even :> 1) @@ (empty :> 1)

(* Envelopes the relay damaged: other bytes of the same length, an index   *)
(* past the end, and a count that makes a transfer of one chunk wait for a *)
(* second.                                                                 *)
Chunk(t, i) == CHOOSE e \in Encoded(t) : e.index = i

Damages ==
    {[Chunk(odd, 0) EXCEPT !.data = <<9, 9>>],
     [Chunk(even, 1) EXCEPT !.index = 2],
     [Chunk(empty, 0) EXCEPT !.meta.count = 2]}

=============================================================================
