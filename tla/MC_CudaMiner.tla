---------------------------- MODULE MC_CudaMiner ----------------------------
(***************************************************************************)
(* CudaMiner on a field of 17 elements, with several launches.            *)
(***************************************************************************)
EXTENDS CudaMiner

MC_C == <<0, 5>>

Chunk(cx, cy, side, rarity) ==
  [x |-> cx, y |-> cy, side |-> side, rarity |-> rarity, key |-> 3]

(* One row of blocks: two chunks that share a buffer, one that replaces    *)
(* it, an empty one, which the device rejects, and a rarity of zero.       *)
MC_Calls ==
  { Chunk(-1, -1, 3, 2), Chunk(4, -7, 3, 3), Chunk(0, 0, 2, 1),
    Chunk(0, 0, 0, 2), Chunk(0, 0, 1, 0) }

(***************************************************************************)
(* Two rows of blocks that happen to cover the chunks, one chunk whose     *)
(* batch size of 16 wraps around a word of 15 values in between, and the   *)
(* two that fail.                                                          *)
(***************************************************************************)
MC_EdgeCalls ==
  { Chunk(-1, -1, 3, 2), Chunk(4, -7, 3, 3), Chunk(3, 0, 4, 2),
    Chunk(0, 0, 0, 2), Chunk(0, 0, 1, 0) }

(* Two rows of blocks that do not. *)
MC_GapCalls == { Chunk(-1, -1, 2, 1) }
=============================================================================
