---------------------------- MODULE MC_CpuMiner ----------------------------
(***************************************************************************)
(* CpuMiner on a field of 13 elements, with words of 8 values and one      *)
(* round.                                                                  *)
(***************************************************************************)
EXTENDS CpuMiner

MC_C == <<5>>

Chunk(cx, cy, side, rarity) ==
  [x |-> cx, y |-> cy, side |-> side, rarity |-> rarity, key |-> 3]

(* A chunk across the origin, one column, nothing at all, rarity zero, and *)
(* a chunk whose coordinates wrap around the word.                         *)
MC_Calls ==
  { Chunk(-1, -1, 3, 3), Chunk(4, -3, 1, 1), Chunk(0, 0, 0, 2),
    Chunk(0, 0, 1, 0), Chunk(7, -9, 2, 1) }
=============================================================================
