------------------------------- MODULE MC_Api -------------------------------
(***************************************************************************)
(* Api with int64_t as -8 .. 7 and uint32_t as 0 .. 3.                     *)
(***************************************************************************)
EXTENDS Api

MC_C == <<0, 5>>

Number(n) == [json |-> "number", value |-> n]
Text(n)   == [json |-> "string", value |-> n]
Other     == [json |-> "other", value |-> 0]

Rpc(x, y, size, rarity, key) ==
  [via |-> "rpc", body |-> <<Number(x), Number(y), Number(size), Number(rarity),
                             Number(key)>>]

Rest(x, y, size, rarity, key) ==
  [via |-> "rest",
   body |-> [x |-> Number(x), y |-> Text(y), size |-> Text(size),
             rarity |-> Number(rarity), key |-> Number(key)]]

(***************************************************************************)
(* Chunks across the origin, beyond the word, at the end of int64_t and    *)
(* past it, of no location, with no planets, with arguments of more than a *)
(* word, with rarities that are cut to zero; and bodies that are not       *)
(* requests.                                                               *)
(***************************************************************************)
MC_Requests ==
  { Rpc(-1, 0, 2, 2, 3), Rpc(5, 4, 2, 1, 1), Rpc(6, 6, 2, 1, 0),
    Rpc(0, 0, 0, 1, 0), Rpc(0, 0, 6, 5, -1), Rpc(1, 1, 1, 4, 0),
    Rpc(-8, 3, -3, 1, 2),
    Rest(-1, 0, 2, 2, 3), Rest(4, -5, 2, 3, 1), Rest(2, 7, 1, 1, 0),
    Rest(0, 0, 1, 0, 0), Rest(3, 0, 1, 3, 2),
    [via |-> "rpc", body |-> Empty], [via |-> "rest", body |-> Empty],
    [via |-> "rpc", body |-> Invalid], [via |-> "rest", body |-> Invalid],
    [via |-> "rpc", body |-> <<Number(1), Number(1), Number(1), Number(1)>>],
    [via |-> "rpc", body |-> <<Number(1), Number(1), Text(1), Number(1), Number(0)>>],
    [via |-> "rest", body |-> [x |-> Number(1), y |-> Number(1), size |-> Other,
                               rarity |-> Number(1), key |-> Number(0)]],
    [via |-> "rest", body |-> [x |-> Number(1), y |-> Number(1)]] }
=============================================================================
