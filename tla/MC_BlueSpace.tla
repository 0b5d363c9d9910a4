---------------------------- MODULE MC_BlueSpace ----------------------------
(***************************************************************************)
(* BlueSpace with words of 20 bits, large enough for every default, and    *)
(* ports of 14.                                                            *)
(***************************************************************************)
EXTENDS BlueSpace, TLC

Line(flags, values) == [flags |-> flags, values |-> values]

NoValues == [o \in {} |-> 0]

Modes == {"--benchmark", "--stateless", "--cpu", "--cuda"}

(***************************************************************************)
(* Every combination of modes and miners with the defaults, the flags that *)
(* print and return, an unknown flag, and options at the edges: a rarity   *)
(* of zero, no locations, tpi between two sizes and past the last.         *)
(***************************************************************************)
MC_CommandLines ==
  {Line(F, NoValues) : F \in SUBSET Modes} \cup
  { Line({"--help", "--version", "--benchmark"}, NoValues),
    Line({"--version"}, NoValues),
    Line({"--fast"}, NoValues),
    Line({"--benchmark"}, "--rarity" :> 0 @@ "--size" :> 3),
    Line({"--benchmark"}, "--size" :> 0 @@ "--cpu-threads" :> 2),
    Line({"--benchmark", "--cuda"}, "--key" :> 7 @@ "--cuda-threads-per-item" :> 5),
    Line({"--cuda"}, "--cuda-device" :> 1 @@ "--cuda-threads-per-item" :> 64),
    Line({}, "--cuda-block-size" :> 1),
    Line({"--stateless"}, "--http-port" :> 20000) }

MC_PortLines == {Line({}, "--http-port" :> 16384 + 80)}

(* Planets at corners of the chunk stand for all of them. *)
MC_PlanetsAt(c) ==
  IF c.side = 0 THEN {} ELSE {<<c.x, c.y>>, <<c.x + c.side - 1, c.y>>, <<0, 0>>}
=============================================================================
