--------------------------- MODULE MC_HttpServer ---------------------------
(***************************************************************************)
(* The web server with two clients, which are interchangeable.             *)
(***************************************************************************)
EXTENDS HttpServer, TLC

MC_Symmetry == Permutations(Conns)
=============================================================================
