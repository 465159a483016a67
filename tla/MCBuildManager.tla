--------------------------- MODULE MCBuildManager ---------------------------
(* What TLC needs beside BuildManager: build ids and projects are            *)
(* interchangeable, so the safety runs need one order of each.               *)
EXTENDS BuildManager, TLC

Symmetry == Permutations(Builds) \cup Permutations(Projects)
=============================================================================
