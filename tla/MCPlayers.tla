----------------------------- MODULE MCPlayers -----------------------------
(* Instances of Players for TLC; the constants are in the .cfg files.      *)
EXTENDS Players, TLC

(* Without operators and commands all names are alike.                     *)
Alike == Permutations(Names)
=============================================================================
