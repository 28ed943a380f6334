----------------------------- MODULE MCReliable -----------------------------
(* Instances of Reliable for TLC; the constants are in the .cfg file.      *)
EXTENDS Reliable
=============================================================================
