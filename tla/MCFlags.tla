------------------------------ MODULE MCFlags ------------------------------
(* Two or three players, two flags.                                        *)
EXTENDS Flags, TLC
=============================================================================
