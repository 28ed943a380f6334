---------------------------- MODULE MCTransport ----------------------------
(* The numbers of the code, and lengths at its limits.                     *)
EXTENDS Transport, TLC
=============================================================================
