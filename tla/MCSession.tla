----------------------------- MODULE MCSession -----------------------------
(* Instances of Session for TLC; its constants are given in the .cfg files. *)
EXTENDS Session
=============================================================================
