---------------------------- MODULE MCChatQueue ----------------------------
(* Instances of ChatQueue for TLC; the constants are in the .cfg files.    *)
EXTENDS ChatQueue
=============================================================================
