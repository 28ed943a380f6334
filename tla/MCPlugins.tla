----------------------------- MODULE MCPlugins -----------------------------
(* An instance of Plugins for TLC.                                         *)
EXTENDS Plugins

CONSTANTS A1, A2, Other

MCOthers  == {Other}
OneArena  == {A1}
TwoArenas == {A1, A2}
MCInitialLibraries == {<<Missing>>, <<Discord>>, <<Other, Discord>>, <<Other, Discord, Discord>>}
=============================================================================
