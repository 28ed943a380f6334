---------------------------- MODULE OrderedRelay ----------------------------
(***************************************************************************)
(* What a relay of chat lines promises, whatever it does to lay them out:  *)
(* every line it has taken leaves it once, in the order in which the lines *)
(* were taken, and none stays for ever unless the relay is held.  Where a  *)
(* line goes, and whether it is shown there, is not said here.  A line is  *)
(* its number.                                                             *)
(***************************************************************************)
EXTENDS Naturals, Sequences

CONSTANT MaxLines  \* bound on the lines taken

VARIABLES taken,    \* how many lines the relay has taken
          released, \* the lines that have left it, in order
          held      \* the relay may keep what it has

vars == <<taken, released, held>>

Lines(n) == [k \in 1..n |-> k]

Init == taken = 0 /\ released = <<>> /\ held \in BOOLEAN

(* A line is taken; it may push out those before it, or pass through.      *)
Take == /\ taken < MaxLines
        /\ taken' = taken + 1
        /\ \E n \in Len(released)..taken' : released' = Lines(n)
        /\ held' \in BOOLEAN

Release == /\ \E n \in (Len(released) + 1)..taken : released' = Lines(n)
           /\ held' \in BOOLEAN
           /\ UNCHANGED taken

Turn == held' # held /\ UNCHANGED <<taken, released>>

Next == Take \/ Release \/ Turn

Spec == Init /\ [][Next]_vars

(* Lines that are in the relay while it is not held leave it.              *)
Fairness == WF_vars(Release /\ ~held)

FairSpec == Spec /\ Fairness
=============================================================================
