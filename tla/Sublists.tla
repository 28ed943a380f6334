------------------------------ MODULE Sublists ------------------------------
(* The elements of a list at some of its positions, in their order: what   *)
(* is left of a list when the elements at the others are removed.          *)
EXTENDS Naturals, Sequences

(* Sublist(s, K) up to each position of s.                                 *)
SublistUpTo(s, K) ==
    LET upTo[n \in 0 .. Len(s)] ==
            IF n = 0 THEN <<>>
            ELSE IF n \in K THEN Append(upTo[n - 1], s[n]) ELSE upTo[n - 1]
    IN  upTo

Sublist(s, K) == SublistUpTo(s, K)[Len(s)]
=============================================================================
