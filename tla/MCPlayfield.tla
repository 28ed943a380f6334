---------------------------- MODULE MCPlayfield ----------------------------
(* One row of three small maps; two have their files in lvl/.  Powerballs  *)
(* are played where there is no room for bricks.                           *)
EXTENDS Playfield, TLC

Row(F, G, W) ==
    [t \in F \cup G \cup W |-> IF t \in F THEN "flag" ELSE IF t \in G THEN "goal" ELSE "wall"]

Turf   == Row({3}, {}, {2})
Goals  == Row({0}, {1}, {})
Soccer == Row({}, {0, 3}, {1, 2})

MCMaps   == {Turf, Goals, Soccer}
MCCached == {Turf, Soccer}
MCSoccer == {Soccer}
=============================================================================
