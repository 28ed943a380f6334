----------------------------- MODULE Playfield -----------------------------
(***************************************************************************)
(* The playfield of the arena: the map, the turf flags that stand on it    *)
(* the bricks that are dropped on it and the powerballs that roll over it  *)
(* (Interface/Playfield.ixx, Core/Host.cpp 573-908, Client/ClientProt.ixx).*)
(*                                                                         *)
(* The map is written into Host::playfieldTiles byte by byte, one byte a   *)
(* tile; flags, goals and bricks go through the array of enumerators it is *)
(* declared as, whose elements have TileSize bytes.  One row of the map is *)
(* modelled: a tile is its linear coordinate (getLinear).  A tile of flag, *)
(* goal or wall stands for its code, any other code counts as wall.        *)
(*                                                                         *)
(* The server is external, and clocks agree (Session: synchronisation).    *)
(* The bot's own entry comes before the bricks, as the server sends it.    *)
(* No name here is one of Flags, so that a module can extend both: the     *)
(* list Host::flags is turfFlags here.                                     *)
(***************************************************************************)
EXTENDS Naturals, Sequences, FiniteSets, SequencesExt, Sublists

CONSTANTS
    TileMax,   \* TileMaxLinear
    TileSize,  \* sizeof(PlayfieldTileFormat)
    Maps,      \* the maps of arenas: each a function from the tiles that are
               \* not empty to "flag", "goal" or "wall"
    Cached,    \* those of Maps whose files the bot has at first
    Garbage,   \* elements that no map is written to and that may hold anything
    FieldTeams, UnassignedTeam,
    BrickIds, BrickTime,
    BallIds, SoccerMaps, \* the powerballs, and the maps they are played on
    BallDelay,           \* S2CNoDataKickoutDelay
    MaxTime    \* bound on the clock

ASSUME FieldAssumption ==
    /\ TileMax \in Nat \ {0} /\ TileSize \in Nat \ {0} /\ Cached \subseteq Maps
    /\ \A m \in Maps : /\ DOMAIN m \subseteq 0 .. TileMax - 1
                      /\ \A t \in DOMAIN m : m[t] \in {"flag", "goal", "wall"}
    /\ Garbage \subseteq (TileMax \div TileSize) .. TileMax - 1
    /\ SoccerMaps \subseteq Maps /\ BallDelay \in Nat
    /\ UnassignedTeam \notin FieldTeams /\ BrickTime \in Nat \ {0} /\ MaxTime \in Nat

VARIABLES
    map,         \* server: the map of the arena
    owner,       \* server: the team of each turf flag
    dropped,     \* server: the bricks it has announced
    now,
    files,       \* the maps in lvl/
    asked,       \* the map was asked for and has not come
    tiles,       \* Host::playfieldTiles, as bytes
    gotMap, gotTurf, loadedFlags,
    turfFlags, goals, bricks,
    balls

host == <<files, asked, tiles, gotMap, gotTurf, loadedFlags, turfFlags, goals, bricks,
          balls>>
fieldVars == <<map, owner, dropped, now, host>>

Tiles == 0 .. TileMax - 1
Bytes == 0 .. TileMax * TileSize - 1
Codes == {"empty", "flag", "goal", "wall"}

TileOf(m, t)   == IF t \in DOMAIN m THEN m[t] ELSE "empty"
InOrder(S)     == Sublist([k \in 1 .. TileMax |-> k - 1], {t + 1 : t \in S})
FlagTiles(m)   == InOrder({t \in DOMAIN m : m[t] = "flag"})
TurfFlagIds(m) == 0 .. Len(FlagTiles(m)) - 1

Updated(f, k, v) == [j \in DOMAIN f \cup {k} |-> IF j = k THEN v ELSE f[j]]
-----------------------------------------------------------------------------
(* The array.                                                              *)

(* An element is equal to an enumerator when its first byte is and its     *)
(* other bytes are zero.                                                   *)
Element(ts, t) ==
    IF \A k \in 1 .. TileSize - 1 : ts[TileSize * t + k] = "empty"
    THEN ts[TileSize * t] ELSE "none of them"

Found(ts, code) == InOrder({t \in Tiles : Element(ts, t) = code})

(* convertFileToMatrix(): the first TileMaxLinear bytes.                   *)
ConvertFileToMatrix(m) ==
    [b \in Bytes |-> IF b < TileMax THEN TileOf(m, b) ELSE tiles[b]]

(* findFlag(): a new flag is nobody's, at a place outside the row.         *)
NewFlag == [spot |-> TileMax, team |-> UnassignedTeam]
FindTurfFlag(fs, f) == IF f \in DOMAIN fs THEN fs ELSE Updated(fs, f, NewFlag)

(* loadTurfFlags(): the flags are numbered in the order of the map.        *)
LoadTurfFlags(fs, ts) ==
    LET found == Found(ts, "flag")
    IN  [f \in DOMAIN fs \cup 0 .. Len(found) - 1 |->
            IF f < Len(found) THEN [FindTurfFlag(fs, f)[f] EXCEPT !.spot = found[f + 1]]
                              ELSE fs[f]]

(* changeCoordinates(): one more goal for each goal tile.                  *)
ChangeCoordinates(gs, ts) == gs \o Found(ts, "goal")
-----------------------------------------------------------------------------
(* Messages about flags.                                                   *)

WithTeams(fs) ==
    [f \in DOMAIN fs \cup DOMAIN owner |->
        IF f \in DOMAIN owner THEN [FindTurfFlag(fs, f)[f] EXCEPT !.team = owner[f]] ELSE fs[f]]

(* Mutant of HandleTurfFlagStatus: only the flags that are listed.         *)
HandleTurfFlagStatus_Listed ==
    /\ turfFlags' = [f \in DOMAIN turfFlags |-> [turfFlags[f] EXCEPT !.team = owner[f]]]
    /\ gotTurf' = TRUE
    /\ UNCHANGED <<map, owner, dropped, now, files, asked, tiles, gotMap, loadedFlags,
                   goals, bricks, balls>>

HandleTurfFlagStatus ==
    /\ LET load == gotMap /\ ~loadedFlags
       IN  /\ turfFlags' = IF load THEN LoadTurfFlags(WithTeams(turfFlags), tiles) ELSE WithTeams(turfFlags)
           /\ loadedFlags' = (loadedFlags \/ load)
    /\ gotTurf' = TRUE
    /\ UNCHANGED <<map, owner, dropped, now, files, asked, tiles, gotMap, goals, bricks, balls>>

(* claimFlag(), where flags are not carried.                               *)
ClaimTurfFlag(f, team) ==
    /\ owner' = [owner EXCEPT ![f] = team]
    /\ turfFlags' = [FindTurfFlag(turfFlags, f) EXCEPT ![f].team = team]
    /\ UNCHANGED <<map, dropped, now, files, asked, tiles, gotMap, gotTurf, loadedFlags,
                   goals, bricks, balls>>
-----------------------------------------------------------------------------
(* Messages about the map.                                                 *)

LoadMap ==
    /\ tiles' = ConvertFileToMatrix(map)
    /\ goals' = ChangeCoordinates(goals, tiles')
    /\ gotMap' = TRUE
    /\ UNCHANGED <<map, owner, dropped, now, gotTurf, bricks, balls>>

(* handleMapInfo(): the file is read, or asked for.                        *)
HandleMapInfo ==
    /\ ~gotMap /\ ~asked
    /\ IF map \in files
       THEN /\ LoadMap
            /\ LET load == gotTurf /\ ~loadedFlags
               IN  /\ turfFlags' = IF load THEN LoadTurfFlags(turfFlags, tiles') ELSE turfFlags
                   /\ loadedFlags' = (loadedFlags \/ load)
            /\ UNCHANGED <<files, asked>>
       ELSE /\ asked' = TRUE
            /\ UNCHANGED <<map, owner, dropped, now, files, tiles, gotMap, gotTurf,
                           loadedFlags, turfFlags, goals, bricks, balls>>

(* handleMapFile().                                                        *)
HandleMapFile ==
    /\ asked
    /\ asked' = FALSE
    /\ files' = files \cup {map}
    /\ LoadMap
    /\ UNCHANGED <<turfFlags, loadedFlags>>
-----------------------------------------------------------------------------
(* Bricks.  A brick lies from one tile to another of the row.              *)

Brick == [ident : BrickIds, from : Tiles, to : Tiles, time : 0 .. MaxTime]

(* Mutant of Trace: one tile too many.                                     *)
Trace_TooFar(b) ==
    IF b.from < b.to THEN [k \in 1 .. b.to - b.from + 1 |-> b.from + k]
                     ELSE [k \in 1 .. b.from - b.to |-> b.from - k]

(* The tiles it is traced over: never the one it starts from.              *)
Trace(b) ==
    IF b.from < b.to THEN [k \in 1 .. b.to - b.from |-> b.from + k]
                     ELSE [k \in 1 .. b.from - b.to |-> b.from - k]

BrickExists(ident) == \E k \in DOMAIN bricks : bricks[k].ident = ident

AddBricks(b) ==
    bricks' = bricks \o [k \in DOMAIN Trace(b) |->
        [spot |-> Trace(b)[k], ident |-> b.ident, time |-> b.time + BrickTime]]

(* Mutant: "sent more than once" is forgotten.                             *)
HandleBrickDrop_Again(b) ==
    /\ AddBricks(b)
    /\ UNCHANGED <<map, owner, dropped, now, files, asked, tiles, gotMap, gotTurf,
                   loadedFlags, turfFlags, goals, balls>>

HandleBrickDrop(b) ==
    /\ IF BrickExists(b.ident) THEN UNCHANGED bricks ELSE AddBricks(b)
    /\ UNCHANGED <<map, owner, dropped, now, files, asked, tiles, gotMap, gotTurf,
                   loadedFlags, turfFlags, goals, balls>>

Over(b) == now >= b.time

(* Mutant of DoBrickEvents: all bricks go at once.                         *)
DoBrickEvents_Early == bricks' = <<>> /\ tiles' = tiles

(* doBrickEvents(): the element of a brick whose time is over is emptied.  *)
DoBrickEvents ==
    /\ bricks' = Sublist(bricks, {k \in DOMAIN bricks : ~Over(bricks[k])})
    /\ tiles' = [b \in Bytes |->
                    IF \E k \in DOMAIN bricks :
                          Over(bricks[k]) /\ bricks[k].spot = b \div TileSize
                    THEN "empty" ELSE tiles[b]]
-----------------------------------------------------------------------------
(* Powerballs.  A message says where a ball is, and whether it is carried  *)
(* (its time stamp is 0); place, speed and carrier are left out.           *)

HandleBallPosition(ident, carried) ==
    LET ball  == [ident |-> ident, carried |-> carried, lastrecv |-> now]
        known == \E k \in DOMAIN balls : balls[k].ident = ident
    IN  /\ balls' = IF known
                    THEN [k \in DOMAIN balls |-> IF balls[k].ident = ident THEN ball ELSE balls[k]]
                    ELSE Append(balls, ball)
        /\ UNCHANGED <<map, owner, dropped, now, files, asked, tiles, gotMap, gotTurf,
                       loadedFlags, turfFlags, goals, bricks>>

(* Mutant of Silent: only balls that are carried may go.                   *)
Silent_Carried(ball) == ball.carried /\ now - ball.lastrecv > BallDelay

Silent(ball) == ~ball.carried /\ now - ball.lastrecv > BallDelay

(* The balls that one pass over q erases.  doBallEvents() steps on from    *)
(* the iterator that erase() returns, and so passes over the ball behind   *)
(* the one that is erased.                                                 *)
Erased(q) == LET erased[k \in 0 .. Len(q)] == k > 0 /\ Silent(q[k]) /\ ~erased[k - 1]
             IN  {k \in 1 .. Len(q) : erased[k]}

(* Behind the last ball it steps past the end of the list, which is        *)
(* circular: there is another pass.  (A build with checked iterators stops *)
(* there.)                                                                 *)
Pass(s) ==
    IF s.again
    THEN [left  |-> Sublist(s.left, 1 .. Len(s.left) \ Erased(s.left)),
          again |-> Len(s.left) \in Erased(s.left)]
    ELSE s

DoBallEvents ==
    LET passes[n \in 0 .. Len(balls) + 1] ==
            IF n = 0 THEN [left |-> balls, again |-> TRUE] ELSE Pass(passes[n - 1])
    IN  balls' = passes[Len(balls) + 1].left

(* The end of doEvents().                                                  *)
DoItemEvents ==
    /\ DoBrickEvents /\ DoBallEvents
    /\ UNCHANGED <<map, owner, dropped, now, files, asked, gotMap, gotTurf, loadedFlags,
                   turfFlags, goals>>
-----------------------------------------------------------------------------
(* changeArena(): resetArena() forgets everything but the tiles.           *)
ChangeArena(m) ==
    /\ map' = m /\ dropped' = {}
    /\ owner' \in [TurfFlagIds(m) -> FieldTeams]
    /\ gotMap' = FALSE /\ gotTurf' = FALSE /\ loadedFlags' = FALSE /\ asked' = FALSE
    /\ turfFlags' = <<>> /\ goals' = <<>> /\ bricks' = <<>> /\ balls' = <<>>
    /\ UNCHANGED <<now, files, tiles>>

(* The server lets a brick be dropped over tiles that are empty.           *)
DropBrick(b) ==
    /\ b.time = now /\ now + BrickTime <= MaxTime
    /\ \A old \in dropped : old.ident # b.ident
    /\ \A t \in Tiles : (b.from <= t /\ t <= b.to) \/ (b.to <= t /\ t <= b.from)
                           => TileOf(map, t) = "empty"
    /\ dropped' = dropped \cup {b}
    /\ UNCHANGED <<map, owner, now, host>>

(* The server tells where a ball is.                                       *)
MoveBall(i, carried) == /\ map \in SoccerMaps /\ now + BallDelay < MaxTime
                        /\ HandleBallPosition(i, carried)

Tick ==
    /\ now < MaxTime
    /\ now' = now + 1
    /\ UNCHANGED <<map, owner, dropped, host>>

FieldInit ==
    /\ map \in Maps /\ owner \in [TurfFlagIds(map) -> FieldTeams]
    /\ dropped = {} /\ now = 0
    /\ files = Cached /\ asked = FALSE
    /\ \E G \in SUBSET Garbage :
          tiles = [b \in Bytes |-> IF \E g \in G : b = TileSize * g THEN "flag" ELSE "empty"]
    /\ gotMap = FALSE /\ gotTurf = FALSE /\ loadedFlags = FALSE
    /\ turfFlags = <<>> /\ goals = <<>> /\ bricks = <<>> /\ balls = <<>>

FieldNext ==
    \/ HandleTurfFlagStatus \/ HandleMapInfo \/ HandleMapFile
    \/ \E f \in DOMAIN owner, team \in FieldTeams : ClaimTurfFlag(f, team)
    \/ \E b \in dropped : HandleBrickDrop(b)
    \/ \E b \in Brick : DropBrick(b)
    \/ \E m \in Maps : ChangeArena(m)
    \/ \E i \in BallIds, carried \in BOOLEAN : MoveBall(i, carried)
    \/ DoItemEvents \/ Tick

FieldSpec == FieldInit /\ [][FieldNext]_fieldVars
FairSpec  == FieldSpec /\ WF_fieldVars(DoItemEvents) /\ WF_fieldVars(Tick)
-----------------------------------------------------------------------------
FieldTypeOK ==
    /\ map \in Maps /\ owner \in [TurfFlagIds(map) -> FieldTeams] /\ now \in 0 .. MaxTime
    /\ \A b \in dropped : b \in Brick
    /\ Cached \subseteq files /\ files \subseteq Maps
    /\ tiles \in [Bytes -> Codes]
    /\ {asked, gotMap, gotTurf, loadedFlags} \subseteq BOOLEAN
    /\ DOMAIN turfFlags \subseteq Nat
    /\ \A f \in DOMAIN turfFlags :
          turfFlags[f].spot \in 0 .. TileMax /\ turfFlags[f].team \in FieldTeams \cup {UnassignedTeam}
    /\ \A k \in DOMAIN goals : goals[k] \in Tiles
    /\ \A k \in DOMAIN bricks : bricks[k].spot \in Tiles /\ bricks[k].ident \in BrickIds
    /\ \A k \in DOMAIN balls :
          /\ balls[k].ident \in BallIds /\ balls[k].carried \in BOOLEAN
          /\ balls[k].lastrecv \in 0 .. now
          /\ \A j \in DOMAIN balls : balls[j].ident = balls[k].ident => j = k

(* Once the teams of the turf flags have been received, every flag of the  *)
(* arena is listed with the server's team, whether claims come before or   *)
(* after, and whether the map is read before, after or never               *)
(* (handleTurfFlagStatus, claimFlag, findFlag, loadTurfFlags, resetArena). *)
TurfTeams ==
    gotTurf => \A f \in DOMAIN owner : f \in DOMAIN turfFlags /\ turfFlags[f].team = owner[f]

(* "Brick ident (sent more than once)": however often a brick is           *)
(* announced, each of its tiles is listed once, and they are listed and    *)
(* forgotten together (handleBrickDrop, doBrickEvents).                    *)
BrickOnce ==
    \A i \in BrickIds : BrickExists(i) =>
        \E b \in dropped :
            /\ b.ident = i
            /\ {Trace(b)[k] : k \in DOMAIN Trace(b)}
                  = {bricks[k].spot : k \in {j \in DOMAIN bricks : bricks[j].ident = i}}
            /\ Len(Trace(b)) = Cardinality({j \in DOMAIN bricks : bricks[j].ident = i})

(* A brick is not forgotten before its time, as long as the bot stays.     *)
BricksStand ==
    [][\A k \in DOMAIN bricks :
          ~Over(bricks[k]) /\ dropped \subseteq dropped'
              => bricks[k] \in ToSet(bricks')]_fieldVars

(* No brick stays for ever, though its announcement may be handled again   *)
(* when it has fallen; and a ball that is not carried goes when nothing    *)
(* more is heard of it, though the loop that erases it may pass over it    *)
(* (handleBrickDrop, doBrickEvents, handleBallPosition, doBallEvents).     *)
Rolling(i) == \E k \in DOMAIN balls : balls[k].ident = i /\ ~balls[k].carried

ItemsGo ==
    /\ \A i \in BrickIds : BrickExists(i) ~> ~BrickExists(i)
    /\ \A i \in BallIds : Rolling(i) ~> ~Rolling(i)

(* "Warning: Deviating from this format may invalidate the security        *)
(* checksum": the bytes of which handleSynchronization takes the checksum  *)
(* are those of the arena's map.                                           *)
MapKept == gotMap => \A t \in Tiles : tiles[t] = TileOf(map, t)
=============================================================================
