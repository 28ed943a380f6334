------------------------------- MODULE Flags -------------------------------
(***************************************************************************)
(* The warzone flag game as a Host follows it (Core/Host.cpp 659-702,      *)
(* Client/ClientProt.ixx): flags that lie in the arena and flags that      *)
(* players carry.  The Host lists the flags that nobody carries, with spot *)
(* and team; of the others it only counts how many each player has.        *)
(*                                                                         *)
(* The server is external: it knows who carries which flag and announces   *)
(* what happens in reliable messages, which the bot handles in order.      *)
(* Scores, bounties and ships are left out: no flag depends on them.       *)
(* Arenas whose flags are not carried are the business of Playfield.       *)
(***************************************************************************)
EXTENDS Naturals, Sequences, FiniteSets, SequencesExt, FiniteSetsExt

CONSTANTS
    Ids,      \* the idents of players
    Teams,
    FlagIds,  \* the idents of flags
    Spots,    \* where a flag may lie
    NoTeam,   \* UnassignedId as a team: nobody's
    MaxInbox  \* bound on the messages under way when something happens

ASSUME ConstantsAssumption ==
    /\ IsFiniteSet(Ids) /\ IsFiniteSet(FlagIds)
    /\ Ids \subseteq Nat /\ FlagIds \subseteq Nat
    /\ NoTeam \notin Teams /\ MaxInbox \in Nat

VARIABLES
    arena,    \* server: the team of each player
    ground,   \* server: the flags that lie in the arena
    carrier,  \* server: who carries each of the others
    inbox,    \* messages the bot has not yet handled
    players,  \* Host::players: team and flagCount
    flags     \* Host::flags, by ident

vars == <<arena, ground, carrier, inbox, players, flags>>

Flag   == [spot : Spots \cup {"1,1"}, team : Teams \cup {NoTeam}]
Player == [team : Teams, flagCount : 0..Cardinality(FlagIds)]

Without(f, S) == [k \in DOMAIN f \ S |-> f[k]]
Put(f, k, v)  == [j \in DOMAIN f \cup {k} |-> IF j = k THEN v ELSE f[j]]
-----------------------------------------------------------------------------
(* The handlers.  An unknown player is unassigned, and nothing happens.    *)

Keep(p, f) == players' = p /\ flags' = f

HandlePlayerEntering(m) ==
    Keep(Put(players, m.id, [team |-> m.team, flagCount |-> m.count]), flags)

HandlePlayerLeaving(m) == Keep(Without(players, {m.id}), flags)

SetCount(m, n) ==
    Keep(IF m.id \in DOMAIN players THEN [players EXCEPT ![m.id].flagCount = n]
                                    ELSE players, flags)

(* handleSetTeam() and handleSetTeamAndShip().                             *)
HandleSetTeam(m) ==
    Keep(IF m.id \in DOMAIN players
         THEN [players EXCEPT ![m.id] = [team |-> m.team, flagCount |-> 0]]
         ELSE players, flags)

HandleSpecPlayer(m) == SetCount(m, 0)

DropFlags(m) == SetCount(m, 0)

(* Mutant: the count of the victim is left as it is.                       *)
HandlePlayerDeath_Keeps(m) ==
    Keep([players EXCEPT ![m.id].flagCount = @ + m.count], flags)

HandlePlayerDeath(m) ==
    LET paid == IF m.id \in DOMAIN players
                THEN [players EXCEPT ![m.id].flagCount = @ + m.count] ELSE players
    IN  Keep(IF m.killee \in DOMAIN paid
             THEN [paid EXCEPT ![m.killee].flagCount = 0] ELSE paid, flags)

(* Mutant: a claimed flag stays in the list.                               *)
ClaimFlag_Stays(m) ==
    Keep([players EXCEPT ![m.id].flagCount = @ + 1], flags)

(* findFlag(): an unlisted flag is listed, at tile 1,1.                    *)
FindFlag(f) ==
    IF f \in DOMAIN flags THEN flags ELSE Put(flags, f, [spot |-> "1,1", team |-> NoTeam])

(* claimFlag(): a flag in somebody's hands is not listed.                  *)
ClaimFlag(m) ==
    IF m.id \in DOMAIN players
    THEN Keep([players EXCEPT ![m.id].flagCount = @ + 1], Without(FindFlag(m.flag), {m.flag}))
    ELSE Keep(players, FindFlag(m.flag))

HandleFlagPosition(m) ==
    Keep(players, Put(flags, m.flag, [spot |-> m.spot, team |-> m.team]))

(* Mutant: the counts are not reset.                                       *)
HandleFlagVictory_Counts(m) == Keep(players, <<>>)

HandleFlagVictory(m) ==
    Keep([id \in DOMAIN players |-> [players[id] EXCEPT !.flagCount = 0]], <<>>)

Handle(m) ==
    CASE m.type = "enter"   -> HandlePlayerEntering(m)
      [] m.type = "leave"   -> HandlePlayerLeaving(m)
      [] m.type = "team"    -> HandleSetTeam(m)
      [] m.type = "spec"    -> HandleSpecPlayer(m)
      [] m.type = "death"   -> HandlePlayerDeath(m)
      [] m.type = "drop"    -> DropFlags(m)
      [] m.type = "claim"   -> ClaimFlag(m)
      [] m.type = "flag"    -> HandleFlagPosition(m)
      [] m.type = "victory" -> HandleFlagVictory(m)

HandleNext ==
    /\ inbox # <<>>
    /\ Handle(Head(inbox))
    /\ inbox' = Tail(inbox)
    /\ UNCHANGED <<arena, ground, carrier>>
-----------------------------------------------------------------------------
(* The server.                                                             *)

CarriedBy(id) == {f \in DOMAIN carrier : carrier[f] = id}

FlagMessages(set, g) ==
    SetToSeq({[type |-> "flag", flag |-> f, spot |-> g[f].spot, team |-> g[f].team]
                 : f \in set})

Announce(messages) ==
    /\ Len(inbox) < MaxInbox
    /\ inbox' = inbox \o messages
    /\ UNCHANGED <<players, flags>>

(* What id carries falls to the ground, and m says why.                    *)
Scatter(id, team, m) ==
    \E spot \in Spots :
        /\ ground' = [f \in DOMAIN ground \cup CarriedBy(id) |->
                         IF f \in DOMAIN ground THEN ground[f]
                         ELSE [spot |-> spot, team |-> team]]
        /\ carrier' = Without(carrier, CarriedBy(id))
        /\ Announce(<<m>> \o FlagMessages(CarriedBy(id), ground'))

Enter(id, team) ==
    /\ id \notin DOMAIN arena
    /\ arena' = Put(arena, id, team)
    /\ Announce(<<[type |-> "enter", id |-> id, team |-> team, count |-> 0]>>)
    /\ UNCHANGED <<ground, carrier>>

Leave(id) ==
    /\ arena' = Without(arena, {id})
    /\ Scatter(id, NoTeam, [type |-> "leave", id |-> id])

ChangeTeam(id, team) ==
    /\ arena[id] # team
    /\ arena' = [arena EXCEPT ![id] = team]
    /\ Scatter(id, NoTeam, [type |-> "team", id |-> id, team |-> team])

Spectate(id) == Scatter(id, NoTeam, [type |-> "spec", id |-> id]) /\ UNCHANGED arena
Drop(id)     == Scatter(id, arena[id], [type |-> "drop", id |-> id]) /\ UNCHANGED arena

PickUp(f, id) ==
    /\ f \in DOMAIN ground
    /\ ground' = Without(ground, {f})
    /\ carrier' = Put(carrier, f, id)
    /\ Announce(<<[type |-> "claim", id |-> id, flag |-> f]>>)
    /\ UNCHANGED arena

(* The killer gains the flags, or they are scattered.                      *)
Kill(killer, killee) ==
    /\ killer # killee
    /\ UNCHANGED arena
    /\ \/ /\ carrier' = [f \in DOMAIN carrier |->
                            IF carrier[f] = killee THEN killer ELSE carrier[f]]
          /\ Announce(<<[type |-> "death", id |-> killer, killee |-> killee,
                         count |-> Cardinality(CarriedBy(killee))]>>)
          /\ UNCHANGED ground
       \/ Scatter(killee, NoTeam, [type |-> "death", id |-> killer,
                                   killee |-> killee, count |-> 0])

(* A team wins, or the game is reset; the next game has its flags lie      *)
(* somewhere.                                                              *)
Victory(spot) ==
    /\ carrier' = <<>>
    /\ ground' = [f \in FlagIds |-> [spot |-> spot, team |-> NoTeam]]
    /\ Announce(<<[type |-> "victory"]>> \o FlagMessages(FlagIds, ground'))
    /\ UNCHANGED arena
-----------------------------------------------------------------------------
(* The bot enters: it is told who is there, with how many flags, and where *)
(* the other flags lie.                                                    *)
Init ==
    /\ arena \in UNION {[S -> Teams] : S \in SUBSET Ids}
    /\ \E held \in IF arena = <<>> THEN {{}} ELSE SUBSET FlagIds :
          /\ carrier \in [held -> DOMAIN arena]
          /\ ground \in [FlagIds \ held -> [spot : Spots, team : Teams \cup {NoTeam}]]
    /\ players = <<>> /\ flags = <<>>
    /\ inbox = SetToSeq({[type |-> "enter", id |-> id, team |-> arena[id],
                          count |-> Cardinality(CarriedBy(id))] : id \in DOMAIN arena})
                \o FlagMessages(DOMAIN ground, ground)

Next ==
    \/ HandleNext
    \/ \E id \in Ids, team \in Teams : Enter(id, team)
    \/ \E spot \in Spots : Victory(spot)
    \/ \E id \in DOMAIN arena :
          \/ Leave(id) \/ Spectate(id) \/ Drop(id)
          \/ \E team \in Teams : ChangeTeam(id, team)
          \/ \E f \in FlagIds : PickUp(f, id)
          \/ \E killee \in DOMAIN arena : Kill(id, killee)

Spec == Init /\ [][Next]_vars
-----------------------------------------------------------------------------
TypeOK ==
    /\ DOMAIN arena \subseteq Ids /\ \A id \in DOMAIN arena : arena[id] \in Teams
    /\ DOMAIN ground \cap DOMAIN carrier = {}
    /\ DOMAIN ground \cup DOMAIN carrier = FlagIds
    /\ \A f \in DOMAIN carrier : carrier[f] \in DOMAIN arena
    /\ \A f \in DOMAIN ground : ground[f] \in Flag
    /\ DOMAIN players \subseteq Ids /\ \A id \in DOMAIN players : players[id] \in Player
    /\ DOMAIN flags \subseteq FlagIds /\ \A f \in DOMAIN flags : flags[f] \in Flag

(* "only lists uncarried flags": once every message has been handled, the  *)
(* list holds the flags that lie in the arena, where they lie and with     *)
(* their team, and no other, and each player's flagCount is the number of  *)
(* flags he carries, through claims, kills, drops, changes of team,        *)
(* spectating, victories and idents that are used again (claimFlag,        *)
(* handleFlagPosition, handleFlagVictory, handlePlayerDeath).              *)
FlagsMatch ==
    inbox = <<>> =>
        /\ flags = ground
        /\ DOMAIN players = DOMAIN arena
        /\ \A id \in DOMAIN players :
              players[id].flagCount = Cardinality(CarriedBy(id))

(* However much is still to be handled, no flag is known to be in two      *)
(* places: the flags listed and the flags counted are never more than the  *)
(* arena has.                                                              *)
NoFlagTwice ==
    Cardinality(DOMAIN flags)
        + FoldSet(LAMBDA id, n : n + players[id].flagCount, 0, DOMAIN players)
    <= Cardinality(FlagIds)
=============================================================================
