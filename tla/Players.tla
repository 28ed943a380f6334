------------------------------ MODULE Players ------------------------------
(***************************************************************************)
(* The players of the arena as a Host knows them (Core/Host.cpp 911-1061,  *)
(* Client/ClientProt.ixx): who is there, who plays and who only watches,   *)
(* who rides on whom, whom the bot follows and who owns it.                *)
(*                                                                         *)
(* The server is external.  It gives a free ident to whoever enters, also  *)
(* one that a player who left has had before, and announces each change of *)
(* the arena in a reliable message; the messages in inbox are handled in   *)
(* order.  Position and weapon packets are not reliable: they may overtake *)
(* the message that announces their player and be overtaken by the one     *)
(* that takes leave of him.  The bot's own entry is not distinguished.     *)
(***************************************************************************)
EXTENDS Naturals, Sequences, FiniteSets, FiniteSetsExt, Sublists

CONSTANTS
    Ids,          \* the idents the server uses
    Names,        \* the names of people
    Operators,    \* people with an operator account that has no password
    UnassignedId, \* 0xFFFF
    Overtaking,   \* position packets may be early or late
    MaxRiders,    \* most turreters on one turretee
    Commands,     \* the chat commands given to the bot
    MaxInbox      \* bound on the announcements of changes under way

NoName == "no name"

ASSUME ConstantsAssumption ==
    /\ Ids \subseteq Nat /\ IsFiniteSet(Ids) /\ UnassignedId \in Nat
    /\ \A id \in Ids : id < UnassignedId
    /\ Operators \subseteq Names /\ NoName \notin Names
    /\ Overtaking \in BOOLEAN /\ MaxRiders \in Nat /\ MaxInbox \in Nat
    /\ Commands \subseteq {"own", "give", "ownbot", "follow", "login", "logout"}

VARIABLES
    arena,     \* server: the name of the player with each ident in use
    watches,   \* server: the idents of those who are spectators
    rides,     \* server: the turretee of each ident, or UnassignedId
    crowded,   \* history: the idents that several players were shaken off from
    inbox,     \* reliable messages the bot has not yet handled
    airborne,  \* idents named by position packets under way
    bot        \* the Host: see Bot

vars == <<arena, watches, rides, crowded, inbox, airborne, bot>>

Keys == Ids \cup {UnassignedId}

Player == [ident : Keys, name : Names \cup {NoName}, turretId : Keys,
           access : {"Player", "Limited", "Operator"}, spectator : BOOLEAN]

(* What players[id] creates for an unknown id.                             *)
Dummy == [ident |-> UnassignedId, name |-> NoName, turretId |-> UnassignedId,
          access |-> "Player", spectator |-> TRUE]

Bot == [players        : UNION {[S -> Player] : S \in SUBSET Keys},
        playerIds      : Seq(Ids),
        follow         : Keys,
        limitedOwnerId : Keys,
        allowLimited   : BOOLEAN,
        heir           : Names \cup {NoName}] \* history: whom !give was given to last

IsAssigned(p) == p.ident # UnassignedId
-----------------------------------------------------------------------------
(* The helpers of Host.                                                    *)

With(b, id, p) ==
    [b EXCEPT !.players = [k \in DOMAIN b.players \cup {id} |->
                              IF k = id THEN p ELSE b.players[k]]]

(* getPlayer(): an unknown id gets a dummy.                                *)
GetPlayer(b, id) == IF id \in DOMAIN b.players THEN b ELSE With(b, id, Dummy)

(* Mutant of KillTurret: the rider is left on ident 0.                     *)
KillTurret_Zeroes(b, ident) ==
    [b EXCEPT !.players = [k \in DOMAIN @ |->
        IF @[k].turretId = ident THEN [@[k] EXCEPT !.turretId = 0] ELSE @[k]]]

(* killTurret(): the first rider of ident, in the order of the map, is     *)
(* shaken off.                                                             *)
KillTurret(b, ident) ==
    LET riders == {k \in DOMAIN b.players : b.players[k].turretId = ident}
    IN  IF riders = {} THEN b
        ELSE [b EXCEPT !.players[Min(riders)].turretId = UnassignedId]

(* killTurreter().                                                         *)
KillTurreter(b, id) ==
    LET turretee == b.players[id].turretId
    IN  IF turretee = UnassignedId THEN b
        ELSE [GetPlayer(b, turretee) EXCEPT !.players[id].turretId = UnassignedId]

(* Mutant of Unfollow: the bot goes on following the ident.                *)
Unfollow_Keeps(b, ident) == b

(* The parts of killPlayer(): the bot lets go of an ident, and the list    *)
(* forgets it.                                                             *)
Unfollow(b, ident) ==
    [b EXCEPT !.follow         = IF @ = ident THEN UnassignedId ELSE @,
              !.limitedOwnerId = IF @ = ident THEN UnassignedId ELSE @]

Unlist(b, ident) ==
    [b EXCEPT !.playerIds = Sublist(@, {k \in DOMAIN @ : @[k] # ident})]

(* killPlayer(players[id]): what is removed is the ident of the player.    *)
KillPlayer(b, id) ==
    LET ident == b.players[id].ident
    IN  [Unlist(KillTurret(Unfollow(b, ident), ident), ident)
            EXCEPT !.players = [k \in DOMAIN @ \ {ident} |-> @[k]]]

(* addPlayer(): emplace() does nothing when the key exists.                *)
AddPlayer(b, id, p) ==
    [(IF id \in DOMAIN b.players THEN b ELSE With(b, id, p))
        EXCEPT !.playerIds = Append(@, id)]

RevokeLimited(b) ==
    [b EXCEPT !.players = [k \in DOMAIN @ |->
        IF @[k].access = "Limited" THEN [@[k] EXCEPT !.access = "Player"] ELSE @[k]]]

(* findPlayer(): the first player of that name, or the dummy.              *)
FindPlayer(b, name) ==
    LET found == {k \in DOMAIN b.players : b.players[k].name = name}
    IN  IF found = {} THEN UnassignedId ELSE Min(found)
-----------------------------------------------------------------------------
(* The message handlers.                                                   *)

(* Mutant of HandlePlayerEntering: the turretee of the message is dropped. *)
HandlePlayerEntering_Alone(b, id, name, watching, onto) ==
    LET free  == IF id \in DOMAIN b.players THEN KillPlayer(b, id) ELSE b
        added == AddPlayer(free, id, [Dummy EXCEPT !.ident = id, !.name = name,
                                                   !.spectator = watching])
    IN  [added EXCEPT !.players[id].access =
            IF added.players[id].name \in Operators THEN "Operator" ELSE @]

HandlePlayerEntering(b, id, name, watching, onto) ==
    LET free  == IF id \in DOMAIN b.players THEN KillPlayer(b, id) ELSE b
        added == AddPlayer(free, id, [Dummy EXCEPT !.ident = id, !.name = name,
                                                   !.spectator = watching])
        entry == added.players[id]
    IN  [added EXCEPT !.players[id] =
            [entry EXCEPT !.turretId = onto,
                          !.access = IF entry.name \in Operators
                                     THEN "Operator" ELSE entry.access]]

(* Mutant of HandlePlayerLeaving: only the list forgets the player.        *)
HandlePlayerLeaving_ListOnly(b, id) == Unlist(b, id)

HandlePlayerLeaving(b, id) ==
    LET g == GetPlayer(b, id)
    IN  IF IsAssigned(g.players[id]) THEN KillPlayer(g, id) ELSE g

HandleCreateTurret(b, id, onto) ==
    LET g == GetPlayer(b, id)
        onto2 == IF onto = UnassignedId THEN g.players[id].turretId ELSE onto
        h == GetPlayer(g, onto2)
    IN  CASE ~IsAssigned(g.players[id]) -> g
          [] IsAssigned(g.players[id]) /\ ~IsAssigned(h.players[onto2]) -> h
          [] IsAssigned(g.players[id]) /\ IsAssigned(h.players[onto2]) ->
                IF onto = UnassignedId THEN KillTurreter(h, id)
                ELSE [h EXCEPT !.players[id].turretId = onto]

HandleDeleteTurret(b, id) ==
    LET g == GetPlayer(b, id)
    IN  IF IsAssigned(g.players[id]) THEN KillTurret(g, id) ELSE g

(* Mutant of Own: the bot may be taken from its owner.                     *)
Own_Taken(b, id) ==
    IF b.allowLimited /\ b.players[id].access = "Player"
    THEN [b EXCEPT !.players[id].access = "Limited", !.limitedOwnerId = id]
    ELSE b

(* gotCommand(), for the commands about ownership and following.           *)
Own(b, id) ==
    LET g == GetPlayer(b, b.limitedOwnerId)
    IN  IF /\ b.allowLimited
           /\ ~IsAssigned(g.players[b.limitedOwnerId])
           /\ b.players[id].access = "Player"
        THEN [g EXCEPT !.players[id].access = "Limited", !.limitedOwnerId = id]
        ELSE IF b.allowLimited THEN g ELSE b

Give(b, id, name) ==
    LET free == [RevokeLimited(b) EXCEPT !.limitedOwnerId = UnassignedId]
        to   == FindPlayer(free, name)
        g    == GetPlayer(free, to)
    IN  IF ~b.allowLimited \/ b.players[id].access = "Player" THEN b
        ELSE IF IsAssigned(g.players[to]) /\ g.players[to].access = "Player"
             THEN [g EXCEPT !.players[to].access = "Limited", !.heir = name]
             ELSE [g EXCEPT !.heir = NoName]

OwnBot(b, id) ==
    IF b.players[id].access # "Operator" THEN b
    ELSE IF b.allowLimited THEN RevokeLimited([b EXCEPT !.allowLimited = FALSE])
                           ELSE [b EXCEPT !.allowLimited = TRUE]

Follow(b, id, name) ==
    LET to == FindPlayer(b, name)
        g  == GetPlayer(b, to)
    IN  IF b.players[id].access # "Operator" THEN b
        ELSE [g EXCEPT !.follow = g.players[to].ident]

(* The biller is up.                                                       *)
Login(b, id) ==
    IF b.players[id].name \notin Operators THEN b
    ELSE [b EXCEPT !.limitedOwnerId = IF @ = id THEN UnassignedId ELSE @,
                   !.players[id].access = "Operator"]

Logout(b, id) == IF b.players[id].access # "Operator" THEN b
                 ELSE [b EXCEPT !.players[id].access = "Player"]

(* handleChat(): an unassigned player is not obeyed.                       *)
HandleChat(b, id, command, name) ==
    LET g == GetPlayer(b, id)
    IN  CASE ~IsAssigned(g.players[id]) -> g
          [] IsAssigned(g.players[id]) /\ command = "own"    -> Own(g, id)
          [] IsAssigned(g.players[id]) /\ command = "give"   -> Give(g, id, name)
          [] IsAssigned(g.players[id]) /\ command = "ownbot" -> OwnBot(g, id)
          [] IsAssigned(g.players[id]) /\ command = "follow" -> Follow(g, id, name)
          [] IsAssigned(g.players[id]) /\ command = "login"  -> Login(g, id)
          [] IsAssigned(g.players[id]) /\ command = "logout" -> Logout(g, id)

(* handleSetTeam() compares the ident with 0xFFFF, and goes on following.  *)
HandleSetTeam(b, id, watching) ==
    LET g == GetPlayer(b, id)
    IN  IF ~IsAssigned(g.players[id]) THEN g
        ELSE [g EXCEPT !.players[id].spectator = watching]

HandleSetTeamAndShip(b, id, watching) ==
    LET g == GetPlayer(b, id)
    IN  IF ~IsAssigned(g.players[id]) THEN g
        ELSE [g EXCEPT !.players[id].spectator = watching,
                       !.follow = IF @ = id /\ watching /\ ~g.players[id].spectator
                                  THEN UnassignedId ELSE @]

HandleSpecPlayer(b, id) == HandleSetTeam(b, id, TRUE)

Handle(b, m) ==
    CASE m.type = "enter"  -> HandlePlayerEntering(b, m.id, m.name, m.watching, m.onto)
      [] m.type = "leave"  -> HandlePlayerLeaving(b, m.id)
      [] m.type = "turret" -> HandleCreateTurret(b, m.id, m.onto)
      [] m.type = "shake"  -> HandleDeleteTurret(b, m.id)
      [] m.type = "team"   -> HandleSetTeam(b, m.id, m.watching)
      [] m.type = "ship"   -> HandleSetTeamAndShip(b, m.id, m.watching)
      [] m.type = "spec"   -> HandleSpecPlayer(b, m.id)
      [] m.type \in Commands -> HandleChat(b, m.id, m.type, m.name)
-----------------------------------------------------------------------------
(* The steps of the bot.                                                   *)

HandleNext ==
    /\ inbox # <<>>
    /\ bot' = Handle(bot, Head(inbox))
    /\ inbox' = Tail(inbox)
    /\ UNCHANGED <<arena, watches, rides, crowded, airborne>>

(* handlePlayerPosition() and handleWeaponUpdate(): all that matters here  *)
(* is that they look their player up.                                      *)
HandlePosition(id) ==
    /\ id \in airborne
    /\ airborne' = airborne \ {id}
    /\ bot' = GetPlayer(bot, id)
    /\ UNCHANGED <<arena, watches, rides, crowded, inbox>>

(* spectateNext(): the next player of the list, behind the one who is      *)
(* followed or behind the first, who is no spectator.                      *)
SpectateNext ==
    /\ bot.playerIds # <<>> \/ bot.follow # UnassignedId
    /\ LET ids   == bot.playerIds
           place == {k \in DOMAIN ids : ids[k] = bot.follow}
           from  == IF bot.follow = UnassignedId THEN 1 ELSE Min(place)
           At(n) == ids[((from + n - 1) % Len(ids)) + 1]
           plays == {n \in 1 .. Len(ids) : ~bot.players[At(n)].spectator}
       IN  bot' = [bot EXCEPT !.follow =
                      IF (bot.follow # UnassignedId /\ place = {}) \/ plays = {}
                      THEN UnassignedId ELSE bot.players[At(Min(plays))].ident]
    /\ UNCHANGED <<arena, watches, rides, crowded, inbox, airborne>>
-----------------------------------------------------------------------------
(* The server.                                                             *)

Riders(id) == {k \in DOMAIN rides : rides[k] = id}

(* When the riders of id are shaken off: id, if there are several.         *)
Crowd(id) == IF \E j, k \in Riders(id) : j # k THEN {id} ELSE {}

Message(type, id, onto, name) ==
    [type |-> type, id |-> id, onto |-> onto, name |-> name, watching |-> id \in watches']

Announce(m) ==
    /\ Len(inbox) < MaxInbox
    /\ inbox' = Append(inbox, m)
    /\ UNCHANGED bot

Enter(id, name) ==
    /\ id \notin DOMAIN arena
    /\ \A k \in DOMAIN arena : arena[k] # name
    /\ arena' = [k \in DOMAIN arena \cup {id} |-> IF k = id THEN name ELSE arena[k]]
    /\ watches' \in {watches, watches \cup {id}}
    /\ rides' = [k \in DOMAIN rides \cup {id} |-> IF k = id THEN UnassignedId ELSE rides[k]]
    /\ Announce(Message("enter", id, UnassignedId, name))
    /\ UNCHANGED <<crowded, airborne>>

Leave(id) ==
    /\ id \in DOMAIN arena
    /\ arena' = [k \in DOMAIN arena \ {id} |-> arena[k]]
    /\ watches' = watches \ {id}
    /\ rides' = [k \in DOMAIN rides \ {id} |-> IF rides[k] = id THEN UnassignedId ELSE rides[k]]
    /\ crowded' = crowded \cup Crowd(id)
    /\ Announce(Message("leave", id, UnassignedId, NoName))
    /\ UNCHANGED airborne

(* Who changes his ship rides on nobody and is ridden by nobody.           *)
ChangeShip(id) ==
    /\ rides[id] = UnassignedId /\ Riders(id) = {}
    /\ watches' = IF id \in watches THEN watches \ {id} ELSE watches \cup {id}
    /\ \E type \in {"team", "ship", "spec"} :
          /\ type = "spec" => id \in watches'
          /\ Announce(Message(type, id, UnassignedId, NoName))
    /\ UNCHANGED <<arena, rides, crowded, airborne>>

Attach(id, onto) ==
    /\ id # onto /\ rides[id] = UnassignedId /\ rides[onto] = UnassignedId
    /\ watches \cap {id, onto} = {} /\ watches' = watches
    /\ Riders(id) = {} /\ Cardinality(Riders(onto)) < MaxRiders
    /\ rides' = [rides EXCEPT ![id] = onto]
    /\ Announce(Message("turret", id, onto, NoName))
    /\ UNCHANGED <<arena, crowded, airborne>>

Detach(id) ==
    /\ rides[id] # UnassignedId /\ watches' = watches
    /\ rides' = [rides EXCEPT ![id] = UnassignedId]
    /\ Announce(Message("turret", id, UnassignedId, NoName))
    /\ UNCHANGED <<arena, crowded, airborne>>

ShakeOff(id) ==
    /\ Riders(id) # {} /\ watches' = watches
    /\ rides' = [k \in DOMAIN rides |-> IF rides[k] = id THEN UnassignedId ELSE rides[k]]
    /\ crowded' = crowded \cup Crowd(id)
    /\ Announce(Message("shake", id, UnassignedId, NoName))
    /\ UNCHANGED <<arena, airborne>>

Chat(id, command, name) ==
    /\ watches' = watches
    /\ Announce(Message(command, id, UnassignedId, name))
    /\ UNCHANGED <<arena, rides, crowded, airborne>>

(* Without overtaking, a position packet is sent when the bot knows what   *)
(* the server knows, and arrives before the arena changes.                 *)
SendPosition(id) ==
    /\ Overtaking \/ inbox = <<>>
    /\ airborne' = airborne \cup {id}
    /\ UNCHANGED <<arena, watches, rides, crowded, inbox, bot>>

Settled == Overtaking \/ airborne = {}
-----------------------------------------------------------------------------
(* The bot enters an arena, where others may be and ride on one another:   *)
(* the server announces whoever is there.                                  *)
Entering(id) == [type |-> "enter", id |-> id, onto |-> rides[id], name |-> arena[id],
                 watching |-> id \in watches]

Populated ==
    /\ \E present \in SUBSET Ids : arena \in [present -> Names]
    /\ \A j, k \in DOMAIN arena : arena[j] = arena[k] => j = k
    /\ watches \in SUBSET DOMAIN arena
    /\ rides \in [DOMAIN arena -> DOMAIN arena \cup {UnassignedId}]
    /\ \A id \in DOMAIN arena :
          /\ rides[id] # UnassignedId =>
                /\ id # rides[id] /\ rides[rides[id]] = UnassignedId
                /\ watches \cap {id, rides[id]} = {}
          /\ Cardinality(Riders(id)) <= MaxRiders
    /\ \E n \in 0 .. Cardinality(Ids) : \E order \in [1 .. n -> DOMAIN arena] :
          /\ \A id \in DOMAIN arena : \E k \in 1 .. n : order[k] = id
          /\ \A j, k \in 1 .. n : order[j] = order[k] => j = k
          /\ inbox = [k \in 1 .. n |-> Entering(order[k])]

(* resetArena().                                                           *)
Init ==
    /\ Populated /\ crowded = {} /\ airborne = {}
    /\ bot = [players |-> <<>>, playerIds |-> <<>>, follow |-> UnassignedId,
              limitedOwnerId |-> UnassignedId, allowLimited |-> FALSE,
              heir |-> NoName]

Next ==
    \/ HandleNext \/ SpectateNext
    \/ \E id \in airborne : HandlePosition(id)
    \/ \E id \in DOMAIN arena : SendPosition(id)
    \/ Settled /\ \E id \in Ids, name \in Names : Enter(id, name)
    \/ Settled /\ \E id \in DOMAIN arena :
          \/ Leave(id) \/ ChangeShip(id) \/ Detach(id) \/ ShakeOff(id)
          \/ \E onto \in DOMAIN arena : Attach(id, onto)
          \/ \E command \in Commands \cap {"give", "follow"}, name \in Names :
                Chat(id, command, name)
          \/ \E command \in Commands \ {"give", "follow"} : Chat(id, command, NoName)

Spec == Init /\ [][Next]_vars
-----------------------------------------------------------------------------
TypeOK ==
    /\ DOMAIN arena \subseteq Ids /\ \A id \in DOMAIN arena : arena[id] \in Names
    /\ DOMAIN rides = DOMAIN arena /\ \A id \in DOMAIN rides : rides[id] \in Keys
    /\ crowded \subseteq Ids /\ airborne \subseteq Ids
    /\ DOMAIN bot.players \subseteq Keys
    /\ \A id \in DOMAIN bot.players : bot.players[id] \in Player
    /\ bot.playerIds \in Seq(Ids)
    /\ bot.follow \in Keys /\ bot.limitedOwnerId \in Keys
    /\ bot.allowLimited \in BOOLEAN /\ bot.heir \in Names \cup {NoName}
    /\ watches \subseteq DOMAIN arena

(* "Remove player with an already existing Id": once every message has     *)
(* been handled, the players the bot knows are those of the arena, under   *)
(* their idents, with their names and ships, and no powers that their      *)
(* accounts do not give, and at any time the list that spectateNext goes   *)
(* round has each of them once (handlePlayerEntering, handlePlayerLeaving, *)
(* handleSetTeam, addPlayer, killPlayer).                                  *)
PlayersMatch ==
    /\ {bot.playerIds[k] : k \in DOMAIN bot.playerIds}
           = {id \in DOMAIN bot.players : IsAssigned(bot.players[id])}
    /\ Cardinality({bot.playerIds[k] : k \in DOMAIN bot.playerIds}) = Len(bot.playerIds)
    /\ inbox = <<>> =>
        /\ \A id \in DOMAIN arena :
              /\ id \in DOMAIN bot.players
              /\ bot.players[id].ident = id /\ bot.players[id].name = arena[id]
              /\ bot.players[id].spectator = (id \in watches)
              /\ bot.players[id].access = "Operator" => arena[id] \in Operators
        /\ \A id \in DOMAIN bot.players \ DOMAIN arena : ~IsAssigned(bot.players[id])

(* Once every message has been handled, the turretee of a player is the    *)
(* one he rides on, though he rode on him before the bot came and idents   *)
(* are used again; or somebody who had several riders when he shook them   *)
(* off or left, and the player now rides on nobody: killTurret() leaves    *)
(* its loop at the first rider (killTurret, killPlayer, handleCreateTurret,*)
(* handlePlayerEntering).                                                  *)
TurretsMatch ==
    inbox = <<>> =>
        \A id \in DOMAIN arena :
            \/ bot.players[id].turretId = rides[id]
            \/ rides[id] = UnassignedId /\ bot.players[id].turretId \in crowded

(* "Track Limited bot owner": only the tracked owner has Limited powers,   *)
(* and the one they were given to by !give, who is not tracked; whatever   *)
(* the order of !own, !give, !login and !logout, though idents are used    *)
(* again and the system is switched off and on.                            *)
OwnerTracked ==
    \A id \in DOMAIN bot.players :
        bot.players[id].access = "Limited" =>
            bot.limitedOwnerId = id \/ bot.players[id].name = bot.heir

(* The bot follows only somebody who is there (killPlayer): when the       *)
(* followed player leaves, a newcomer with his ident is not followed.      *)
FollowsSomebody ==
    bot.follow # UnassignedId =>
        bot.follow \in DOMAIN bot.players /\ IsAssigned(bot.players[bot.follow])
=============================================================================
