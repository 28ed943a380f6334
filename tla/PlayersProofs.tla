--------------------------- MODULE PlayersProofs ---------------------------
(***************************************************************************)
(* Proofs about Players, for every set of idents, names, operators and     *)
(* commands, and every bound on the messages under way.                    *)
(*                                                                         *)
(* The first part holds whatever overtakes what: a bot is Tidy if each     *)
(* entry of its map is of the player under that ident or of nobody, if     *)
(* Limited powers are of the tracked owner or of the heir, and if the      *)
(* list, the followed player and the owner are in the map.  Each handler   *)
(* keeps it so, with what it does to names, ships and turrets.             *)
(*                                                                         *)
(* The second part is about the bot and the arena, which differ by the     *)
(* messages under way.  A view is the arena as it was between two of them: *)
(* the bot sees the first view, the arena is the last, and each message    *)
(* leads from one to the next, by what the server did and by what the bot  *)
(* will do alike (InStep).  Only a crowd that is shaken off is not all     *)
(* off to the bot, and the views are what it sees (Told).  Without         *)
(* overtaking no entry is of nobody, but for the one of 0xFFFF (Clean).    *)
(***************************************************************************)
EXTENDS Players, ListProofs, FiniteSetTheorems

(* Those who are there.                                                    *)
Assigned(b) == {k \in DOMAIN b.players : IsAssigned(b.players[k])}

(* Those on the list that spectateNext() goes round.                       *)
Listed(b) == {b.playerIds[k] : k \in DOMAIN b.playerIds}

(* What an entry under the key k may be.                                   *)
Entry(p, k) ==
    /\ p \in Player
    /\ p.ident \in {k, UnassignedId}
    /\ p.ident = UnassignedId => p.name = NoName /\ p.access = "Player"
    /\ k = UnassignedId => p.turretId = UnassignedId
    /\ p.access = "Operator" => p.name \in Operators

(* The powers that are not of an account.                                  *)
Limits(p, owner, heir) ==
    \A k \in DOMAIN p : p[k].access = "Limited" => owner = k \/ p[k].name = heir

(* A bot whose parts agree.                                                *)
Tidy(b) ==
    /\ b \in Bot
    /\ \A k \in DOMAIN b.players : Entry(b.players[k], k)
    /\ Limits(b.players, b.limitedOwnerId, b.heir)
    /\ Listed(b) \subseteq DOMAIN b.players
    /\ b.follow \in Assigned(b) \cup {UnassignedId}
    /\ b.limitedOwnerId \in Assigned(b) \cup {UnassignedId}

(* g knows the players that b knows, and perhaps an entry more.            *)
Like(b, g, extra) ==
    /\ Tidy(g)
    /\ g.playerIds = b.playerIds
    /\ Assigned(g) = Assigned(b)
    /\ DOMAIN b.players \subseteq DOMAIN g.players
    /\ DOMAIN g.players \subseteq DOMAIN b.players \cup extra
    /\ \A k \in Assigned(b) : g.players[k].name = b.players[k].name

(* Nor have they moved.                                                    *)
Quiet(b, g) ==
    \A k \in Assigned(b) : /\ g.players[k].spectator = b.players[k].spectator
                           /\ g.players[k].turretId = b.players[k].turretId

(* Every list of players by their idents.                                  *)
Maps == UNION {[S -> Player] : S \in SUBSET Keys}

(* The idents are keys, and no ident is 0xFFFF.                            *)
LEMMA KeysAre ==
    /\ Ids \subseteq Keys /\ Keys \subseteq Nat /\ UnassignedId \in Keys
    /\ UnassignedId \notin Ids
<1>1. Ids \subseteq Nat /\ UnassignedId \in Nat /\ \A id \in Ids : id < UnassignedId
  BY ConstantsAssumption
<1>2. UnassignedId \notin Ids
  BY <1>1
<1> QED
  BY <1>1, <1>2 DEF Keys

(* What a list of players is.                                              *)
LEMMA MapsAre ==
    ASSUME NEW S \in SUBSET Keys, NEW p \in [S -> Player]
    PROVE  p \in Maps
BY DEF Maps

(* What a bot consists of.                                                 *)
LEMMA BotIs ==
    ASSUME NEW b \in Bot
    PROVE  /\ b.players \in Maps /\ b.playerIds \in Seq(Ids)
           /\ b.follow \in Keys /\ b.limitedOwnerId \in Keys
           /\ b.allowLimited \in BOOLEAN /\ b.heir \in Names \cup {NoName}
           /\ DOMAIN b.players \subseteq Keys
           /\ b.players \in [DOMAIN b.players -> Player]
           /\ \A k \in DOMAIN b.players : b.players[k] \in Player
<1>1. /\ b.players \in Maps /\ b.playerIds \in Seq(Ids)
      /\ b.follow \in Keys /\ b.limitedOwnerId \in Keys
      /\ b.allowLimited \in BOOLEAN /\ b.heir \in Names \cup {NoName}
  BY DEF Bot, Maps
<1> DEFINE p == b.players
<1>2. PICK S \in SUBSET Keys : p \in [S -> Player]
  BY <1>1 DEF Maps
<1> HIDE DEF p
<1>3. DOMAIN p = S /\ \A k \in S : p[k] \in Player
  BY <1>2
<1> QED
  BY <1>1, <1>2, <1>3 DEF p

(* A bot with other players.                                               *)
LEMMA PlayersSet ==
    ASSUME NEW b \in Bot, NEW p \in Maps
    PROVE  LET g == [b EXCEPT !.players = p]
           IN  /\ g \in Bot /\ g.players = p /\ g.playerIds = b.playerIds
               /\ g.follow = b.follow /\ g.limitedOwnerId = b.limitedOwnerId
               /\ g.allowLimited = b.allowLimited /\ g.heir = b.heir
BY DEF Bot, Maps

(* Whom the entries say is there, when they keep their idents.             *)
LEMMA TidyMade ==
    ASSUME NEW b, Tidy(b), NEW g \in Bot, g.playerIds = b.playerIds,
           DOMAIN g.players = DOMAIN b.players,
           \A k \in DOMAIN b.players : /\ Entry(g.players[k], k)
                                      /\ g.players[k].ident = b.players[k].ident
                                      /\ g.players[k].name = b.players[k].name,
           Limits(g.players, g.limitedOwnerId, g.heir),
           g.follow \in Assigned(b) \cup {UnassignedId},
           g.limitedOwnerId \in Assigned(b) \cup {UnassignedId}
    PROVE  Like(b, g, {})
<1>1. Assigned(g) = Assigned(b)
  BY DEF Assigned, IsAssigned
<1>2. Listed(g) = Listed(b)
  BY DEF Listed
<1>3. Tidy(g)
  BY <1>1, <1>2 DEF Tidy
<1> QED
  BY <1>1, <1>3 DEF Like, Assigned

(* A bot that is left as it was.                                           *)
LEMMA LikeSame == ASSUME NEW b, Tidy(b), NEW extra PROVE Like(b, b, extra) /\ Quiet(b, b)
BY DEF Like, Quiet

(* Two changes one after the other.                                        *)
LEMMA LikeTwice ==
    ASSUME NEW b, NEW g, NEW f, NEW extra, NEW more, Like(b, g, extra), Like(g, f, more)
    PROVE  /\ Like(b, f, extra \cup more)
           /\ Quiet(b, g) /\ Quiet(g, f) => Quiet(b, f)
BY DEF Like, Quiet

(* getPlayer(): the entry it makes is of nobody.                           *)
LEMMA GetPlayerIs ==
    ASSUME NEW b, Tidy(b), NEW id \in Keys
    PROVE  LET g == GetPlayer(b, id)
           IN  /\ Like(b, g, {id}) /\ Quiet(b, g) /\ id \in DOMAIN g.players
               /\ g.follow = b.follow /\ g.limitedOwnerId = b.limitedOwnerId
               /\ g.allowLimited = b.allowLimited /\ g.heir = b.heir
               /\ DOMAIN g.players = DOMAIN b.players \cup {id}
               /\ \A k \in DOMAIN b.players : g.players[k] = b.players[k]
<1>1. /\ b \in Bot /\ b.players \in [DOMAIN b.players -> Player]
      /\ DOMAIN b.players \subseteq Keys
      /\ \A k \in DOMAIN b.players : b.players[k] \in Player
  BY BotIs DEF Tidy
<1>2. CASE id \in DOMAIN b.players
  <2>1. GetPlayer(b, id) = b
    BY <1>2 DEF GetPlayer
  <2>2. DOMAIN b.players \cup {id} = DOMAIN b.players
    BY <1>2
  <2> QED
    BY <1>2, <2>1, <2>2, LikeSame
<1>3. CASE id \notin DOMAIN b.players
  <2> DEFINE p == [k \in DOMAIN b.players \cup {id} |->
                      IF k = id THEN Dummy ELSE b.players[k]]
             g == [b EXCEPT !.players = p]
  <2>1. GetPlayer(b, id) = g
    BY <1>3 DEF GetPlayer, With
  <2>2. Entry(Dummy, id) /\ ~IsAssigned(Dummy) /\ Dummy.access = "Player"
    BY KeysAre DEF Dummy, Entry, Player, IsAssigned
  <2>3. /\ DOMAIN p = DOMAIN b.players \cup {id} /\ p[id] = Dummy
        /\ \A k \in DOMAIN b.players : p[k] = b.players[k]
    BY <1>3
  <2>4. p \in Maps
    <3>1. p \in [DOMAIN b.players \cup {id} -> Player]
      BY <1>1, <2>2 DEF Entry
    <3> HIDE DEF p
    <3> QED
      BY <1>1, <3>1, MapsAre
  <2> HIDE DEF p
  <2>5. /\ g \in Bot /\ g.players = p /\ g.playerIds = b.playerIds
        /\ g.follow = b.follow /\ g.limitedOwnerId = b.limitedOwnerId
        /\ g.allowLimited = b.allowLimited /\ g.heir = b.heir
    BY <1>1, <2>4, PlayersSet
  <2> HIDE DEF g
  <2>6. Assigned(g) = Assigned(b)
    BY <2>2, <2>3, <2>5 DEF Assigned
  <2>7. Listed(g) = Listed(b)
    BY <2>5 DEF Listed
  <2>8. Limits(g.players, g.limitedOwnerId, g.heir)
    BY <2>2, <2>3, <2>5 DEF Tidy, Limits
  <2>9. \A k \in DOMAIN g.players : Entry(g.players[k], k)
    BY <2>2, <2>3, <2>5 DEF Tidy
  <2>10. Tidy(g)
    BY <2>3, <2>5, <2>6, <2>7, <2>8, <2>9 DEF Tidy
  <2>11. Like(b, g, {id}) /\ Quiet(b, g)
    BY <2>3, <2>5, <2>6, <2>10 DEF Like, Quiet, Assigned
  <2> QED
    BY <2>1, <2>3, <2>5, <2>11
<1> QED
  BY <1>2, <1>3

(* The rider of ident who is shaken off.                                   *)
Shaken(turret, ident, k) ==
    /\ turret[k] = ident
    /\ k = Min({j \in DOMAIN turret : turret[j] = ident})

(* On whom each of the players rides, as the bot has it.                   *)
Turrets(b) == [k \in DOMAIN b.players |-> b.players[k].turretId]

(* A set of numbers has its least one.                                     *)
LEMMA MinIs == ASSUME NEW T \in SUBSET Nat, T # {} PROVE Min(T) \in T
<1>1. \E n \in T : \A m \in T : n <= m
  BY LeastElement
<1>2. PICK n \in T : \A m \in T : n <= m
  BY <1>1
<1> QED
  BY <1>2, Zenon DEF Min

(* killTurret(): one rider is shaken off, if there is one.                 *)
LEMMA KillTurretIs ==
    ASSUME NEW b, Tidy(b), NEW ident
    PROVE  LET g == KillTurret(b, ident)
           IN  /\ Like(b, g, {})
               /\ DOMAIN g.players = DOMAIN b.players
               /\ g.follow = b.follow /\ g.limitedOwnerId = b.limitedOwnerId
               /\ g.heir = b.heir
               /\ \A k \in DOMAIN b.players :
                     /\ g.players[k].ident = b.players[k].ident
                     /\ g.players[k].spectator = b.players[k].spectator
                     /\ g.players[k].turretId = IF Shaken(Turrets(b), ident, k)
                                                THEN UnassignedId
                                                ELSE b.players[k].turretId
<1> DEFINE riders == {k \in DOMAIN b.players : b.players[k].turretId = ident}
           first == Min(riders)
           old == b.players
<1>1. /\ b \in Bot /\ old \in [DOMAIN old -> Player] /\ DOMAIN old \subseteq Keys
      /\ \A k \in DOMAIN old : old[k] \in Player
  BY BotIs DEF Tidy
<1>2. \A k \in DOMAIN old : Shaken(Turrets(b), ident, k) <=> k \in riders /\ k = first
  <2>1. DOMAIN Turrets(b) = DOMAIN old /\ \A k \in DOMAIN old : Turrets(b)[k] = old[k].turretId
    BY DEF Turrets
  <2>2. {j \in DOMAIN Turrets(b) : Turrets(b)[j] = ident} = riders
    BY <2>1
  <2> QED
    BY <2>1, <2>2 DEF Shaken
<1>3. CASE riders = {}
  <2>1. KillTurret(b, ident) = b
    BY <1>3 DEF KillTurret
  <2> QED
    BY <1>2, <1>3, <2>1, LikeSame
<1>4. CASE riders # {}
  <2>1. first \in riders /\ first \in DOMAIN old /\ old[first].turretId = ident
    BY <1>1, <1>4, KeysAre, MinIs
  <2> HIDE DEF first
  <2> DEFINE q == [old[first] EXCEPT !.turretId = UnassignedId]
             p == [old EXCEPT ![first] = q]
             g == [b EXCEPT !.players = p]
  <2>2. KillTurret(b, ident) = g
    BY <1>4 DEF KillTurret, first
  <2>3. /\ q \in Player /\ q.ident = old[first].ident /\ q.name = old[first].name
        /\ q.turretId = UnassignedId /\ q.access = old[first].access
        /\ q.spectator = old[first].spectator
    BY <1>1, <2>1, KeysAre DEF Player
  <2> HIDE DEF q
  <2>4. /\ DOMAIN p = DOMAIN old /\ p \in [DOMAIN old -> Player] /\ p[first] = q
        /\ \A k \in DOMAIN old : k # first => p[k] = old[k]
    BY <1>1, <2>1, <2>3
  <2>5. p \in Maps
    BY <1>1, <2>4, MapsAre
  <2> HIDE DEF p
  <2>6. /\ g \in Bot /\ g.players = p /\ g.playerIds = b.playerIds
        /\ g.follow = b.follow /\ g.limitedOwnerId = b.limitedOwnerId
        /\ g.heir = b.heir
    BY <1>1, <2>5, PlayersSet
  <2> HIDE DEF g
  <2>7. \A k \in DOMAIN old : Entry(old[k], k)
    BY DEF Tidy
  <2>8. Entry(q, first)
    BY <2>1, <2>3, <2>7 DEF Entry
  <2>9. \A k \in DOMAIN old : /\ Entry(p[k], k) /\ p[k].ident = old[k].ident
                             /\ p[k].name = old[k].name /\ p[k].access = old[k].access
                             /\ p[k].spectator = old[k].spectator
    BY <2>3, <2>4, <2>7, <2>8
  <2>10. Limits(p, g.limitedOwnerId, g.heir)
    BY <2>4, <2>6, <2>9 DEF Tidy, Limits
  <2>11. Like(b, g, {})
    BY <2>4, <2>6, <2>9, <2>10, TidyMade DEF Tidy
  <2>12. \A k \in DOMAIN old : p[k].turretId = IF Shaken(Turrets(b), ident, k)
                                               THEN UnassignedId ELSE old[k].turretId
    BY <1>2, <2>1, <2>3, <2>4
  <2> QED
    BY <2>2, <2>4, <2>6, <2>9, <2>11, <2>12
<1> QED
  BY <1>3, <1>4

(* The list without an ident holds the others, and each as often as before.*)
LEMMA UnlistIs ==
    ASSUME NEW s \in Seq(Ids), NEW ident
    PROVE  LET q == Sublist(s, {k \in DOMAIN s : s[k] # ident})
           IN  /\ q \in Seq(Ids)
               /\ {q[k] : k \in DOMAIN q} = {s[k] : k \in DOMAIN s} \ {ident}
               /\ IsInjective(s) => IsInjective(q)
<1> DEFINE K == {k \in DOMAIN s : s[k] # ident}
           q == Sublist(s, K)
<1>1. q \in Seq(Ids) /\ \E at : Picks(at, q, s, K, Len(s))
  BY SublistProperties
<1>2. PICK at : Picks(at, q, s, K, Len(s))
  BY <1>1
<1> HIDE DEF q
<1>3. DOMAIN s = 1 .. Len(s) /\ DOMAIN q = 1 .. Len(q) /\ Len(s) \in Nat /\ Len(q) \in Nat
  BY <1>1
<1>4. /\ \A i \in DOMAIN q : at[i] \in K /\ q[i] = s[at[i]]
      /\ \A i, j \in DOMAIN q : i < j => at[i] < at[j]
      /\ \A k \in K : \E i \in DOMAIN q : at[i] = k
  BY <1>2, <1>3 DEF Picks
<1>5. K \subseteq DOMAIN s /\ \A k \in DOMAIN s : k \in K <=> s[k] # ident
  OBVIOUS
<1> HIDE DEF K
<1>6. {q[k] : k \in DOMAIN q} = {s[k] : k \in DOMAIN s} \ {ident}
  BY <1>4, <1>5
<1>7. ASSUME IsInjective(s) PROVE IsInjective(q)
  <2>1. \A k, l \in DOMAIN s : s[k] = s[l] => k = l
    BY <1>7 DEF IsInjective
  <2>2. ASSUME NEW i \in DOMAIN q, NEW j \in DOMAIN q, q[i] = q[j] PROVE i = j
    <3>1. at[i] \in DOMAIN s /\ at[j] \in DOMAIN s /\ at[i] = at[j]
      BY <1>4, <1>5, <2>1, <2>2
    <3>2. i \in Nat /\ j \in Nat /\ at[i] \in Nat /\ at[j] \in Nat
      BY <1>3, <3>1
    <3>3. ~(i < j) /\ ~(j < i)
      BY <1>4, <3>1, <3>2
    <3> QED
      BY <3>2, <3>3
  <2> QED
    BY <2>2 DEF IsInjective
<1> QED
  BY <1>1, <1>6, <1>7 DEF q, K

(* killPlayer(): nobody is left who rides on him, follows him or lists him,*)
(* but for a second rider.                                                 *)
LEMMA KillPlayerIs ==
    ASSUME NEW b, Tidy(b), NEW id \in DOMAIN b.players
    PROVE  LET g     == KillPlayer(b, id)
               ident == b.players[id].ident
           IN  /\ Tidy(g)
               /\ DOMAIN g.players = DOMAIN b.players \ {ident}
               /\ Assigned(g) = Assigned(b) \ {ident}
               /\ Listed(g) = Listed(b) \ {ident}
               /\ IsInjective(b.playerIds) => IsInjective(g.playerIds)
               /\ \A k \in DOMAIN g.players :
                     /\ g.players[k].name = b.players[k].name
                     /\ g.players[k].spectator = b.players[k].spectator
                     /\ g.players[k].turretId = IF Shaken(Turrets(b), ident, k)
                                                THEN UnassignedId
                                                ELSE b.players[k].turretId
<1> DEFINE ident == b.players[id].ident
           u == Unfollow(b, ident)
           t == KillTurret(b, ident)
           w == KillTurret(u, ident)
           old == t.players
           p == [k \in DOMAIN old \ {ident} |-> old[k]]
           q == Sublist(b.playerIds, {k \in DOMAIN b.playerIds : b.playerIds[k] # ident})
           follow == IF b.follow = ident THEN UnassignedId ELSE b.follow
           owner == IF b.limitedOwnerId = ident THEN UnassignedId ELSE b.limitedOwnerId
           g == [b EXCEPT !.players = p, !.playerIds = q, !.follow = follow,
                          !.limitedOwnerId = owner]
<1>1. b \in Bot /\ b.playerIds \in Seq(Ids)
  BY BotIs DEF Tidy
<1>2. KillPlayer(b, id) = g
  <2>1. u = [b EXCEPT !.follow = follow, !.limitedOwnerId = owner]
    BY DEF Unfollow
  <2> HIDE DEF ident, follow, owner
  <2>2. /\ u.players = b.players /\ u.playerIds = b.playerIds
    BY <1>1, <2>1 DEF Bot
  <2>3. t = [b EXCEPT !.players = old] /\ w = [u EXCEPT !.players = old]
    <3> DEFINE riders == {k \in DOMAIN b.players : b.players[k].turretId = ident}
               new == [b.players EXCEPT ![Min(riders)].turretId = UnassignedId]
    <3> HIDE DEF u
    <3>1. /\ t = IF riders = {} THEN b ELSE [b EXCEPT !.players = new]
          /\ w = IF riders = {} THEN u ELSE [u EXCEPT !.players = new]
      BY <2>2 DEF KillTurret
    <3> HIDE DEF riders, new, t, w
    <3>2. /\ [b EXCEPT !.players = new].players = new
          /\ [b EXCEPT !.players = b.players] = b
      BY <1>1 DEF Bot
    <3>3. [u EXCEPT !.players = u.players] = u
      BY <1>1, <2>1 DEF Bot
    <3> QED
      BY <2>2, <3>1, <3>2, <3>3
  <2>4. w = [b EXCEPT !.follow = follow, !.limitedOwnerId = owner, !.players = old]
    <3> HIDE DEF old, w
    <3> QED
      BY <1>1, <2>1, <2>3 DEF Bot
  <2> DEFINE v == Unlist(w, ident)
  <2>5. KillPlayer(b, id) = [v EXCEPT !.players = [k \in DOMAIN @ \ {ident} |-> @[k]]]
    BY DEF KillPlayer, ident
  <2>6. v = [w EXCEPT !.playerIds = Sublist(@, {k \in DOMAIN @ : @[k] # ident})]
    BY DEF Unlist
  <2> HIDE DEF v, w, old, u, t
  <2>7. w.playerIds = b.playerIds /\ w.players = old
    BY <1>1, <2>4 DEF Bot
  <2>8. v = [w EXCEPT !.playerIds = q]
    BY <2>6, <2>7
  <2> HIDE DEF q
  <2>9. v.players = old
    BY <1>1, <2>4, <2>8 DEF Bot
  <2>10. KillPlayer(b, id) = [v EXCEPT !.players = p]
    BY <2>5, <2>9
  <2> HIDE DEF p
  <2> QED
    BY <1>1, <2>4, <2>8, <2>10 DEF Bot
<1>3. /\ ident \in Keys /\ follow \in Keys /\ owner \in Keys
  BY <1>1, BotIs, KeysAre DEF Player
<1>4. /\ Like(b, t, {}) /\ DOMAIN old = DOMAIN b.players
      /\ t.limitedOwnerId = b.limitedOwnerId /\ t.heir = b.heir
      /\ \A k \in DOMAIN b.players :
            /\ old[k].ident = b.players[k].ident
            /\ old[k].spectator = b.players[k].spectator
            /\ old[k].turretId = IF Shaken(Turrets(b), ident, k)
                                 THEN UnassignedId ELSE b.players[k].turretId
  <2> HIDE DEF ident
  <2> QED
    BY KillTurretIs
<1>5. /\ Tidy(t) /\ old \in [DOMAIN old -> Player] /\ DOMAIN old \subseteq Keys
      /\ \A k \in DOMAIN old : Entry(old[k], k)
      /\ Limits(old, b.limitedOwnerId, b.heir)
  BY <1>4, BotIs DEF Like, Tidy
<1>6. \A k \in DOMAIN old : old[k].name = b.players[k].name
  <2>1. \A k \in Assigned(b) : old[k].name = b.players[k].name
    BY <1>4 DEF Like
  <2>2. ASSUME NEW k \in DOMAIN old, k \notin Assigned(b) PROVE old[k].name = b.players[k].name
    <3>1. old[k].ident = UnassignedId /\ b.players[k].ident = UnassignedId
      BY <1>4, <2>2 DEF Assigned, IsAssigned
    <3>2. Entry(old[k], k) /\ Entry(b.players[k], k)
      BY <1>4, <1>5 DEF Tidy
    <3> QED
      BY <3>1, <3>2 DEF Entry
  <2> QED
    BY <2>1, <2>2
<1> DEFINE r == b.playerIds
<1>7. /\ q \in Seq(Ids)
      /\ {q[k] : k \in DOMAIN q} = {r[k] : k \in DOMAIN r} \ {ident}
      /\ IsInjective(r) => IsInjective(q)
  <2>1. r \in Seq(Ids)
    BY <1>1
  <2>2. q = Sublist(r, {k \in DOMAIN r : r[k] # ident})
    OBVIOUS
  <2> HIDE DEF r, ident, q
  <2> QED
    BY <2>1, <2>2, UnlistIs
<1> HIDE DEF t, u, w, q
<1>8. /\ DOMAIN p = DOMAIN old \ {ident} /\ \A k \in DOMAIN p : p[k] = old[k]
      /\ p \in [DOMAIN old \ {ident} -> Player]
  BY <1>5
<1> HIDE DEF p
<1>9. p \in Maps
  BY <1>5, <1>8, MapsAre
<1>10. /\ g \in Bot /\ g.players = p /\ g.playerIds = q /\ g.follow = follow
       /\ g.limitedOwnerId = owner /\ g.heir = b.heir
  <2> HIDE DEF follow, owner
  <2> QED
    BY <1>1, <1>3, <1>7, <1>9 DEF Bot, Maps
<1>11. Assigned(g) = Assigned(b) \ {ident}
  <2>1. \A k \in DOMAIN p : IsAssigned(p[k]) <=> IsAssigned(b.players[k])
    BY <1>4, <1>8 DEF IsAssigned
  <2> HIDE DEF ident, g
  <2> QED
    BY <1>4, <1>8, <1>10, <2>1 DEF Assigned
<1>12. Listed(g) = Listed(b) \ {ident}
  BY <1>7, <1>10 DEF Listed
<1>13. Limits(p, owner, b.heir)
  <2> SUFFICES ASSUME NEW k \in DOMAIN p, p[k].access = "Limited"
               PROVE  owner = k \/ p[k].name = b.heir
    BY DEF Limits
  <2>1. k # ident /\ (b.limitedOwnerId = k \/ p[k].name = b.heir)
    BY <1>5, <1>8 DEF Limits
  <2> QED
    BY <2>1
<1>14. /\ follow \in (Assigned(b) \ {ident}) \cup {UnassignedId}
       /\ owner \in (Assigned(b) \ {ident}) \cup {UnassignedId}
  BY DEF Tidy
<1>15. Tidy(g)
  <2>1. Listed(b) \subseteq DOMAIN b.players
    BY DEF Tidy
  <2>2. \A k \in DOMAIN p : Entry(p[k], k)
    BY <1>5, <1>8
  <2> HIDE DEF ident, g, follow, owner
  <2> QED
    BY <1>4, <1>8, <1>10, <1>11, <1>12, <1>13, <1>14, <2>1, <2>2 DEF Tidy
<1>16. \A k \in DOMAIN p :
          /\ p[k].name = b.players[k].name /\ p[k].spectator = b.players[k].spectator
          /\ p[k].turretId = IF Shaken(Turrets(b), ident, k)
                             THEN UnassignedId ELSE b.players[k].turretId
  BY <1>4, <1>6, <1>8
<1> HIDE DEF g
<1> QED
  BY <1>2, <1>4, <1>7, <1>8, <1>10, <1>11, <1>12, <1>15, <1>16

(* What handlePlayerEntering() does when nobody has the ident any more.    *)
Admitted(f, id, name, watching, onto) ==
    LET added == AddPlayer(f, id, [Dummy EXCEPT !.ident = id, !.name = name,
                                                !.spectator = watching])
        entry == added.players[id]
    IN  [added EXCEPT !.players[id] =
            [entry EXCEPT !.turretId = onto,
                          !.access = IF entry.name \in Operators
                                     THEN "Operator" ELSE entry.access]]

(* A new player is as he was announced, if getPlayer() has not made an     *)
(* entry for his ident.                                                    *)
LEMMA AdmittedIs ==
    ASSUME NEW f, Tidy(f), NEW id \in Ids, NEW name \in Names \cup {NoName},
           NEW watching \in BOOLEAN, NEW onto \in Keys, id \notin Assigned(f)
    PROVE  LET g == Admitted(f, id, name, watching, onto)
           IN  /\ Tidy(g)
               /\ DOMAIN g.players = DOMAIN f.players \cup {id}
               /\ Listed(g) = Listed(f) \cup {id}
               /\ IsInjective(f.playerIds) /\ id \notin Listed(f) => IsInjective(g.playerIds)
               /\ \A k \in DOMAIN f.players : k # id => g.players[k] = f.players[k]
               /\ id \notin DOMAIN f.players =>
                     /\ g.players[id].ident = id /\ g.players[id].name = name
                     /\ g.players[id].spectator = watching
                     /\ g.players[id].turretId = onto
<1> DEFINE new == [Dummy EXCEPT !.ident = id, !.name = name, !.spectator = watching]
           e == IF id \in DOMAIN f.players THEN f.players[id] ELSE new
           e2 == [e EXCEPT !.turretId = onto,
                           !.access = IF e.name \in Operators THEN "Operator" ELSE e.access]
           c == f.playerIds
           q == Append(c, id)
           added == AddPlayer(f, id, new)
           mid == [k \in DOMAIN f.players \cup {id} |-> IF k = id THEN e ELSE f.players[k]]
           p == [k \in DOMAIN f.players \cup {id} |-> IF k = id THEN e2 ELSE f.players[k]]
           g == [f EXCEPT !.players = p, !.playerIds = q]
<1>1. /\ f \in Bot /\ c \in Seq(Ids) /\ DOMAIN f.players \subseteq Keys
      /\ f.players \in [DOMAIN f.players -> Player]
      /\ \A k \in DOMAIN f.players : f.players[k] \in Player /\ Entry(f.players[k], k)
  BY BotIs DEF Tidy
<1>2. /\ new \in Player /\ new.ident = id /\ new.name = name /\ new.spectator = watching
      /\ new.turretId = UnassignedId /\ new.access = "Player"
  BY KeysAre DEF Dummy, Player
<1> HIDE DEF new
<1>3. e \in Player /\ e.access = "Player"
      /\ e.ident \in {id, UnassignedId}
      /\ (e.ident = UnassignedId => e.name = NoName)
  <2>1. CASE id \in DOMAIN f.players
    <3>1. f.players[id].ident = UnassignedId
      BY <2>1 DEF Assigned, IsAssigned
    <3> QED
      BY <1>1, <2>1, <3>1 DEF Entry
  <2>2. CASE id \notin DOMAIN f.players
    BY <1>2, <2>2, KeysAre
  <2> QED
    BY <2>1, <2>2
<1> DEFINE fresh == id \notin DOMAIN f.players
<1>4. fresh => e = new
  OBVIOUS
<1>5. Admitted(f, id, name, watching, onto) = g
  <2>1. added = [f EXCEPT !.players = mid, !.playerIds = q]
    <3>1. CASE id \in DOMAIN f.players
      <4>1. DOMAIN f.players \cup {id} = DOMAIN f.players
        BY <3>1
      <4>2. \A k \in DOMAIN f.players : mid[k] = f.players[k]
        BY <3>1
      <4>3. f.players = mid
        BY <1>1, <4>1, <4>2
      <4>4. added = [f EXCEPT !.playerIds = q]
        BY <3>1 DEF AddPlayer
      <4> HIDE DEF mid, q, added
      <4> QED
        BY <1>1, <4>3, <4>4 DEF Bot
    <3>2. CASE id \notin DOMAIN f.players
      <4>1. e = new
        BY <3>2
      <4>2. mid = [k \in DOMAIN f.players \cup {id} |-> IF k = id THEN new ELSE f.players[k]]
        BY <4>1
      <4>3. With(f, id, new) = [f EXCEPT !.players = mid]
        BY <4>2 DEF With
      <4> HIDE DEF mid
      <4>4. [f EXCEPT !.players = mid].playerIds = c
        BY <1>1 DEF Bot
      <4>5. added = [[f EXCEPT !.players = mid] EXCEPT !.playerIds = Append(@, id)]
        BY <3>2, <4>3 DEF AddPlayer
      <4> QED
        BY <1>1, <4>4, <4>5 DEF Bot
    <3> QED
      BY <3>1, <3>2
  <2>2. mid[id] = e /\ DOMAIN mid = DOMAIN f.players \cup {id}
        /\ \A k \in DOMAIN mid : k # id => mid[k] = f.players[k]
    OBVIOUS
  <2> HIDE DEF mid, q, added, e
  <2>3. added.players = mid
    BY <1>1, <2>1 DEF Bot
  <2>4. p = [mid EXCEPT ![id] = e2]
    <3>1. DOMAIN mid = DOMAIN [mid EXCEPT ![id] = e2]
      OBVIOUS
    <3> DEFINE m2 == [mid EXCEPT ![id] = e2]
    <3>2. \A k \in DOMAIN mid : m2[k] = IF k = id THEN e2 ELSE mid[k]
      BY <2>2
    <3>3. m2 = [k \in DOMAIN mid |-> m2[k]]
      OBVIOUS
    <3> HIDE DEF e2, m2
    <3>4. p = [k \in DOMAIN mid |-> m2[k]]
      BY <2>2, <3>2
    <3> QED
      BY <3>3, <3>4 DEF m2
  <2>5. Admitted(f, id, name, watching, onto)
          = [added EXCEPT !.players = [mid EXCEPT ![id] = e2]]
    <3> DEFINE x == added.players[id]
               e3 == [x EXCEPT !.turretId = onto,
                               !.access = IF x.name \in Operators
                                          THEN "Operator" ELSE x.access]
    <3>1. Admitted(f, id, name, watching, onto) = [added EXCEPT !.players[id] = e3]
      BY DEF Admitted, new, added
    <3>2. x = e
      BY <2>2, <2>3
    <3>3. e3 = e2
      <4> HIDE DEF x
      <4> QED
        BY <3>2
    <3> HIDE DEF e3, e2
    <3> QED
      BY <2>3, <3>1, <3>3
  <2> HIDE DEF e2, p
  <2> QED
    BY <1>1, <2>1, <2>4, <2>5 DEF Bot
<1>6. /\ q \in Seq(Ids) /\ {q[k] : k \in DOMAIN q} = {c[k] : k \in DOMAIN c} \cup {id}
      /\ IsInjective(c) /\ id \notin {c[k] : k \in DOMAIN c} => IsInjective(q)
  <2>1. Len(c) \in Nat /\ DOMAIN c = 1 .. Len(c) /\ c \in Seq(Ids)
    BY <1>1
  <2> HIDE DEF c
  <2>2. /\ q \in Seq(Ids) /\ DOMAIN q = 1 .. Len(c) + 1 /\ q[Len(c) + 1] = id
        /\ \A k \in 1 .. Len(c) : q[k] = c[k]
    BY <2>1, AppendProperties
  <2>3. \A k \in 1 .. Len(c) + 1 : k \in 1 .. Len(c) \/ k = Len(c) + 1
    BY <2>1
  <2>4. 1 .. Len(c) \subseteq 1 .. Len(c) + 1 /\ Len(c) + 1 \in 1 .. Len(c) + 1
    BY <2>1
  <2> HIDE DEF q
  <2>5. {q[k] : k \in DOMAIN q} = {c[k] : k \in DOMAIN c} \cup {id}
    BY <2>1, <2>2, <2>3, <2>4
  <2>6. ASSUME IsInjective(c), id \notin {c[k] : k \in DOMAIN c} PROVE IsInjective(q)
    <3>1. \A k, l \in DOMAIN c : c[k] = c[l] => k = l
      BY <2>6 DEF IsInjective
    <3>2. \A k, l \in DOMAIN q : q[k] = q[l] => k = l
      BY <2>1, <2>2, <2>3, <2>6, <3>1
    <3> QED
      BY <3>2 DEF IsInjective
  <2> QED
    BY <2>2, <2>5, <2>6
<1>7. /\ Entry(e2, id) /\ e2.ident = e.ident /\ e2.name = e.name
      /\ e2.turretId = onto /\ e2.spectator = e.spectator
      /\ e2.access # "Limited"
  <2>1. /\ e2 \in Player /\ e2.ident = e.ident /\ e2.name = e.name
        /\ e2.turretId = onto /\ e2.spectator = e.spectator
        /\ e2.access = IF e.name \in Operators THEN "Operator" ELSE "Player"
    <3> HIDE DEF e
    <3> QED
      BY <1>3, KeysAre DEF Player
  <2>2. NoName \notin Operators
    BY ConstantsAssumption
  <2> HIDE DEF e, e2
  <2> QED
    BY <1>3, <2>1, <2>2, KeysAre DEF Entry
<1> HIDE DEF e2
<1>8. /\ DOMAIN p = DOMAIN f.players \cup {id} /\ p[id] = e2
      /\ \A k \in DOMAIN f.players : k # id => p[k] = f.players[k]
      /\ p \in [DOMAIN f.players \cup {id} -> Player]
  BY <1>1, <1>7 DEF Entry
<1> HIDE DEF p
<1>9. p \in Maps
  BY <1>1, <1>8, KeysAre, MapsAre
<1> HIDE DEF q
<1>10. /\ g \in Bot /\ g.players = p /\ g.playerIds = q /\ g.follow = f.follow
       /\ g.limitedOwnerId = f.limitedOwnerId /\ g.heir = f.heir
  BY <1>1, <1>6, <1>9 DEF Bot, Maps
<1> HIDE DEF g
<1>11. Listed(g) = Listed(f) \cup {id}
  BY <1>6, <1>10 DEF Listed
<1>12. Assigned(f) \subseteq Assigned(g)
  BY <1>8, <1>10 DEF Assigned
<1>13. Limits(p, f.limitedOwnerId, f.heir)
  <2>1. Limits(f.players, f.limitedOwnerId, f.heir)
    BY DEF Tidy
  <2> QED
    BY <1>7, <1>8, <2>1 DEF Limits
<1>14. \A k \in DOMAIN p : Entry(p[k], k)
  BY <1>1, <1>7, <1>8
<1>15. Tidy(g)
  BY <1>8, <1>10, <1>11, <1>12, <1>13, <1>14 DEF Tidy
<1>16. fresh => /\ p[id].ident = id /\ p[id].name = name
                /\ p[id].spectator = watching /\ p[id].turretId = onto
  BY <1>2, <1>4, <1>7, <1>8
<1> QED
  BY <1>5, <1>6, <1>8, <1>10, <1>11, <1>15, <1>16 DEF Listed

(* A bot with other players, and nobody more or less on the list.          *)
Altered(b, p, follow, owner, allow, heir) ==
    [players |-> p, playerIds |-> b.playerIds, follow |-> follow,
     limitedOwnerId |-> owner, allowLimited |-> allow, heir |-> heir]

(* Other players, and one part more that is different.                     *)
LEMMA AlteredParts ==
    ASSUME NEW b \in Bot, NEW p, NEW x
    PROVE  LET g == [b EXCEPT !.players = p]
           IN  /\ g = Altered(b, p, b.follow, b.limitedOwnerId, b.allowLimited, b.heir)
               /\ [g EXCEPT !.follow = x]
                     = Altered(b, p, x, b.limitedOwnerId, b.allowLimited, b.heir)
               /\ [g EXCEPT !.limitedOwnerId = x]
                     = Altered(b, p, b.follow, x, b.allowLimited, b.heir)
<1> DEFINE g == [b EXCEPT !.players = p]
<1>1. g = Altered(b, p, b.follow, b.limitedOwnerId, b.allowLimited, b.heir)
  BY DEF Bot, Altered
<1>2. [g EXCEPT !.follow = x]
        = Altered(b, p, x, b.limitedOwnerId, b.allowLimited, b.heir)
  <2> HIDE DEF g
  <2> QED
    BY <1>1 DEF Altered
<1>3. [g EXCEPT !.limitedOwnerId = x]
        = Altered(b, p, b.follow, x, b.allowLimited, b.heir)
  <2> HIDE DEF g
  <2> QED
    BY <1>1 DEF Altered
<1> QED
  BY <1>1, <1>2, <1>3

(* Other players, and another heir.                                        *)
LEMMA HeirSet ==
    ASSUME NEW b \in Bot, NEW p, NEW x
    PROVE  [[b EXCEPT !.players = p] EXCEPT !.heir = x]
             = Altered(b, p, b.follow, b.limitedOwnerId, b.allowLimited, x)
<1> DEFINE g == [b EXCEPT !.players = p]
<1>1. g = Altered(b, p, b.follow, b.limitedOwnerId, b.allowLimited, b.heir)
  BY DEF Bot, Altered
<1> HIDE DEF g
<1>2. [g EXCEPT !.heir = x]
        = Altered(b, p, b.follow, b.limitedOwnerId, b.allowLimited, x)
  BY <1>1 DEF Altered
<1> QED
  BY <1>2 DEF g

(* Nobody comes or goes when the entries change within what they may be.   *)
LEMMA AlteredIs ==
    ASSUME NEW b, Tidy(b), NEW p \in [DOMAIN b.players -> Player],
           \A k \in DOMAIN b.players : /\ Entry(p[k], k)
                                      /\ p[k].ident = b.players[k].ident
                                      /\ p[k].name = b.players[k].name,
           NEW follow \in Assigned(b) \cup {UnassignedId},
           NEW owner \in Assigned(b) \cup {UnassignedId},
           NEW allow \in BOOLEAN, NEW heir \in Names \cup {NoName},
           Limits(p, owner, heir)
    PROVE  Like(b, Altered(b, p, follow, owner, allow, heir), {})
<1> DEFINE g == Altered(b, p, follow, owner, allow, heir)
<1>1. /\ b \in Bot /\ b.playerIds \in Seq(Ids) /\ DOMAIN b.players \subseteq Keys
      /\ DOMAIN p = DOMAIN b.players
  BY BotIs DEF Tidy
<1>2. p \in Maps /\ follow \in Keys /\ owner \in Keys
  BY <1>1, MapsAre, KeysAre DEF Assigned
<1>3. /\ g \in Bot /\ g.players = p /\ g.playerIds = b.playerIds /\ g.follow = follow
      /\ g.limitedOwnerId = owner /\ g.heir = heir
  BY <1>1, <1>2 DEF Altered, Bot, Maps
<1> HIDE DEF g
<1>4. Like(b, g, {})
  BY <1>1, <1>3, TidyMade
<1> QED
  BY <1>4 DEF g

(* What may become of an entry: q, with whom the bot follows and who owns it.*)
Allowed(b, id, q, follow, owner, heir) ==
    /\ Tidy(b) /\ id \in Assigned(b) /\ Entry(q, id)
    /\ q.ident = b.players[id].ident /\ q.name = b.players[id].name
    /\ follow \in Assigned(b) \cup {UnassignedId}
    /\ owner \in Assigned(b) \cup {UnassignedId}
    /\ heir \in Names \cup {NoName}
    /\ q.access = "Limited" => owner = id \/ q.name = heir
    /\ \A k \in DOMAIN b.players :
          k # id /\ b.players[k].access = "Limited" =>
             owner = k \/ b.players[k].name = heir

(* A bot with another entry under id.                                      *)
EntrySet(b, id, q, follow, owner, heir) ==
    Altered(b, [b.players EXCEPT ![id] = q], follow, owner, b.allowLimited, heir)

(* One entry changes, perhaps with the powers it may have.                 *)
LEMMA EntrySetIs ==
    ASSUME NEW b, NEW id, NEW q, NEW follow, NEW owner, NEW heir,
           Allowed(b, id, q, follow, owner, heir)
    PROVE  LET g == EntrySet(b, id, q, follow, owner, heir)
           IN  /\ Like(b, g, {})
               /\ g.players[id] = q
               /\ \A k \in DOMAIN b.players : k # id => g.players[k] = b.players[k]
<1> DEFINE p == [b.players EXCEPT ![id] = q]
           g == Altered(b, p, follow, owner, b.allowLimited, heir)
<1>1. /\ b \in Bot /\ b.players \in [DOMAIN b.players -> Player]
      /\ b.allowLimited \in BOOLEAN /\ id \in DOMAIN b.players
      /\ Tidy(b) /\ \A k \in DOMAIN b.players : Entry(b.players[k], k)
  BY BotIs DEF Tidy, Assigned, Allowed
<1>2. /\ p \in [DOMAIN b.players -> Player] /\ p[id] = q
      /\ \A k \in DOMAIN b.players : k # id => p[k] = b.players[k]
  BY <1>1 DEF Entry, Allowed
<1>3. g.players = p
  BY DEF Altered
<1> HIDE DEF p
<1>4. Limits(p, owner, heir)
  BY <1>2 DEF Limits, Allowed
<1>5. Like(b, g, {})
  BY <1>1, <1>2, <1>4, AlteredIs DEF Allowed
<1>6. EntrySet(b, id, q, follow, owner, heir) = g
  BY DEF EntrySet, p
<1> HIDE DEF g
<1> QED
  BY <1>2, <1>3, <1>5, <1>6

(* What every change of an entry starts from.                              *)
LEMMA EntryIs ==
    ASSUME NEW b, Tidy(b), NEW id \in Assigned(b)
    PROVE  /\ b \in Bot /\ id \in DOMAIN b.players /\ id \in Ids
           /\ b.players[id] \in Player /\ Entry(b.players[id], id)
           /\ b.players[id].ident = id /\ b.heir \in Names \cup {NoName}
           /\ b.follow \in Assigned(b) \cup {UnassignedId}
           /\ b.limitedOwnerId \in Assigned(b) \cup {UnassignedId}
           /\ \A k \in DOMAIN b.players :
                 b.players[k].access = "Limited" =>
                    b.limitedOwnerId = k \/ b.players[k].name = b.heir
<1>1. /\ b \in Bot /\ id \in DOMAIN b.players /\ b.players[id].ident # UnassignedId
      /\ DOMAIN b.players \subseteq Keys /\ b.players[id] \in Player
      /\ b.heir \in Names \cup {NoName}
  BY BotIs DEF Tidy, Assigned, IsAssigned
<1>2. Entry(b.players[id], id)
  BY <1>1 DEF Tidy
<1>3. b.players[id].ident = id /\ id \in Ids
  BY <1>1, <1>2, KeysAre DEF Entry, Keys
<1> QED
  BY <1>1, <1>2, <1>3 DEF Tidy, Limits

(* A player watches or plays from now on.                                  *)
Shown(b, id, watching, follow) ==
    [b EXCEPT !.players[id].spectator = watching, !.follow = follow]

(* A player rides on another one, or on nobody.                            *)
Mounted(b, id, onto) == [b EXCEPT !.players[id].turretId = onto]

(* A player changes his ship: the bot may let go of him.                   *)
LEMMA WatchingIs ==
    ASSUME NEW b, Tidy(b), NEW id \in Assigned(b), NEW watching \in BOOLEAN,
           NEW follow \in {b.follow, UnassignedId}
    PROVE  LET g == Shown(b, id, watching, follow)
           IN  /\ Like(b, g, {})
               /\ g.players[id].spectator = watching
               /\ g.players[id].turretId = b.players[id].turretId
               /\ \A k \in DOMAIN b.players : k # id => g.players[k] = b.players[k]
<1> DEFINE e == b.players[id]
           q == [e EXCEPT !.spectator = watching]
           p == [b.players EXCEPT ![id] = q]
           g == [b EXCEPT !.players[id].spectator = watching, !.follow = follow]
           f == EntrySet(b, id, q, follow, b.limitedOwnerId, b.heir)
<1>1. /\ b \in Bot /\ id \in DOMAIN b.players /\ e \in Player /\ Entry(e, id)
      /\ b.heir \in Names \cup {NoName}
      /\ follow \in Assigned(b) \cup {UnassignedId}
      /\ b.limitedOwnerId \in Assigned(b) \cup {UnassignedId}
      /\ \A k \in DOMAIN b.players :
            b.players[k].access = "Limited" =>
               b.limitedOwnerId = k \/ b.players[k].name = b.heir
  BY EntryIs
<1>2. g = f
  <2>1. [b EXCEPT !.players[id].spectator = watching] = [b EXCEPT !.players = p]
    OBVIOUS
  <2>2. g = [[b EXCEPT !.players[id].spectator = watching] EXCEPT !.follow = follow]
    OBVIOUS
  <2> HIDE DEF p, g
  <2> QED
    BY <1>1, <2>1, <2>2 DEF Bot, Altered, EntrySet, p
<1>3. /\ q \in Player /\ q.ident = e.ident /\ q.name = e.name /\ q.access = e.access
      /\ q.spectator = watching /\ q.turretId = e.turretId
  BY <1>1 DEF Player
<1> HIDE DEF q
<1>4. Entry(q, id)
  BY <1>1, <1>3 DEF Entry
<1>5. Allowed(b, id, q, follow, b.limitedOwnerId, b.heir)
  BY <1>1, <1>3, <1>4 DEF Allowed
<1>6. /\ Like(b, f, {}) /\ f.players[id] = q
      /\ \A k \in DOMAIN b.players : k # id => f.players[k] = b.players[k]
  BY <1>5, EntrySetIs
<1> HIDE DEF f
<1> QED
  BY <1>2, <1>3, <1>6 DEF Shown

(* A player mounts another, or lets go.                                    *)
LEMMA MountIs ==
    ASSUME NEW b, Tidy(b), NEW id \in Assigned(b), NEW onto \in Keys
    PROVE  LET g == Mounted(b, id, onto)
           IN  /\ Like(b, g, {})
               /\ g.players[id].spectator = b.players[id].spectator
               /\ g.players[id].turretId = onto
               /\ \A k \in DOMAIN b.players : k # id => g.players[k] = b.players[k]
<1> DEFINE e == b.players[id]
           q == [e EXCEPT !.turretId = onto]
           g == [b EXCEPT !.players[id].turretId = onto]
           f == EntrySet(b, id, q, b.follow, b.limitedOwnerId, b.heir)
<1>1. /\ b \in Bot /\ id \in DOMAIN b.players /\ e \in Player /\ Entry(e, id)
      /\ e.ident = id /\ id \in Ids
      /\ b.heir \in Names \cup {NoName}
      /\ b.follow \in Assigned(b) \cup {UnassignedId}
      /\ b.limitedOwnerId \in Assigned(b) \cup {UnassignedId}
      /\ \A k \in DOMAIN b.players :
            b.players[k].access = "Limited" =>
               b.limitedOwnerId = k \/ b.players[k].name = b.heir
  BY EntryIs
<1>2. g = f
  BY <1>1 DEF Bot, Altered, EntrySet
<1>3. /\ q \in Player /\ q.ident = e.ident /\ q.name = e.name /\ q.access = e.access
      /\ q.spectator = e.spectator /\ q.turretId = onto
  BY <1>1 DEF Player
<1> HIDE DEF q
<1>4. Entry(q, id)
  BY <1>1, <1>3, KeysAre DEF Entry
<1>5. Allowed(b, id, q, b.follow, b.limitedOwnerId, b.heir)
  BY <1>1, <1>3, <1>4 DEF Allowed
<1>6. /\ Like(b, f, {}) /\ f.players[id] = q
      /\ \A k \in DOMAIN b.players : k # id => f.players[k] = b.players[k]
  BY <1>5, EntrySetIs
<1> HIDE DEF f
<1> QED
  BY <1>2, <1>3, <1>6 DEF Mounted

(* A player is given powers, or loses them.                                *)
LEMMA PowersAre ==
    ASSUME NEW b, Tidy(b), NEW id \in Assigned(b),
           NEW access \in {"Player", "Limited", "Operator"},
           access = "Operator" => b.players[id].name \in Operators,
           NEW owner \in Assigned(b) \cup {UnassignedId}, NEW heir \in Names \cup {NoName},
           access = "Limited" => owner = id \/ b.players[id].name = heir,
           \A k \in DOMAIN b.players :
              k # id /\ b.players[k].access = "Limited" =>
                 owner = k \/ b.players[k].name = heir
    PROVE  LET q == [b.players[id] EXCEPT !.access = access]
               g == EntrySet(b, id, q, b.follow, owner, heir)
           IN  Like(b, g, {}) /\ Quiet(b, g)
<1> DEFINE e == b.players[id]
           q == [e EXCEPT !.access = access]
           g == EntrySet(b, id, q, b.follow, owner, heir)
<1>1. /\ id \in DOMAIN b.players /\ e \in Player /\ Entry(e, id) /\ e.ident = id /\ id \in Ids
      /\ b.follow \in Assigned(b) \cup {UnassignedId}
  BY EntryIs
<1>2. /\ q \in Player /\ q.ident = e.ident /\ q.name = e.name /\ q.access = access
      /\ q.spectator = e.spectator /\ q.turretId = e.turretId
  BY <1>1 DEF Player
<1> HIDE DEF q
<1>3. Entry(q, id)
  BY <1>1, <1>2, KeysAre DEF Entry
<1>4. Allowed(b, id, q, b.follow, owner, heir)
  BY <1>1, <1>2, <1>3 DEF Allowed
<1>5. /\ Like(b, g, {}) /\ g.players[id] = q
      /\ \A k \in DOMAIN b.players : k # id => g.players[k] = b.players[k]
  BY <1>4, EntrySetIs
<1> HIDE DEF g
<1>6. Quiet(b, g)
  BY <1>2, <1>5 DEF Quiet, Assigned
<1> QED
  BY <1>5, <1>6 DEF g, q

(* !give and !ownbot take the powers of everybody back.                    *)
LEMMA RevokedIs ==
    ASSUME NEW b, Tidy(b), NEW owner \in Assigned(b) \cup {UnassignedId},
           NEW allow \in BOOLEAN
    PROVE  LET p == [k \in DOMAIN b.players |->
                        IF b.players[k].access = "Limited"
                        THEN [b.players[k] EXCEPT !.access = "Player"] ELSE b.players[k]]
               g == Altered(b, p, b.follow, owner, allow, b.heir)
           IN  /\ Like(b, g, {}) /\ Quiet(b, g)
               /\ \A k \in DOMAIN g.players : g.players[k].access # "Limited"
<1> DEFINE new(k) == IF b.players[k].access = "Limited"
                     THEN [b.players[k] EXCEPT !.access = "Player"] ELSE b.players[k]
           p == [k \in DOMAIN b.players |-> new(k)]
           g == Altered(b, p, b.follow, owner, allow, b.heir)
<1>1. /\ b \in Bot /\ b.heir \in Names \cup {NoName}
      /\ b.follow \in Assigned(b) \cup {UnassignedId}
      /\ \A k \in DOMAIN b.players : b.players[k] \in Player /\ Entry(b.players[k], k)
  BY BotIs DEF Tidy
<1>2. ASSUME NEW k \in DOMAIN b.players
      PROVE  /\ new(k) \in Player /\ Entry(new(k), k)
             /\ new(k).ident = b.players[k].ident /\ new(k).name = b.players[k].name
             /\ new(k).spectator = b.players[k].spectator
             /\ new(k).turretId = b.players[k].turretId
             /\ new(k).access # "Limited"
  <2> DEFINE e == b.players[k]
             q == [e EXCEPT !.access = "Player"]
  <2>1. e \in Player /\ Entry(e, k)
    BY <1>1
  <2>2. /\ q \in Player /\ q.ident = e.ident /\ q.name = e.name /\ q.access = "Player"
        /\ q.spectator = e.spectator /\ q.turretId = e.turretId
    BY <2>1 DEF Player
  <2> HIDE DEF q
  <2>3. Entry(q, k)
    BY <2>1, <2>2 DEF Entry
  <2>4. new(k) = IF e.access = "Limited" THEN q ELSE e
    BY DEF q
  <2> HIDE DEF new
  <2> QED
    BY <2>1, <2>2, <2>3, <2>4
<1> HIDE DEF new
<1>3. /\ p \in [DOMAIN b.players -> Player] /\ DOMAIN p = DOMAIN b.players
      /\ \A k \in DOMAIN b.players : p[k] = new(k)
  BY <1>2
<1>4. g.players = p
  BY DEF Altered
<1> HIDE DEF p
<1>5. Limits(p, owner, b.heir)
  BY <1>2, <1>3 DEF Limits
<1> DEFINE follow == b.follow
           heir == b.heir
<1>6. Like(b, g, {})
  <2>1. follow \in Assigned(b) \cup {UnassignedId} /\ heir \in Names \cup {NoName}
        /\ Limits(p, owner, heir) /\ g = Altered(b, p, follow, owner, allow, heir)
    BY <1>1, <1>5
  <2> HIDE DEF follow, heir, g
  <2> QED
    BY <1>2, <1>3, <2>1, AlteredIs
<1>7. Quiet(b, g)
  BY <1>2, <1>3, <1>4 DEF Quiet, Assigned
<1>8. \A k \in DOMAIN g.players : g.players[k].access # "Limited"
  BY <1>2, <1>3, <1>4
<1> QED
  BY <1>6, <1>7, <1>8 DEF p, new

(* findPlayer() finds a player of that name, or nobody.                    *)
LEMMA FindPlayerIs ==
    ASSUME NEW b, Tidy(b), NEW name
    PROVE  LET to == FindPlayer(b, name)
           IN  /\ to \in Keys
               /\ \/ to \in DOMAIN b.players /\ b.players[to].name = name
                  \/ to = UnassignedId
<1> DEFINE found == {k \in DOMAIN b.players : b.players[k].name = name}
<1>1. DOMAIN b.players \subseteq Keys
  BY BotIs DEF Tidy
<1>2. found \in SUBSET Nat /\ found \subseteq Keys
  BY <1>1, KeysAre
<1>3. found # {} => Min(found) \in found
  BY <1>2, MinIs
<1>4. FindPlayer(b, name) = IF found = {} THEN UnassignedId ELSE Min(found)
  BY DEF FindPlayer
<1> QED
  BY <1>2, <1>3, <1>4, KeysAre

(* An entry for 0xFFFF is of nobody.                                       *)
LEMMA NobodyIs == ASSUME NEW b, Tidy(b) PROVE UnassignedId \notin Assigned(b)
BY DEF Tidy, Entry, Assigned, IsAssigned

(* !own                                                                    *)
LEMMA OwnIs ==
    ASSUME NEW b, Tidy(b), NEW id \in Assigned(b)
    PROVE  Like(b, Own(b, id), {UnassignedId}) /\ Quiet(b, Own(b, id))
<1> DEFINE owner == b.limitedOwnerId
           g == GetPlayer(b, owner)
           q == [g.players[id] EXCEPT !.access = "Limited"]
           f == EntrySet(g, id, q, g.follow, id, g.heir)
<1>1. owner \in Assigned(b) \cup {UnassignedId} /\ owner \in Keys
  BY EntryIs, BotIs DEF Tidy
<1>2. /\ Like(b, g, {owner}) /\ Quiet(b, g) /\ Tidy(g)
      /\ g.limitedOwnerId = owner /\ owner \in DOMAIN g.players
      /\ DOMAIN g.players \subseteq DOMAIN b.players \cup {UnassignedId}
      /\ \A k \in DOMAIN b.players : g.players[k] = b.players[k]
  <2>1. Assigned(b) \subseteq DOMAIN b.players
    BY DEF Assigned
  <2> QED
    BY <1>1, <2>1, GetPlayerIs DEF Like
<1>3. Like(b, g, {UnassignedId}) /\ id \in Assigned(g)
  BY <1>2 DEF Like
<1>4. CASE /\ b.allowLimited /\ ~IsAssigned(g.players[owner])
           /\ b.players[id].access = "Player"
  <2>1. Own(b, id) = [g EXCEPT !.players[id].access = "Limited", !.limitedOwnerId = id]
    BY <1>4 DEF Own
  <2> HIDE DEF g
  <2>2. /\ g \in Bot /\ id \in DOMAIN g.players /\ g.heir \in Names \cup {NoName}
        /\ \A k \in DOMAIN g.players :
              g.players[k].access = "Limited" =>
                 g.limitedOwnerId = k \/ g.players[k].name = g.heir
    BY <1>2, <1>3, EntryIs
  <2>3. [g EXCEPT !.players[id].access = "Limited", !.limitedOwnerId = id] = f
    <3> DEFINE p == [g.players EXCEPT ![id] = q]
    <3>1. [g EXCEPT !.players[id].access = "Limited"] = [g EXCEPT !.players = p]
      OBVIOUS
    <3>2. [g EXCEPT !.players[id].access = "Limited", !.limitedOwnerId = id]
            = [[g EXCEPT !.players[id].access = "Limited"] EXCEPT !.limitedOwnerId = id]
      OBVIOUS
    <3>3. f = Altered(g, p, g.follow, id, g.allowLimited, g.heir)
      BY DEF EntrySet
    <3> HIDE DEF p, f
    <3> DEFINE h == [g EXCEPT !.players[id].access = "Limited"]
    <3>4. [[g EXCEPT !.players = p] EXCEPT !.limitedOwnerId = id]
            = Altered(g, p, g.follow, id, g.allowLimited, g.heir)
      BY <2>2, AlteredParts
    <3>5. h = [g EXCEPT !.players = p]
      BY <3>1
    <3> HIDE DEF h
    <3>6. [h EXCEPT !.limitedOwnerId = id] = f
      BY <3>3, <3>4, <3>5
    <3> QED
      BY <3>2, <3>6 DEF h
  <2>4. Entry(g.players[owner], owner)
    BY <1>2 DEF Tidy
  <2>5. g.players[owner].access = "Player"
    BY <1>4, <2>4 DEF Entry, IsAssigned
  <2> DEFINE heir == g.heir
  <2>6. /\ heir \in Names \cup {NoName}
        /\ \A k \in DOMAIN g.players :
              k # id /\ g.players[k].access = "Limited" =>
                 id = k \/ g.players[k].name = heir
    BY <1>2, <2>2, <2>5
  <2>7. f = EntrySet(g, id, q, g.follow, id, heir)
    OBVIOUS
  <2> HIDE DEF heir
  <2>8. /\ Like(g, EntrySet(g, id, q, g.follow, id, heir), {})
        /\ Quiet(g, EntrySet(g, id, q, g.follow, id, heir))
    BY <1>2, <1>3, <2>6, PowersAre
  <2> HIDE DEF f
  <2>9. Like(g, f, {}) /\ Quiet(g, f)
    BY <2>7, <2>8
  <2>10. Like(b, f, {UnassignedId} \cup {}) /\ Quiet(b, f)
    BY <1>2, <1>3, <2>9, LikeTwice
  <2> QED
    BY <2>1, <2>3, <2>10
<1>5. CASE ~(/\ b.allowLimited /\ ~IsAssigned(g.players[owner])
             /\ b.players[id].access = "Player")
  <2>1. Own(b, id) = IF b.allowLimited THEN g ELSE b
    BY <1>5 DEF Own
  <2> HIDE DEF g
  <2> QED
    BY <1>2, <1>3, <2>1, LikeSame
<1> QED
  BY <1>4, <1>5

(* !give: the new owner is told apart by his name.                         *)
LEMMA GiveIs ==
    ASSUME NEW b, Tidy(b), NEW id \in Assigned(b), NEW name \in Names \cup {NoName}
    PROVE  Like(b, Give(b, id, name), {UnassignedId}) /\ Quiet(b, Give(b, id, name))
<1> DEFINE p == [k \in DOMAIN b.players |->
                    IF b.players[k].access = "Limited"
                    THEN [b.players[k] EXCEPT !.access = "Player"] ELSE b.players[k]]
           free == [RevokeLimited(b) EXCEPT !.limitedOwnerId = UnassignedId]
           a == Altered(b, p, b.follow, UnassignedId, b.allowLimited, b.heir)
           to == FindPlayer(free, name)
           g == GetPlayer(free, to)
           q == [g.players[to] EXCEPT !.access = "Limited"]
           f == EntrySet(g, to, q, g.follow, g.limitedOwnerId, name)
           n == [g EXCEPT !.heir = NoName]
<1>1. b \in Bot /\ b.allowLimited \in BOOLEAN
  BY BotIs DEF Tidy
<1>2. free = a
  <2>1. RevokeLimited(b) = [b EXCEPT !.players = p]
    BY DEF RevokeLimited
  <2> HIDE DEF p
  <2>2. free = [[b EXCEPT !.players = p] EXCEPT !.limitedOwnerId = UnassignedId]
    BY <2>1
  <2> HIDE DEF free
  <2> QED
    BY <1>1, <2>2, AlteredParts
<1>3. /\ Like(b, a, {}) /\ Quiet(b, a)
      /\ \A k \in DOMAIN a.players : a.players[k].access # "Limited"
  <2> DEFINE allow == b.allowLimited
  <2> HIDE DEF allow
  <2>1. LET c == Altered(b, p, b.follow, UnassignedId, allow, b.heir)
        IN  /\ Like(b, c, {}) /\ Quiet(b, c)
            /\ \A k \in DOMAIN c.players : c.players[k].access # "Limited"
    BY <1>1, RevokedIs DEF allow
  <2> QED
    BY <2>1 DEF allow
<1> HIDE DEF a, free
<1>4. /\ Like(b, free, {}) /\ Quiet(b, free) /\ Tidy(free)
      /\ \A k \in DOMAIN free.players : free.players[k].access # "Limited"
  BY <1>2, <1>3 DEF Like
<1>5. /\ to \in Keys
      /\ \/ to \in DOMAIN free.players /\ free.players[to].name = name
         \/ to = UnassignedId
  BY <1>4, FindPlayerIs
<1> HIDE DEF to
<1>6. /\ Like(free, g, {to}) /\ Quiet(free, g) /\ Tidy(g) /\ to \in DOMAIN g.players
      /\ DOMAIN g.players = DOMAIN free.players \cup {to}
      /\ \A k \in DOMAIN free.players : g.players[k] = free.players[k]
  BY <1>4, <1>5, GetPlayerIs DEF Like
<1>7. Like(b, g, {UnassignedId}) /\ Quiet(b, g)
  <2>1. Like(b, g, {} \cup {to}) /\ Quiet(b, g)
    BY <1>4, <1>6, LikeTwice
  <2>2. DOMAIN g.players \subseteq DOMAIN b.players \cup {UnassignedId}
    BY <1>4, <1>5, <1>6 DEF Like
  <2> QED
    BY <2>1, <2>2 DEF Like
<1>8. \A k \in DOMAIN g.players : g.players[k].access # "Limited"
  <2>1. ASSUME to \notin DOMAIN free.players PROVE g.players[to].access # "Limited"
    <3>1. to = UnassignedId /\ Entry(g.players[to], to)
      BY <1>5, <1>6, <2>1 DEF Tidy
    <3> QED
      BY <3>1 DEF Entry
  <2> QED
    BY <1>4, <1>6, <2>1
<1> HIDE DEF g
<1>9. /\ g \in Bot /\ g.limitedOwnerId \in Assigned(g) \cup {UnassignedId}
      /\ g.players \in [DOMAIN g.players -> Player]
  BY <1>6, BotIs DEF Tidy
<1>10. ASSUME IsAssigned(g.players[to])
       PROVE  LET h == [g EXCEPT !.players[to].access = "Limited", !.heir = name]
              IN  Like(b, h, {UnassignedId}) /\ Quiet(b, h)
  <2>1. to \in Assigned(g) /\ to # UnassignedId /\ g.players[to].name = name
    <3>1. to \in Assigned(g)
      BY <1>6, <1>10 DEF Assigned
    <3> QED
      BY <1>5, <1>6, <3>1, NobodyIs
  <2> DEFINE owner == g.limitedOwnerId
  <2> HIDE DEF owner
  <2>2. /\ Like(g, EntrySet(g, to, q, g.follow, owner, name), {})
        /\ Quiet(g, EntrySet(g, to, q, g.follow, owner, name))
    BY <1>6, <1>8, <1>9, <2>1, PowersAre DEF owner
  <2>3. Like(g, f, {}) /\ Quiet(g, f)
    BY <2>2 DEF owner
  <2>4. [g EXCEPT !.players[to].access = "Limited", !.heir = name] = f
    <3> DEFINE r == [g.players EXCEPT ![to] = q]
    <3>1. [g EXCEPT !.players[to].access = "Limited"] = [g EXCEPT !.players = r]
      OBVIOUS
    <3>2. [g EXCEPT !.players[to].access = "Limited", !.heir = name]
            = [[g EXCEPT !.players[to].access = "Limited"] EXCEPT !.heir = name]
      OBVIOUS
    <3>3. f = Altered(g, r, g.follow, g.limitedOwnerId, g.allowLimited, name)
      BY DEF EntrySet
    <3> HIDE DEF r, f
    <3> DEFINE h == [g EXCEPT !.players[to].access = "Limited"]
    <3>4. [[g EXCEPT !.players = r] EXCEPT !.heir = name]
            = Altered(g, r, g.follow, g.limitedOwnerId, g.allowLimited, name)
      <4>1. g \in Bot
        BY <1>9
      <4> QED
        BY <4>1, HeirSet
    <3>5. h = [g EXCEPT !.players = r]
      BY <3>1
    <3> HIDE DEF h
    <3>6. [h EXCEPT !.heir = name] = f
      BY <3>3, <3>4, <3>5
    <3> QED
      BY <3>2, <3>6 DEF h
  <2> HIDE DEF f
  <2>5. Like(b, f, {UnassignedId} \cup {}) /\ Quiet(b, f)
    BY <1>7, <2>3, LikeTwice
  <2> QED
    BY <2>4, <2>5
<1>11. Like(b, n, {UnassignedId}) /\ Quiet(b, n)
  <2>1. /\ n \in Bot /\ n.players = g.players /\ n.playerIds = g.playerIds
        /\ n.follow = g.follow /\ n.limitedOwnerId = g.limitedOwnerId
    BY <1>9 DEF Bot
  <2> HIDE DEF n
  <2>2. Limits(n.players, n.limitedOwnerId, n.heir)
    BY <1>8, <2>1 DEF Limits
  <2>3. Like(g, n, {})
    <3>1. \A k \in DOMAIN g.players : Entry(g.players[k], k)
      BY <1>6 DEF Tidy
    <3>2. g.follow \in Assigned(g) \cup {UnassignedId}
      BY <1>6 DEF Tidy
    <3> QED
      BY <1>6, <1>9, <2>1, <2>2, <3>1, <3>2, TidyMade
  <2>4. Quiet(g, n)
    BY <2>1 DEF Quiet
  <2>5. Like(b, n, {UnassignedId} \cup {}) /\ Quiet(b, n)
    BY <1>7, <2>3, <2>4, LikeTwice
  <2> QED
    BY <2>5
<1>12. Give(b, id, name) \in
          {b, n, IF IsAssigned(g.players[to])
                 THEN [g EXCEPT !.players[to].access = "Limited", !.heir = name] ELSE n}
  <2> HIDE DEF n
  <2> QED
    BY DEF Give, free, to, g, n
<1> HIDE DEF n
<1> QED
  BY <1>10, <1>11, <1>12, LikeSame

(* A change of what is not about a player.                                 *)
LEMMA SwitchIs ==
    ASSUME NEW b, Tidy(b), NEW g \in Bot, g.players = b.players,
           g.playerIds = b.playerIds, g.limitedOwnerId = b.limitedOwnerId,
           g.heir = b.heir, g.follow \in Assigned(b) \cup {UnassignedId}
    PROVE  Like(b, g, {}) /\ Quiet(b, g)
<1>1. /\ \A k \in DOMAIN b.players : Entry(b.players[k], k)
      /\ Limits(b.players, b.limitedOwnerId, b.heir)
      /\ b.limitedOwnerId \in Assigned(b) \cup {UnassignedId}
  BY DEF Tidy
<1>2. Like(b, g, {})
  BY <1>1, TidyMade
<1> QED
  BY <1>2 DEF Quiet

(* !ownbot                                                                 *)
LEMMA OwnBotIs ==
    ASSUME NEW b, Tidy(b), NEW id \in Assigned(b)
    PROVE  Like(b, OwnBot(b, id), {UnassignedId}) /\ Quiet(b, OwnBot(b, id))
<1> DEFINE p == [k \in DOMAIN b.players |->
                    IF b.players[k].access = "Limited"
                    THEN [b.players[k] EXCEPT !.access = "Player"] ELSE b.players[k]]
           off == [b EXCEPT !.allowLimited = FALSE]
           on == [b EXCEPT !.allowLimited = TRUE]
           owner == b.limitedOwnerId
           a == Altered(b, p, b.follow, owner, FALSE, b.heir)
<1>1. /\ b \in Bot /\ owner \in Assigned(b) \cup {UnassignedId}
      /\ b.follow \in Assigned(b) \cup {UnassignedId}
  BY DEF Tidy
<1>2. RevokeLimited(off) = a
  <2>1. off.players = b.players
    BY <1>1 DEF Bot
  <2> HIDE DEF off
  <2>2. RevokeLimited(off) = [off EXCEPT !.players = p]
    BY <2>1 DEF RevokeLimited
  <2> HIDE DEF p
  <2> QED
    BY <1>1, <2>2 DEF off, Bot, Altered
<1>3. Like(b, a, {}) /\ Quiet(b, a)
  <2> HIDE DEF owner
  <2>1. LET c == Altered(b, p, b.follow, owner, FALSE, b.heir)
        IN  /\ Like(b, c, {}) /\ Quiet(b, c)
            /\ \A k \in DOMAIN c.players : c.players[k].access # "Limited"
    BY <1>1, RevokedIs
  <2> QED
    BY <2>1
<1> HIDE DEF a, off
<1>4. Like(b, on, {}) /\ Quiet(b, on)
  <2>1. /\ on \in Bot /\ on.players = b.players /\ on.playerIds = b.playerIds
        /\ on.limitedOwnerId = owner /\ on.heir = b.heir /\ on.follow = b.follow
    BY <1>1 DEF Bot
  <2> HIDE DEF on
  <2> QED
    BY <1>1, <2>1, SwitchIs
<1> HIDE DEF on
<1>5. OwnBot(b, id) \in {b, a, on}
  BY <1>2 DEF OwnBot, on, off
<1> QED
  BY <1>3, <1>4, <1>5, LikeSame DEF Like

(* !follow: the bot follows a player or nobody.                            *)
LEMMA FollowIs ==
    ASSUME NEW b, Tidy(b), NEW id \in Assigned(b), NEW name
    PROVE  Like(b, Follow(b, id, name), {UnassignedId}) /\ Quiet(b, Follow(b, id, name))
<1> DEFINE to == FindPlayer(b, name)
           g == GetPlayer(b, to)
           x == g.players[to].ident
           f == [g EXCEPT !.follow = x]
<1>1. to \in Keys /\ (to \in DOMAIN b.players \/ to = UnassignedId)
  BY FindPlayerIs
<1> HIDE DEF to
<1>2. /\ Like(b, g, {to}) /\ Quiet(b, g) /\ Tidy(g) /\ to \in DOMAIN g.players
      /\ DOMAIN g.players = DOMAIN b.players \cup {to}
  BY <1>1, GetPlayerIs DEF Like
<1>3. Like(b, g, {UnassignedId})
  BY <1>1, <1>2 DEF Like
<1> HIDE DEF g
<1>4. x \in Assigned(g) \cup {UnassignedId} /\ x \in Keys /\ g \in Bot
  <2>1. Entry(g.players[to], to) /\ g \in Bot
    BY <1>2 DEF Tidy
  <2> QED
    BY <1>1, <1>2, <2>1, KeysAre DEF Entry, Assigned, IsAssigned
<1>5. /\ f \in Bot /\ f.players = g.players /\ f.playerIds = g.playerIds
      /\ f.limitedOwnerId = g.limitedOwnerId /\ f.heir = g.heir /\ f.follow = x
  <2> HIDE DEF x
  <2> QED
    BY <1>4 DEF Bot
<1> HIDE DEF f, x
<1>6. Like(g, f, {}) /\ Quiet(g, f)
  BY <1>2, <1>4, <1>5, SwitchIs
<1>7. Like(b, f, {UnassignedId} \cup {}) /\ Quiet(b, f)
  BY <1>2, <1>3, <1>6, LikeTwice
<1>8. Follow(b, id, name) \in {b, f}
  BY DEF Follow, f, x, g, to
<1> QED
  BY <1>7, <1>8, LikeSame

(* !login takes the bot from whom it makes an operator.                    *)
LEMMA LoginIs ==
    ASSUME NEW b, Tidy(b), NEW id \in Assigned(b)
    PROVE  /\ Like(b, Login(b, id), {}) /\ Quiet(b, Login(b, id))
           /\ Like(b, Logout(b, id), {}) /\ Quiet(b, Logout(b, id))
<1> DEFINE owner == IF b.limitedOwnerId = id THEN UnassignedId ELSE b.limitedOwnerId
           e == b.players[id]
           on == [e EXCEPT !.access = "Operator"]
           off == [e EXCEPT !.access = "Player"]
           heir == b.heir
<1>1. /\ b \in Bot /\ heir \in Names \cup {NoName} /\ owner \in Assigned(b) \cup {UnassignedId}
      /\ b.limitedOwnerId \in Assigned(b) \cup {UnassignedId}
      /\ \A k \in DOMAIN b.players :
            b.players[k].access = "Limited" =>
               b.limitedOwnerId = k \/ b.players[k].name = heir
      /\ \A k \in DOMAIN b.players :
            k # id /\ b.players[k].access = "Limited" =>
               owner = k \/ b.players[k].name = heir
  BY EntryIs
<1> DEFINE was == b.limitedOwnerId
<1> HIDE DEF owner, heir, was
<1>2. ASSUME e.name \in Operators
      PROVE  LET g == EntrySet(b, id, on, b.follow, owner, heir)
             IN  Like(b, g, {}) /\ Quiet(b, g)
  BY <1>1, <1>2, PowersAre
<1>3. LET g == EntrySet(b, id, off, b.follow, was, heir)
      IN  Like(b, g, {}) /\ Quiet(b, g)
  BY <1>1, PowersAre DEF was
<1>4. [b EXCEPT !.limitedOwnerId = IF @ = id THEN UnassignedId ELSE @,
                !.players[id].access = "Operator"]
        = EntrySet(b, id, on, b.follow, owner, heir)
  <2> DEFINE c == [b EXCEPT !.limitedOwnerId = owner]
             p == [b.players EXCEPT ![id] = on]
  <2>1. [b EXCEPT !.limitedOwnerId = IF @ = id THEN UnassignedId ELSE @,
                  !.players[id].access = "Operator"]
          = [c EXCEPT !.players[id].access = "Operator"]
    BY DEF owner
  <2>2. c.players = b.players
    BY <1>1 DEF Bot
  <2> HIDE DEF c
  <2>3. [c EXCEPT !.players[id].access = "Operator"] = [c EXCEPT !.players = p]
    BY <2>2
  <2>4. EntrySet(b, id, on, b.follow, owner, heir)
          = Altered(b, p, b.follow, owner, b.allowLimited, b.heir)
    BY DEF EntrySet, heir
  <2> HIDE DEF p
  <2>5. [c EXCEPT !.players = p] = Altered(b, p, b.follow, owner, b.allowLimited, b.heir)
    <3>1. c = Altered(b, b.players, b.follow, owner, b.allowLimited, b.heir)
      BY <1>1 DEF c, Bot, Altered
    <3> QED
      BY <3>1 DEF Altered
  <2> QED
    BY <2>1, <2>3, <2>4, <2>5
<1>5. [b EXCEPT !.players[id].access = "Player"]
        = EntrySet(b, id, off, b.follow, was, heir)
  <2> DEFINE p == [b.players EXCEPT ![id] = off]
  <2>1. [b EXCEPT !.players[id].access = "Player"] = [b EXCEPT !.players = p]
    OBVIOUS
  <2>2. EntrySet(b, id, off, b.follow, was, heir)
          = Altered(b, p, b.follow, b.limitedOwnerId, b.allowLimited, b.heir)
    BY DEF EntrySet, heir, was
  <2> HIDE DEF p
  <2> QED
    BY <1>1, <2>1, <2>2, AlteredParts
<1>6. Like(b, Login(b, id), {}) /\ Quiet(b, Login(b, id))
  BY <1>2, <1>4, LikeSame DEF Login
<1>7. Like(b, Logout(b, id), {}) /\ Quiet(b, Logout(b, id))
  BY <1>3, <1>5, LikeSame DEF Logout
<1> QED
  BY <1>6, <1>7

(* handleChat(): nobody comes or goes, and nobody moves.                   *)
LEMMA HandleChatIs ==
    ASSUME NEW b, Tidy(b), NEW id \in Ids, NEW command \in Commands,
           NEW name \in Names \cup {NoName}
    PROVE  LET h == HandleChat(b, id, command, name)
           IN  Like(b, h, {id, UnassignedId}) /\ Quiet(b, h)
<1> DEFINE g == GetPlayer(b, id)
           h == HandleChat(b, id, command, name)
<1>1. Like(b, g, {id}) /\ Quiet(b, g) /\ Tidy(g) /\ id \in DOMAIN g.players
  BY KeysAre, GetPlayerIs DEF Like
<1> HIDE DEF g
<1>2. CASE ~IsAssigned(g.players[id])
  <2>1. h = g
    BY <1>2 DEF HandleChat, g
  <2> QED
    BY <1>1, <2>1 DEF Like
<1>3. CASE IsAssigned(g.players[id])
  <2>1. id \in Assigned(g)
    BY <1>1, <1>3 DEF Assigned
  <2>2. h \in {Own(g, id), Give(g, id, name), OwnBot(g, id), Follow(g, id, name),
               Login(g, id), Logout(g, id)}
    BY <1>3, ConstantsAssumption DEF HandleChat, g
  <2> HIDE DEF h
  <2>3. \/ Like(g, h, {UnassignedId}) /\ Quiet(g, h)
        \/ Like(g, h, {}) /\ Quiet(g, h)
    BY <1>1, <2>1, <2>2, OwnIs, GiveIs, OwnBotIs, FollowIs, LoginIs
  <2>4. Like(g, h, {UnassignedId}) /\ Quiet(g, h)
    BY <2>3 DEF Like
  <2>5. Like(b, h, {id} \cup {UnassignedId}) /\ Quiet(b, h)
    BY <1>1, <2>4, LikeTwice
  <2>6. {id} \cup {UnassignedId} = {id, UnassignedId}
    OBVIOUS
  <2> QED
    BY <2>5, <2>6 DEF h
<1> QED
  BY <1>2, <1>3

(* What the ship and team messages do to those who are there.              *)
Watched(b, g, id, watching) ==
    \A k \in Assigned(b) :
        /\ g.players[k].spectator = IF k = id THEN watching ELSE b.players[k].spectator
        /\ g.players[k].turretId = b.players[k].turretId

(* handleSetTeam(), handleSetTeamAndShip()                                 *)
LEMMA HandleTeamIs ==
    ASSUME NEW b, Tidy(b), NEW id \in Ids, NEW watching \in BOOLEAN,
           NEW h \in {HandleSetTeam(b, id, watching), HandleSetTeamAndShip(b, id, watching)}
    PROVE  Like(b, h, {id}) /\ Watched(b, h, id, watching)
<1> DEFINE g == GetPlayer(b, id)
<1>1. /\ Like(b, g, {id}) /\ Quiet(b, g) /\ Tidy(g) /\ id \in DOMAIN g.players
      /\ \A k \in DOMAIN b.players : g.players[k] = b.players[k]
  BY KeysAre, GetPlayerIs DEF Like
<1> HIDE DEF g
<1>2. Assigned(b) = Assigned(g) /\ Assigned(b) \subseteq DOMAIN b.players
  BY <1>1 DEF Like, Assigned
<1>3. CASE ~IsAssigned(g.players[id])
  <2>1. h = g
    BY <1>3 DEF HandleSetTeam, HandleSetTeamAndShip, g
  <2>2. id \notin Assigned(b)
    BY <1>2, <1>3 DEF Assigned
  <2> QED
    BY <1>1, <1>2, <2>1, <2>2 DEF Watched
<1>4. CASE IsAssigned(g.players[id])
  <2> DEFINE lost == IF g.follow = id /\ watching /\ ~g.players[id].spectator
                     THEN UnassignedId ELSE g.follow
             follow == IF h = HandleSetTeam(b, id, watching) THEN g.follow ELSE lost
             f == [g EXCEPT !.players[id].spectator = watching, !.follow = follow]
  <2>1. id \in Assigned(g) /\ g \in Bot
    BY <1>1, <1>4 DEF Assigned, Tidy
  <2>2. h = f
    <3>1. HandleSetTeam(b, id, watching) = [g EXCEPT !.players[id].spectator = watching]
      BY <1>4 DEF HandleSetTeam, g
    <3>2. HandleSetTeamAndShip(b, id, watching)
            = [g EXCEPT !.players[id].spectator = watching, !.follow = lost]
      BY <1>4 DEF HandleSetTeamAndShip, g
    <3> DEFINE c == [g EXCEPT !.players[id].spectator = watching]
    <3>3. c = [c EXCEPT !.follow = g.follow]
      <4> DEFINE p == [g.players EXCEPT ![id].spectator = watching]
      <4>1. c = [g EXCEPT !.players = p]
        OBVIOUS
      <4> HIDE DEF c, p
      <4> QED
        BY <2>1, <4>1 DEF Bot
    <3>4. f = [c EXCEPT !.follow = follow]
      OBVIOUS
    <3>5. [g EXCEPT !.players[id].spectator = watching, !.follow = lost]
            = [c EXCEPT !.follow = lost]
      OBVIOUS
    <3> HIDE DEF c, f, lost
    <3> QED
      BY <3>1, <3>2, <3>3, <3>4, <3>5 DEF c
  <2>3. follow \in {g.follow, UnassignedId}
    OBVIOUS
  <2> HIDE DEF follow
  <2>4. LET s == Shown(g, id, watching, follow)
        IN  /\ Like(g, s, {})
            /\ s.players[id].spectator = watching
            /\ s.players[id].turretId = g.players[id].turretId
            /\ \A k \in DOMAIN g.players : k # id => s.players[k] = g.players[k]
    <3>1. Tidy(g) /\ id \in Assigned(g)
      BY <1>1, <2>1
    <3> HIDE DEF f
    <3> QED
      BY <2>3, <3>1, WatchingIs
  <2> HIDE DEF f
  <2>7. /\ Like(g, f, {})
        /\ f.players[id].spectator = watching
        /\ f.players[id].turretId = g.players[id].turretId
        /\ \A k \in DOMAIN g.players : k # id => f.players[k] = g.players[k]
    BY <2>4 DEF f, Shown
  <2>5. Like(b, f, {id} \cup {})
    BY <1>1, <2>7, LikeTwice
  <2>6. Watched(b, f, id, watching)
    <3>1. DOMAIN b.players \subseteq DOMAIN g.players
      BY <1>1 DEF Like
    <3> QED
      BY <1>1, <1>2, <2>1, <2>7, <3>1 DEF Watched
  <2> QED
    BY <2>2, <2>5, <2>6
<1> QED
  BY <1>3, <1>4

(* handleCreateTurret(): in the end the player is where the message says,  *)
(* if all are known.                                                       *)
LEMMA HandleCreateTurretIs ==
    ASSUME NEW b, Tidy(b), NEW id \in Ids, NEW onto \in Keys
    PROVE  LET h == HandleCreateTurret(b, id, onto)
           IN  /\ Like(b, h, Keys)
               /\ /\ id \in Assigned(b)
                  /\ \/ onto \in Assigned(b)
                     \/ onto = UnassignedId /\ b.players[id].turretId \in Assigned(b)
                  => /\ DOMAIN h.players = DOMAIN b.players
                     /\ \A k \in Assigned(b) :
                           /\ h.players[k].spectator = b.players[k].spectator
                           /\ h.players[k].turretId = IF k = id THEN onto
                                                      ELSE b.players[k].turretId
<1> DEFINE g == GetPlayer(b, id)
           t == g.players[id].turretId
           onto2 == IF onto = UnassignedId THEN t ELSE onto
           c == GetPlayer(g, onto2)
           h == HandleCreateTurret(b, id, onto)
           x == c.players[id].turretId
           d == GetPlayer(c, x)
           good == /\ id \in Assigned(b)
                   /\ \/ onto \in Assigned(b)
                      \/ onto = UnassignedId /\ b.players[id].turretId \in Assigned(b)
<1>1. /\ Like(b, g, {id}) /\ Quiet(b, g) /\ Tidy(g) /\ id \in DOMAIN g.players
      /\ DOMAIN g.players = DOMAIN b.players \cup {id}
      /\ \A k \in DOMAIN b.players : g.players[k] = b.players[k]
  BY KeysAre, GetPlayerIs DEF Like
<1> HIDE DEF g
<1>2. t \in Keys /\ onto2 \in Keys
  <2>1. g.players[id] \in Player
    BY <1>1, BotIs DEF Tidy
  <2> QED
    BY <2>1 DEF Player
<1>3. good => /\ id \in DOMAIN b.players /\ onto2 \in DOMAIN b.players
              /\ onto2 \in Assigned(b)
  <2>1. Assigned(b) \subseteq DOMAIN b.players /\ UnassignedId \notin Assigned(b)
    BY NobodyIs DEF Assigned
  <2>2. id \in DOMAIN b.players => t = b.players[id].turretId
    BY <1>1
  <2> HIDE DEF t
  <2> QED
    BY <2>1, <2>2
<1> HIDE DEF onto2
<1>4. /\ Like(g, c, {onto2}) /\ Quiet(g, c) /\ Tidy(c) /\ onto2 \in DOMAIN c.players
      /\ DOMAIN c.players = DOMAIN g.players \cup {onto2}
      /\ \A k \in DOMAIN g.players : c.players[k] = g.players[k]
  BY <1>1, <1>2, GetPlayerIs DEF Like
<1> HIDE DEF c
<1>5. Like(b, c, Keys) /\ Quiet(b, c)
  <2>1. Like(b, c, {id} \cup {onto2}) /\ Quiet(b, c)
    BY <1>1, <1>4, LikeTwice
  <2> QED
    BY <1>2, <2>1, KeysAre DEF Like
<1>6. Like(b, g, Keys)
  BY <1>1, KeysAre DEF Like
<1>7. good => /\ DOMAIN g.players = DOMAIN b.players /\ DOMAIN c.players = DOMAIN b.players
              /\ \A k \in DOMAIN b.players : c.players[k] = b.players[k]
  BY <1>1, <1>3, <1>4
<1>8. h = IF ~IsAssigned(g.players[id]) THEN g
          ELSE IF ~IsAssigned(c.players[onto2]) THEN c
          ELSE IF onto = UnassignedId THEN KillTurreter(c, id)
          ELSE [c EXCEPT !.players[id].turretId = onto]
  BY DEF HandleCreateTurret, g, c, onto2
<1> HIDE DEF h
<1>9. CASE ~IsAssigned(g.players[id])
  <2>1. h = g /\ ~good
    BY <1>1, <1>8, <1>9 DEF Assigned
  <2> QED
    BY <1>6, <2>1 DEF h
<1>10. CASE IsAssigned(g.players[id]) /\ ~IsAssigned(c.players[onto2])
  <2>1. h = c /\ ~good
    BY <1>3, <1>7, <1>8, <1>10 DEF Assigned
  <2> QED
    BY <1>5, <2>1 DEF h
<1>11. CASE IsAssigned(g.players[id]) /\ IsAssigned(c.players[onto2])
  <2>1. id \in Assigned(c) /\ id \in Assigned(b) /\ Assigned(b) = Assigned(c)
        /\ id \in DOMAIN c.players
    BY <1>1, <1>4, <1>5, <1>11 DEF Assigned, Like
  <2> DEFINE Same(f) ==
                 good => /\ DOMAIN f.players = DOMAIN b.players
                         /\ \A k \in DOMAIN b.players : f.players[k] = b.players[k]
             Moved(s, w) ==
                 good => /\ DOMAIN s.players = DOMAIN b.players
                         /\ \A k \in Assigned(b) :
                               /\ s.players[k].spectator = b.players[k].spectator
                               /\ s.players[k].turretId =
                                     IF k = id THEN w ELSE b.players[k].turretId
  <2>2. ASSUME NEW f, Tidy(f), Like(b, f, Keys), id \in Assigned(f), NEW w \in Keys, Same(f)
        PROVE  Like(b, Mounted(f, id, w), Keys) /\ Moved(Mounted(f, id, w), w)
    <3> DEFINE s == Mounted(f, id, w)
    <3>1. /\ Like(f, s, {})
          /\ s.players[id].spectator = f.players[id].spectator
          /\ s.players[id].turretId = w
          /\ \A k \in DOMAIN f.players : k # id => s.players[k] = f.players[k]
      BY <2>2, MountIs
    <3> HIDE DEF s
    <3>2. Like(b, s, Keys \cup {})
      BY <2>2, <3>1, LikeTwice
    <3>3. DOMAIN s.players = DOMAIN f.players
      BY <3>1 DEF Like
    <3>4. good => \A k \in Assigned(b) :
                     /\ s.players[k].spectator = b.players[k].spectator
                     /\ s.players[k].turretId = IF k = id THEN w ELSE b.players[k].turretId
      BY <2>1, <2>2, <3>1 DEF Assigned
    <3>5. Like(b, s, Keys)
      BY <3>2 DEF Like
    <3> HIDE DEF good
    <3> QED
      BY <2>2, <3>3, <3>4, <3>5 DEF s
  <2>3. CASE onto # UnassignedId
    <3>1. h = [c EXCEPT !.players[id].turretId = onto]
      BY <1>8, <1>11, <2>3
    <3>2. Same(c)
      BY <1>7
    <3> HIDE DEF good, Same, Moved
    <3>3. Like(b, Mounted(c, id, onto), Keys) /\ Moved(Mounted(c, id, onto), onto)
      BY <1>4, <1>5, <2>1, <2>2, <3>2
    <3> QED
      BY <3>1, <3>3 DEF good, h, Mounted, Moved
  <2>4. CASE onto = UnassignedId
    <3>1. h = IF x = UnassignedId THEN c
              ELSE [d EXCEPT !.players[id].turretId = UnassignedId]
      BY <1>8, <1>11, <2>4 DEF KillTurreter
    <3>2. x \in Keys
      <4>1. c.players[id] \in Player
        BY <1>4, <2>1, BotIs DEF Tidy
      <4> QED
        BY <4>1 DEF Player
    <3>3. good => x \in Assigned(b) /\ x \in DOMAIN c.players /\ x # UnassignedId
      BY <1>7, <2>1, <2>4, NobodyIs DEF Assigned
    <3> HIDE DEF x
    <3>4. /\ Like(c, d, {x}) /\ Tidy(d) /\ DOMAIN d.players = DOMAIN c.players \cup {x}
          /\ \A k \in DOMAIN c.players : d.players[k] = c.players[k]
      BY <1>4, <3>2, GetPlayerIs DEF Like
    <3> HIDE DEF d
    <3>5. Like(b, d, Keys) /\ id \in Assigned(d)
      <4>1. Like(b, d, Keys \cup {x})
        BY <1>5, <3>4, LikeTwice
      <4> QED
        BY <2>1, <3>2, <4>1 DEF Like
    <3>6. Same(d)
      <4>1. good => DOMAIN d.players = DOMAIN c.players
        BY <3>3, <3>4
      <4> HIDE DEF good
      <4> QED
        BY <1>7, <3>4, <4>1
    <3> HIDE DEF good
    <3>7. LET s == Mounted(d, id, UnassignedId)
          IN  Like(b, s, Keys) /\ Moved(s, UnassignedId)
      <4> HIDE DEF Same, Moved
      <4>1. UnassignedId \in Keys
        BY KeysAre
      <4> QED
        BY <2>2, <3>4, <3>5, <3>6, <4>1
    <3>8. CASE x = UnassignedId
      <4>1. h = c /\ ~good
        BY <3>1, <3>3, <3>8
      <4> QED
        BY <1>5, <4>1 DEF good, h
    <3>9. CASE x # UnassignedId
      <4>1. h = [d EXCEPT !.players[id].turretId = UnassignedId]
        BY <3>1, <3>9
      <4> QED
        BY <2>4, <3>7, <4>1 DEF good, h, Mounted
    <3> QED
      BY <3>8, <3>9
  <2> QED
    BY <2>3, <2>4
<1> QED
  BY <1>9, <1>10, <1>11


(* handleDeleteTurret(): one who rides on him is shaken off.               *)
LEMMA HandleDeleteTurretIs ==
    ASSUME NEW b, Tidy(b), NEW id \in Ids
    PROVE  LET h == HandleDeleteTurret(b, id)
           IN  /\ Like(b, h, {id})
               /\ id \in Assigned(b) =>
                     /\ DOMAIN h.players = DOMAIN b.players
                     /\ \A k \in Assigned(b) :
                           /\ h.players[k].spectator = b.players[k].spectator
                           /\ h.players[k].turretId = IF Shaken(Turrets(b), id, k)
                                                      THEN UnassignedId
                                                      ELSE b.players[k].turretId
<1> DEFINE g == GetPlayer(b, id)
           h == HandleDeleteTurret(b, id)
<1>1. /\ Like(b, g, {id}) /\ Tidy(g) /\ id \in DOMAIN g.players
      /\ id \in DOMAIN b.players => g = b
  <2>1. id \in DOMAIN b.players => g = b
    BY DEF GetPlayer
  <2> HIDE DEF g
  <2> QED
    BY <2>1, KeysAre, GetPlayerIs DEF Like, g
<1>2. h = IF IsAssigned(g.players[id]) THEN KillTurret(g, id) ELSE g
  BY DEF HandleDeleteTurret
<1> HIDE DEF g, h
<1>3. Assigned(b) \subseteq DOMAIN b.players
  BY DEF Assigned
<1>4. CASE IsAssigned(g.players[id])
  <2>1. h = KillTurret(g, id)
    BY <1>2, <1>4
  <2>2. /\ Like(g, h, {}) /\ DOMAIN h.players = DOMAIN g.players
        /\ \A k \in DOMAIN g.players :
              /\ h.players[k].spectator = g.players[k].spectator
              /\ h.players[k].turretId = IF Shaken(Turrets(g), id, k)
                                         THEN UnassignedId
                                         ELSE g.players[k].turretId
    BY <1>1, <2>1, KillTurretIs
  <2>3. Like(b, h, {id} \cup {})
    BY <1>1, <2>2, LikeTwice
  <2>4. Like(b, h, {id})
    BY <2>3 DEF Like
  <2>5. id \in Assigned(b) => g = b
    BY <1>1, <1>3
  <2> QED
    BY <1>3, <2>2, <2>4, <2>5 DEF h
<1>5. CASE ~IsAssigned(g.players[id])
  <2>1. h = g
    BY <1>2, <1>5
  <2>2. id \notin Assigned(b)
    BY <1>1, <1>5 DEF Like, Assigned
  <2> QED
    BY <1>1, <2>1, <2>2 DEF h
<1> QED
  BY <1>4, <1>5

(* Who has left: what handlePlayerLeaving() does to a player who is known. *)
Gone(b, g, id) ==
    /\ Tidy(g)
    /\ DOMAIN g.players = DOMAIN b.players \ {id}
    /\ Assigned(g) = Assigned(b) \ {id}
    /\ Listed(g) = Listed(b) \ {id}
    /\ IsInjective(b.playerIds) => IsInjective(g.playerIds)
    /\ \A k \in DOMAIN g.players :
          /\ g.players[k].name = b.players[k].name
          /\ g.players[k].spectator = b.players[k].spectator
          /\ g.players[k].turretId = IF Shaken(Turrets(b), id, k)
                                     THEN UnassignedId
                                     ELSE b.players[k].turretId

(* handlePlayerLeaving()                                                   *)
LEMMA HandlePlayerLeavingIs ==
    ASSUME NEW b, Tidy(b), NEW id \in Ids
    PROVE  LET h == HandlePlayerLeaving(b, id)
           IN  /\ Tidy(h)
               /\ id \in Assigned(b) => Gone(b, h, id)
<1> DEFINE g == GetPlayer(b, id)
           h == HandlePlayerLeaving(b, id)
<1>1. /\ Like(b, g, {id}) /\ Tidy(g) /\ id \in DOMAIN g.players
      /\ id \in DOMAIN b.players => g = b
  <2>1. id \in DOMAIN b.players => g = b
    BY DEF GetPlayer
  <2> HIDE DEF g
  <2> QED
    BY <2>1, KeysAre, GetPlayerIs DEF Like, g
<1>2. h = IF IsAssigned(g.players[id]) THEN KillPlayer(g, id) ELSE g
  BY DEF HandlePlayerLeaving
<1> HIDE DEF g, h
<1>3. CASE IsAssigned(g.players[id])
  <2>1. h = KillPlayer(g, id)
    BY <1>2, <1>3
  <2>2. g.players[id].ident = id
    BY <1>1, <1>3 DEF Tidy, Entry, IsAssigned
  <2>3. Gone(g, h, id)
    BY <1>1, <2>1, <2>2, KillPlayerIs DEF Gone
  <2>4. id \in Assigned(b) => g = b
    BY <1>1 DEF Assigned
  <2>5. Tidy(h)
    BY <2>3 DEF Gone
  <2> QED
    BY <2>3, <2>4, <2>5 DEF h
<1>4. CASE ~IsAssigned(g.players[id])
  <2>1. h = g
    BY <1>2, <1>4
  <2>2. id \notin Assigned(b)
    BY <1>1, <1>4 DEF Like, Assigned
  <2> QED
    BY <1>1, <2>1, <2>2 DEF h
<1> QED
  BY <1>3, <1>4

(* handlePlayerEntering(): whoever had the ident is removed first.         *)
LEMMA HandlePlayerEnteringIs ==
    ASSUME NEW b, Tidy(b), NEW id \in Ids, NEW name \in Names \cup {NoName},
           NEW watching \in BOOLEAN, NEW onto \in Keys
    PROVE  LET h == HandlePlayerEntering(b, id, name, watching, onto)
           IN  /\ Tidy(h)
               /\ id \notin DOMAIN b.players => h = Admitted(b, id, name, watching, onto)
<1> DEFINE f == IF id \in DOMAIN b.players THEN KillPlayer(b, id) ELSE b
           h == HandlePlayerEntering(b, id, name, watching, onto)
<1>1. h = Admitted(f, id, name, watching, onto)
  BY DEF HandlePlayerEntering, Admitted
<1>2. Tidy(f) /\ id \notin Assigned(f)
  <2>1. CASE id \in DOMAIN b.players
    <3> DEFINE ident == b.players[id].ident
               g == KillPlayer(b, id)
    <3>1. Tidy(g) /\ Assigned(g) = Assigned(b) \ {ident}
      BY <2>1, KillPlayerIs
    <3>2. ident = id \/ id \notin Assigned(b)
      BY <2>1 DEF Tidy, Entry, Assigned, IsAssigned
    <3> HIDE DEF ident, g
    <3>3. f = g
      BY <2>1 DEF g
    <3> QED
      BY <3>1, <3>2, <3>3
  <2>2. CASE id \notin DOMAIN b.players
    BY <2>2 DEF Assigned
  <2> QED
    BY <2>1, <2>2
<1>3. id \notin DOMAIN b.players => f = b
  OBVIOUS
<1> HIDE DEF f, h
<1>4. Tidy(Admitted(f, id, name, watching, onto))
  BY <1>2, AdmittedIs
<1> QED
  BY <1>1, <1>3, <1>4 DEF h

(* The messages under way.                                                 *)
Types == {"enter", "leave", "turret", "shake", "team", "ship", "spec"} \cup Commands

(* Whatever the server says, whether it fits the arena or not.             *)
Messages == [type : Types, id : Ids, onto : Keys, name : Names \cup {NoName},
             watching : BOOLEAN]

(* What a message does to the bot leaves it in order.                      *)
LEMMA HandleIsTidy ==
    ASSUME NEW b, Tidy(b), NEW m \in Messages
    PROVE  Tidy(Handle(b, m))
<1>1. /\ m.type \in Types /\ m.id \in Ids /\ m.onto \in Keys
      /\ m.name \in Names \cup {NoName} /\ m.watching \in BOOLEAN
  BY DEF Messages
<1>2. Tidy(HandlePlayerEntering(b, m.id, m.name, m.watching, m.onto))
  BY <1>1, HandlePlayerEnteringIs
<1>3. Tidy(HandlePlayerLeaving(b, m.id))
  BY <1>1, HandlePlayerLeavingIs
<1>4. Tidy(HandleCreateTurret(b, m.id, m.onto))
  BY <1>1, HandleCreateTurretIs DEF Like
<1>5. Tidy(HandleDeleteTurret(b, m.id))
  BY <1>1, HandleDeleteTurretIs DEF Like
<1>6. Tidy(HandleSetTeam(b, m.id, m.watching))
  BY <1>1, HandleTeamIs DEF Like
<1>7. Tidy(HandleSetTeamAndShip(b, m.id, m.watching))
  BY <1>1, HandleTeamIs DEF Like
<1>8. Tidy(HandleSpecPlayer(b, m.id))
  <2>1. Tidy(HandleSetTeam(b, m.id, TRUE))
    BY <1>1, HandleTeamIs DEF Like
  <2> QED
    BY <2>1 DEF HandleSpecPlayer
<1>9. m.type \in Commands => Tidy(HandleChat(b, m.id, m.type, m.name))
  BY <1>1, HandleChatIs DEF Like
<1> QED
  BY <1>1, <1>2, <1>3, <1>4, <1>5, <1>6, <1>7, <1>8, <1>9, ConstantsAssumption
     DEF Handle, Types


-----------------------------------------------------------------------------
(* The bot follows somebody else.                                          *)
LEMMA FollowSet ==
    ASSUME NEW b, Tidy(b), NEW to \in Assigned(b) \cup {UnassignedId}
    PROVE  LET g == [b EXCEPT !.follow = to]
           IN  /\ Like(b, g, {}) /\ Quiet(b, g)
               /\ g.players = b.players
<1> DEFINE g == [b EXCEPT !.follow = to]
<1>1. b \in Bot /\ to \in Keys
  BY KeysAre, BotIs DEF Tidy, Assigned
<1>2. /\ g \in Bot /\ g.players = b.players /\ g.playerIds = b.playerIds
      /\ g.follow = to /\ g.limitedOwnerId = b.limitedOwnerId /\ g.heir = b.heir
  BY <1>1 DEF Bot
<1> HIDE DEF g
<1>3. Like(b, g, {})
  BY <1>2, TidyMade DEF Tidy
<1> QED
  BY <1>2, <1>3 DEF Quiet, g

(* spectateNext() goes round the list and finds somebody who is there.     *)
LEMMA SpectateIs ==
    ASSUME Tidy(bot), SpectateNext
    PROVE  Like(bot, bot', {}) /\ Quiet(bot, bot') /\ bot'.players = bot.players
<1> DEFINE ids   == bot.playerIds
           place == {k \in DOMAIN ids : ids[k] = bot.follow}
           from  == IF bot.follow = UnassignedId THEN 1 ELSE Min(place)
           At(n) == ids[((from + n - 1) % Len(ids)) + 1]
           plays == {n \in 1 .. Len(ids) : ~bot.players[At(n)].spectator}
           to    == IF (bot.follow # UnassignedId /\ place = {}) \/ plays = {}
                    THEN UnassignedId ELSE bot.players[At(Min(plays))].ident
<1>1. bot' = [bot EXCEPT !.follow = to]
  BY DEF SpectateNext
<1>2. to \in Assigned(bot) \cup {UnassignedId}
  <2>1. CASE (bot.follow # UnassignedId /\ place = {}) \/ plays = {}
    BY <2>1
  <2>2. CASE ~((bot.follow # UnassignedId /\ place = {}) \/ plays = {})
    <3>1. to = bot.players[At(Min(plays))].ident
      BY <2>2
    <3>2. /\ ids \in Seq(Ids) /\ Len(ids) \in Nat /\ DOMAIN ids = 1 .. Len(ids)
          /\ Listed(bot) \subseteq DOMAIN bot.players
      BY BotIs DEF Tidy
    <3>3. Min(plays) \in plays /\ Min(plays) \in 1 .. Len(ids)
      <4>1. plays \in SUBSET (1 .. Len(ids)) /\ plays # {}
        BY <2>2
      <4> HIDE DEF plays
      <4>2. plays \in SUBSET Nat
        BY <3>2, <4>1
      <4> QED
        BY <4>1, <4>2, MinIs
    <3>4. from \in 1 .. Len(ids)
      <4>1. CASE bot.follow = UnassignedId
        <5>1. from = 1
          BY <4>1
        <5> HIDE DEF from, plays, ids
        <5> QED
          BY <3>2, <3>3, <5>1
      <4>2. CASE bot.follow # UnassignedId
        <5>1. place \subseteq 1 .. Len(ids) /\ place # {}
          BY <2>2, <3>2, <4>2
        <5>2. from = Min(place)
          BY <4>2
        <5> HIDE DEF from, place
        <5>3. place \in SUBSET Nat
          BY <3>2, <5>1
        <5> QED
          BY <5>1, <5>2, <5>3, MinIs
      <4> QED
        BY <4>1, <4>2
    <3> DEFINE n == Min(plays)
               at == ((from + n - 1) % Len(ids)) + 1
    <3>5. at \in DOMAIN ids
      <4>1. n \in 1 .. Len(ids)
        BY <3>3
      <4> HIDE DEF n, from, ids
      <4> QED
        BY <3>2, <3>4, <4>1
    <3> HIDE DEF at
    <3>6. ids[at] \in DOMAIN bot.players
      BY <3>2, <3>5 DEF Listed
    <3>7. At(n) = ids[at]
      BY DEF at
    <3> DEFINE k == ids[at]
    <3>8. bot.players[k].ident \in {k, UnassignedId}
      BY <3>6 DEF Tidy, Entry
    <3>9. to = bot.players[k].ident
      BY <3>1, <3>7
    <3> HIDE DEF to, k
    <3> QED
      BY <3>6, <3>8, <3>9 DEF Assigned, IsAssigned, k
  <2> QED
    BY <2>1, <2>2
<1> HIDE DEF to
<1> QED
  BY <1>1, <1>2, FollowSet

-----------------------------------------------------------------------------
(* What holds at all times, whatever overtakes what.                       *)
Outside ==
    /\ DOMAIN arena \subseteq Ids /\ \A id \in DOMAIN arena : arena[id] \in Names
    /\ DOMAIN rides = DOMAIN arena /\ \A id \in DOMAIN rides : rides[id] \in Keys
    /\ watches \subseteq DOMAIN arena
    /\ airborne \subseteq Ids
    /\ crowded \subseteq Ids
    /\ inbox \in Seq(Messages)

(* The inductive invariant of the first part.                              *)
Orderly == Outside /\ Tidy(bot)

(* Whoever is there when the bot comes is announced, and once.             *)
LEMMA PopulatedIs ==
    ASSUME Populated
    PROVE  /\ DOMAIN arena \subseteq Ids /\ \A id \in DOMAIN arena : arena[id] \in Names
           /\ arena = [id \in DOMAIN arena |-> arena[id]]
           /\ rides \in [DOMAIN arena -> DOMAIN arena \cup {UnassignedId}]
           /\ watches \subseteq DOMAIN arena
           /\ \E n \in Nat : \E order \in [1 .. n -> DOMAIN arena] :
                 /\ \A id \in DOMAIN arena : \E k \in 1 .. n : order[k] = id
                 /\ \A j, k \in 1 .. n : order[j] = order[k] => j = k
                 /\ inbox = [k \in 1 .. n |-> Entering(order[k])]
<1>1. PICK present \in SUBSET Ids : arena \in [present -> Names]
  BY DEF Populated
<1>2. Cardinality(Ids) \in Nat
  BY ConstantsAssumption, FS_CardinalityType
<1>3. \A n \in 0 .. Cardinality(Ids) : n \in Nat
  BY <1>2
<1>4. \E n \in Nat : \E order \in [1 .. n -> DOMAIN arena] :
         /\ \A id \in DOMAIN arena : \E k \in 1 .. n : order[k] = id
         /\ \A j, k \in 1 .. n : order[j] = order[k] => j = k
         /\ inbox = [k \in 1 .. n |-> Entering(order[k])]
  BY <1>3 DEF Populated
<1> QED
  BY <1>1, <1>4 DEF Populated

(* A bot that knows nobody is in order, and so is what it will be told.    *)
LEMMA InitIsOrderly == Init => Orderly
<1> SUFFICES ASSUME Init PROVE Orderly
  OBVIOUS
<1>1. Outside
  <2>1. Populated /\ crowded = {} /\ airborne = {}
    BY DEF Init
  <2>2. /\ DOMAIN arena \subseteq Ids /\ \A id \in DOMAIN arena : arena[id] \in Names
        /\ DOMAIN rides = DOMAIN arena /\ \A id \in DOMAIN rides : rides[id] \in Keys
        /\ watches \subseteq DOMAIN arena
    BY <2>1, PopulatedIs, KeysAre
  <2>3. \A id \in DOMAIN arena : Entering(id) \in Messages
    BY <2>2 DEF Entering, Messages, Types
  <2>4. PICK n \in Nat : \E order \in [1 .. n -> DOMAIN arena] :
                inbox = [k \in 1 .. n |-> Entering(order[k])]
    <3>1. \E n \in Nat : \E order \in [1 .. n -> DOMAIN arena] :
             /\ \A id \in DOMAIN arena : \E k \in 1 .. n : order[k] = id
             /\ \A j, k \in 1 .. n : order[j] = order[k] => j = k
             /\ inbox = [k \in 1 .. n |-> Entering(order[k])]
      BY <2>1, PopulatedIs
    <3> QED
      BY <3>1
  <2>5. PICK order \in [1 .. n -> DOMAIN arena] :
                inbox = [k \in 1 .. n |-> Entering(order[k])]
    BY <2>4
  <2>6. \A k \in 1 .. n : Entering(order[k]) \in Messages
    BY <2>3, <2>5
  <2>7. inbox \in Seq(Messages)
    BY <2>5, <2>6
  <2> QED
    BY <2>1, <2>2, <2>7 DEF Outside
<1>2. /\ bot.players = <<>> /\ bot.playerIds = <<>> /\ bot.follow = UnassignedId
      /\ bot.limitedOwnerId = UnassignedId
  BY DEF Init
<1>3. DOMAIN bot.players = {} /\ DOMAIN bot.playerIds = {}
  BY <1>2
<1>4. bot \in Bot
  <2>1. <<>> \in [{} -> Player] /\ {} \in SUBSET Keys
    OBVIOUS
  <2>2. <<>> \in Maps
    BY <2>1, MapsAre
  <2>3. <<>> \in Seq(Ids)
    OBVIOUS
  <2> HIDE DEF Maps
  <2> QED
    BY <2>2, <2>3, KeysAre DEF Init, Bot, Maps
<1>5. Tidy(bot)
  BY <1>2, <1>3, <1>4 DEF Tidy, Limits, Listed
<1> QED
  BY <1>1, <1>5 DEF Orderly

(* A message that there is room for.                                       *)
LEMMA AnnounceIs ==
    ASSUME inbox \in Seq(Messages), NEW m \in Messages, Announce(m)
    PROVE  inbox' \in Seq(Messages) /\ bot' = bot
BY DEF Announce

(* What the server says.                                                   *)
LEMMA MessageIs ==
    ASSUME NEW type \in Types, NEW id \in Ids, NEW onto \in Keys,
           NEW name \in Names \cup {NoName}
    PROVE  Message(type, id, onto, name) \in Messages
BY DEF Message, Messages

(* Whose riders may be a crowd.                                            *)
LEMMA CrowdIs == \A id \in DOMAIN arena : Crowd(id) \subseteq {id}
BY DEF Crowd

(* What the server does leaves the arena in order.                         *)
LEMMA ServerIsOrderly ==
    ASSUME Outside,
           \/ \E id \in Ids, name \in Names : Enter(id, name)
           \/ \E id \in DOMAIN arena :
                 \/ Leave(id) \/ ChangeShip(id) \/ Detach(id) \/ ShakeOff(id)
                 \/ \E onto \in DOMAIN arena : Attach(id, onto)
                 \/ \E command \in Commands \cap {"give", "follow"}, name \in Names :
                       Chat(id, command, name)
                 \/ \E command \in Commands \ {"give", "follow"} : Chat(id, command, NoName)
    PROVE  Outside' /\ bot' = bot
<1>1. /\ UnassignedId \in Keys /\ Ids \subseteq Keys
      /\ NoName \in Names \cup {NoName} /\ Names \subseteq Names \cup {NoName}
  BY KeysAre
<1>2. ASSUME NEW id \in Ids, NEW name \in Names, Enter(id, name)
      PROVE  Outside' /\ bot' = bot
  <2>1. Message("enter", id, UnassignedId, name) \in Messages
    BY <1>1, MessageIs DEF Types
  <2>2. Announce(Message("enter", id, UnassignedId, name))
    BY <1>2 DEF Enter
  <2>3. inbox' \in Seq(Messages) /\ bot' = bot
    BY <2>1, <2>2, AnnounceIs DEF Outside
  <2> QED
    BY <1>1, <1>2, <2>3 DEF Enter, Outside
<1>3. ASSUME NEW id \in DOMAIN arena, Leave(id)
      PROVE  Outside' /\ bot' = bot
  <2>1. Message("leave", id, UnassignedId, NoName) \in Messages
    BY <1>1, MessageIs DEF Types, Outside
  <2>2. Announce(Message("leave", id, UnassignedId, NoName))
    BY <1>3 DEF Leave
  <2>3. inbox' \in Seq(Messages) /\ bot' = bot
    BY <2>1, <2>2, AnnounceIs DEF Outside
  <2> QED
    BY <1>1, <1>3, <2>3, CrowdIs DEF Leave, Outside
<1>4. ASSUME NEW id \in DOMAIN arena, ChangeShip(id)
      PROVE  Outside' /\ bot' = bot
  <2>1. PICK type \in {"team", "ship", "spec"} :
                Announce(Message(type, id, UnassignedId, NoName))
    BY <1>4 DEF ChangeShip
  <2>2. Message(type, id, UnassignedId, NoName) \in Messages
    BY <1>1, MessageIs DEF Types, Outside
  <2>3. inbox' \in Seq(Messages) /\ bot' = bot
    BY <2>1, <2>2, AnnounceIs DEF Outside
  <2> QED
    BY <1>4, <2>3 DEF ChangeShip, Outside
<1>5. ASSUME NEW id \in DOMAIN arena, NEW onto \in DOMAIN arena, Attach(id, onto)
      PROVE  Outside' /\ bot' = bot
  <2>1. Message("turret", id, onto, NoName) \in Messages
    BY <1>1, MessageIs DEF Types, Outside
  <2>2. Announce(Message("turret", id, onto, NoName))
    BY <1>5 DEF Attach
  <2>3. inbox' \in Seq(Messages) /\ bot' = bot
    BY <2>1, <2>2, AnnounceIs DEF Outside
  <2> QED
    BY <1>1, <1>5, <2>3 DEF Attach, Outside
<1>6. ASSUME NEW id \in DOMAIN arena, Detach(id)
      PROVE  Outside' /\ bot' = bot
  <2>1. Message("turret", id, UnassignedId, NoName) \in Messages
    BY <1>1, MessageIs DEF Types, Outside
  <2>2. Announce(Message("turret", id, UnassignedId, NoName))
    BY <1>6 DEF Detach
  <2>3. inbox' \in Seq(Messages) /\ bot' = bot
    BY <2>1, <2>2, AnnounceIs DEF Outside
  <2> QED
    BY <1>1, <1>6, <2>3 DEF Detach, Outside
<1>7. ASSUME NEW id \in DOMAIN arena, ShakeOff(id)
      PROVE  Outside' /\ bot' = bot
  <2>1. Message("shake", id, UnassignedId, NoName) \in Messages
    BY <1>1, MessageIs DEF Types, Outside
  <2>2. Announce(Message("shake", id, UnassignedId, NoName))
    BY <1>7 DEF ShakeOff
  <2>3. inbox' \in Seq(Messages) /\ bot' = bot
    BY <2>1, <2>2, AnnounceIs DEF Outside
  <2> QED
    BY <1>1, <1>7, <2>3, CrowdIs DEF ShakeOff, Outside
<1>8. ASSUME NEW id \in DOMAIN arena, NEW command \in Commands,
             NEW name \in Names \cup {NoName}, Chat(id, command, name)
      PROVE  Outside' /\ bot' = bot
  <2>1. Message(command, id, UnassignedId, name) \in Messages
    BY <1>1, MessageIs DEF Types, Outside
  <2>2. Announce(Message(command, id, UnassignedId, name))
    BY <1>8 DEF Chat
  <2>3. inbox' \in Seq(Messages) /\ bot' = bot
    BY <2>1, <2>2, AnnounceIs DEF Outside
  <2> QED
    BY <1>8, <2>3 DEF Chat, Outside
<1>9. CASE \E id \in Ids, name \in Names : Enter(id, name)
  BY <1>2, <1>9
<1>10. ASSUME NEW id \in DOMAIN arena,
              \/ Leave(id) \/ ChangeShip(id) \/ Detach(id) \/ ShakeOff(id)
              \/ \E onto \in DOMAIN arena : Attach(id, onto)
              \/ \E command \in Commands \cap {"give", "follow"}, name \in Names :
                    Chat(id, command, name)
              \/ \E command \in Commands \ {"give", "follow"} : Chat(id, command, NoName)
       PROVE  Outside' /\ bot' = bot
  BY <1>1, <1>3, <1>4, <1>5, <1>6, <1>7, <1>8, <1>10
<1> QED
  BY <1>9, <1>10


(* Every step keeps the order, also when the packets overtake the messages. *)
LEMMA StepIsOrderly == Orderly /\ [Next]_vars => Orderly'
<1> SUFFICES ASSUME Orderly, [Next]_vars PROVE Orderly'
  OBVIOUS
<1>1. Outside /\ Tidy(bot)
  BY DEF Orderly
<1>2. CASE HandleNext
  <2>1. Head(inbox) \in Messages /\ Tail(inbox) \in Seq(Messages)
    BY <1>1, <1>2 DEF HandleNext, Outside
  <2>2. Tidy(Handle(bot, Head(inbox)))
    BY <1>1, <2>1, HandleIsTidy
  <2> QED
    BY <1>1, <1>2, <2>1, <2>2 DEF HandleNext, Orderly, Outside
<1>3. CASE SpectateNext
  <2>1. Tidy(bot')
    BY <1>1, <1>3, SpectateIs DEF Like
  <2>2. UNCHANGED <<arena, watches, rides, crowded, inbox, airborne>>
    BY <1>3 DEF SpectateNext
  <2> QED
    BY <1>1, <2>1, <2>2 DEF Orderly, Outside
<1>4. ASSUME NEW id \in airborne, HandlePosition(id) PROVE Orderly'
  <2>1. id \in Keys
    BY <1>1, KeysAre DEF Outside
  <2>2. Tidy(bot')
    BY <1>1, <1>4, <2>1, GetPlayerIs DEF HandlePosition, Like
  <2> QED
    BY <1>1, <1>4, <2>2 DEF HandlePosition, Orderly, Outside
<1>5. ASSUME NEW id \in DOMAIN arena, SendPosition(id) PROVE Orderly'
  BY <1>1, <1>5 DEF SendPosition, Orderly, Outside
<1>6. ASSUME \/ \E id \in Ids, name \in Names : Enter(id, name)
             \/ \E id \in DOMAIN arena :
                   \/ Leave(id) \/ ChangeShip(id) \/ Detach(id) \/ ShakeOff(id)
                   \/ \E onto \in DOMAIN arena : Attach(id, onto)
                   \/ \E command \in Commands \cap {"give", "follow"}, name \in Names :
                         Chat(id, command, name)
                   \/ \E command \in Commands \ {"give", "follow"} : Chat(id, command, NoName)
      PROVE  Orderly'
  <2>1. Outside' /\ bot' = bot
    BY <1>1, <1>6, ServerIsOrderly
  <2> QED
    BY <1>1, <2>1 DEF Orderly
<1>7. CASE UNCHANGED vars
  BY <1>1, <1>7 DEF vars, Orderly, Outside
<1> QED
  BY <1>2, <1>3, <1>4, <1>5, <1>6, <1>7 DEF Next

(* At all times the bot is in order.                                       *)
THEOREM Invariance == Spec => []Orderly
BY InitIsOrderly, StepIsOrderly, PTL DEF Spec

(* What the Host keeps has its types: its maps have entries only for the   *)
(* idents of the server and 0xFFFF.                                        *)
THEOREM TypeCorrect == Spec => []TypeOK
<1>1. Orderly => TypeOK
  <2> SUFFICES ASSUME Orderly PROVE TypeOK
    OBVIOUS
  <2>1. /\ bot.players \in Maps /\ bot.playerIds \in Seq(Ids)
        /\ bot.follow \in Keys /\ bot.limitedOwnerId \in Keys
        /\ bot.allowLimited \in BOOLEAN /\ bot.heir \in Names \cup {NoName}
        /\ DOMAIN bot.players \subseteq Keys
        /\ \A k \in DOMAIN bot.players : bot.players[k] \in Player
    BY BotIs DEF Orderly, Tidy
  <2> QED
    BY <2>1 DEF TypeOK, Orderly, Outside
<1> QED
  BY <1>1, Invariance, PTL

(* "Track Limited bot owner" (handleChat): Limited powers are only of the  *)
(* tracked owner and of the one whom !give has named, whatever the order   *)
(* of the commands, of comings and goings and of early and late packets.   *)
THEOREM OwnersAreTracked == Spec => []OwnerTracked
<1>1. Orderly => OwnerTracked
  BY DEF Orderly, Tidy, Limits, OwnerTracked
<1> QED
  BY <1>1, Invariance, PTL

(* killPlayer(): whom the bot follows is there, and has an entry of his    *)
(* own, never one that getPlayer() has made up.                            *)
THEOREM FollowedIsThere == Spec => []FollowsSomebody
<1>1. Orderly => FollowsSomebody
  BY DEF Orderly, Tidy, Assigned, FollowsSomebody
<1> QED
  BY <1>1, Invariance, PTL


-----------------------------------------------------------------------------
(* Without overtaking the bot sees the arena as it was when the message    *)
(* that it handles next was sent.  A view v of the arena says who is       *)
(* there, who watches and who rides on whom.                               *)
Seen(b, v) ==
    /\ DOMAIN v.name = Assigned(b) /\ DOMAIN v.rides = Assigned(b)
    /\ v.watches \subseteq Assigned(b)
    /\ \A k \in Assigned(b) : /\ b.players[k].name = v.name[k]
                              /\ b.players[k].spectator = (k \in v.watches)
                              /\ b.players[k].turretId = v.rides[k]

(* No entry but the one of 0xFFFF is of nobody, and the list has everybody *)
(* once.                                                                   *)
Clean(b) ==
    /\ DOMAIN b.players \subseteq Assigned(b) \cup {UnassignedId}
    /\ Listed(b) = Assigned(b)
    /\ IsInjective(b.playerIds)

(* The message m can be sent when the arena is like v.                     *)
Fits(v, m) ==
    /\ m \in Messages
    /\ m.type = "enter" => m.id \notin DOMAIN v.name
    /\ m.type # "enter" => m.id \in DOMAIN v.name
    /\ m.type = "turret" =>
          \/ m.onto \in DOMAIN v.name
          \/ m.onto = UnassignedId /\ v.rides[m.id] \in DOMAIN v.name
    /\ m.type = "spec" => m.watching

(* Who watches, to one who has read m.                                     *)
Watching(v, m) ==
    IF m.watching THEN v.watches \cup {m.id} ELSE v.watches \ {m.id}

(* The whole arena to one who has read m.                                  *)
Effect(v, m) ==
    CASE m.type = "enter" ->
            [name    |-> [k \in DOMAIN v.name \cup {m.id} |->
                             IF k = m.id THEN m.name ELSE v.name[k]],
             rides   |-> [k \in DOMAIN v.rides \cup {m.id} |->
                             IF k = m.id THEN m.onto ELSE v.rides[k]],
             watches |-> Watching(v, m)]
      [] m.type = "leave" ->
            [name    |-> [k \in DOMAIN v.name \ {m.id} |-> v.name[k]],
             rides   |-> [k \in DOMAIN v.rides \ {m.id} |->
                             IF Shaken(v.rides, m.id, k) THEN UnassignedId ELSE v.rides[k]],
             watches |-> v.watches \ {m.id}]
      [] m.type = "turret" ->
            [name    |-> v.name,
             rides   |-> [k \in DOMAIN v.rides |-> IF k = m.id THEN m.onto ELSE v.rides[k]],
             watches |-> v.watches]
      [] m.type = "shake" ->
            [name    |-> v.name,
             rides   |-> [k \in DOMAIN v.rides |->
                             IF Shaken(v.rides, m.id, k) THEN UnassignedId ELSE v.rides[k]],
             watches |-> v.watches]
      [] m.type \in {"team", "ship", "spec"} ->
            [name |-> v.name, rides |-> v.rides, watches |-> Watching(v, m)]
      [] m.type \in Commands -> v

(* The same list, and no new entry but of those who are there.             *)
LEMMA CleanStays ==
    ASSUME NEW b, NEW g, Clean(b), g.playerIds = b.playerIds, Assigned(g) = Assigned(b),
           DOMAIN g.players \subseteq DOMAIN b.players \cup Assigned(b) \cup {UnassignedId}
    PROVE  Clean(g)
<1>1. Listed(g) = Listed(b)
  BY DEF Listed
<1> QED
  BY <1>1 DEF Clean

(* The riders of one who is there are the same to the bot and to the view. *)
LEMMA ShakenSeen ==
    ASSUME NEW b, Tidy(b), Clean(b), NEW v, Seen(b, v), NEW id \in Ids
    PROVE  \A k \in Assigned(b) : Shaken(Turrets(b), id, k) <=> Shaken(v.rides, id, k)
<1> DEFINE R == {j \in DOMAIN b.players : b.players[j].turretId = id}
<1>1. /\ DOMAIN Turrets(b) = DOMAIN b.players
      /\ \A k \in DOMAIN b.players : Turrets(b)[k] = b.players[k].turretId
  BY DEF Turrets
<1>2. {j \in DOMAIN Turrets(b) : Turrets(b)[j] = id} = R
  BY <1>1
<1>3. id # UnassignedId
  BY KeysAre
<1>4. \A j \in R : j \in Assigned(b)
  BY <1>3 DEF Tidy, Clean, Entry
<1>5. Assigned(b) \subseteq DOMAIN b.players
  BY DEF Assigned
<1>6. {j \in DOMAIN v.rides : v.rides[j] = id} = R
  BY <1>4, <1>5 DEF Seen
<1> HIDE DEF R
<1>7. \A k \in Assigned(b) : Shaken(Turrets(b), id, k) <=> Turrets(b)[k] = id /\ k = Min(R)
  BY <1>2 DEF Shaken
<1>8. \A k \in Assigned(b) : Shaken(v.rides, id, k) <=> v.rides[k] = id /\ k = Min(R)
  BY <1>6 DEF Shaken
<1>9. \A k \in Assigned(b) : Turrets(b)[k] = v.rides[k]
  BY <1>1, <1>5 DEF Seen
<1> QED
  BY <1>7, <1>8, <1>9

(* A player enters.                                                        *)
LEMMA EnterSeen ==
    ASSUME NEW b, Tidy(b), Clean(b), NEW v, Seen(b, v), NEW m, Fits(v, m),
           m.type = "enter"
    PROVE  LET h == HandlePlayerEntering(b, m.id, m.name, m.watching, m.onto)
           IN  Clean(h) /\ Seen(h, Effect(v, m))
<1> DEFINE h == HandlePlayerEntering(b, m.id, m.name, m.watching, m.onto)
           w == Effect(v, m)
           name == [k \in DOMAIN v.name \cup {m.id} |-> IF k = m.id THEN m.name ELSE v.name[k]]
           seats == [k \in DOMAIN v.rides \cup {m.id} |->
                        IF k = m.id THEN m.onto ELSE v.rides[k]]
<1>1. /\ m.id \in Ids /\ m.onto \in Keys /\ m.name \in Names \cup {NoName} /\ m.watching \in BOOLEAN
      /\ m.id \notin DOMAIN v.name
  BY DEF Fits, Messages
<1>2. m.id \notin Assigned(b) /\ m.id # UnassignedId
  BY <1>1, KeysAre DEF Seen
<1>3. m.id \notin DOMAIN b.players
  BY <1>2 DEF Clean
<1>4. Assigned(b) \subseteq DOMAIN b.players /\ m.id \notin Listed(b)
  BY <1>2 DEF Assigned, Clean
<1>5. h = Admitted(b, m.id, m.name, m.watching, m.onto)
  BY <1>1, <1>3, HandlePlayerEnteringIs
<1> HIDE DEF h
<1>6. /\ Tidy(h) /\ DOMAIN h.players = DOMAIN b.players \cup {m.id}
      /\ Listed(h) = Listed(b) \cup {m.id} /\ IsInjective(h.playerIds)
      /\ \A k \in DOMAIN b.players : h.players[k] = b.players[k]
      /\ h.players[m.id].ident = m.id /\ h.players[m.id].name = m.name
      /\ h.players[m.id].spectator = m.watching
      /\ h.players[m.id].turretId = m.onto
  <2> DEFINE id == m.id
             s == Admitted(b, m.id, m.name, m.watching, m.onto)
  <2>1. /\ Tidy(s)
        /\ DOMAIN s.players = DOMAIN b.players \cup {id}
        /\ Listed(s) = Listed(b) \cup {id}
        /\ IsInjective(b.playerIds) /\ id \notin Listed(b) => IsInjective(s.playerIds)
        /\ \A k \in DOMAIN b.players : k # id => s.players[k] = b.players[k]
        /\ id \notin DOMAIN b.players =>
              /\ s.players[id].ident = id /\ s.players[id].name = m.name
              /\ s.players[id].spectator = m.watching
              /\ s.players[id].turretId = m.onto
    BY <1>1, <1>2, AdmittedIs
  <2>2. s = h
    BY <1>5
  <2> HIDE DEF s
  <2> QED
    BY <1>3, <1>4, <2>1, <2>2 DEF Clean
<1>7. Assigned(h) = Assigned(b) \cup {m.id}
  BY <1>2, <1>4, <1>6 DEF Assigned, IsAssigned
<1>8. w = [name |-> name, rides |-> seats, watches |-> Watching(v, m)]
  BY ConstantsAssumption DEF Effect
<1>9. w.name = name /\ w.rides = seats /\ w.watches = Watching(v, m)
  BY <1>8
<1> HIDE DEF w
<1>10. Clean(h)
  BY <1>6, <1>7 DEF Clean
<1>11. /\ DOMAIN name = Assigned(h) /\ DOMAIN seats = Assigned(h)
       /\ name[m.id] = m.name /\ seats[m.id] = m.onto
       /\ \A k \in Assigned(b) : name[k] = v.name[k] /\ seats[k] = v.rides[k]
  BY <1>2, <1>7 DEF Seen
<1> HIDE DEF name, seats
<1>12. Watching(v, m) \subseteq Assigned(h)
  BY <1>7 DEF Seen, Watching
<1>13. \A k \in Assigned(b) : h.players[k].spectator = (k \in Watching(v, m))
  BY <1>2, <1>4, <1>6 DEF Seen, Watching
<1>14. h.players[m.id].spectator = (m.id \in Watching(v, m))
  BY <1>1, <1>6 DEF Watching
<1>15. \A k \in Assigned(h) : /\ h.players[k].name = name[k]
                              /\ h.players[k].turretId = seats[k]
                              /\ h.players[k].spectator = (k \in Watching(v, m))
  BY <1>4, <1>6, <1>7, <1>11, <1>13, <1>14 DEF Seen
<1>16. Seen(h, w)
  BY <1>9, <1>11, <1>12, <1>15 DEF Seen
<1> QED
  BY <1>10, <1>16 DEF h, w

(* A player leaves.                                                        *)
LEMMA LeaveSeen ==
    ASSUME NEW b, Tidy(b), Clean(b), NEW v, Seen(b, v), NEW m, Fits(v, m),
           m.type = "leave"
    PROVE  LET h == HandlePlayerLeaving(b, m.id)
           IN  Clean(h) /\ Seen(h, Effect(v, m))
<1> DEFINE h == HandlePlayerLeaving(b, m.id)
           w == Effect(v, m)
           name == [k \in DOMAIN v.name \ {m.id} |-> v.name[k]]
           seats == [k \in DOMAIN v.rides \ {m.id} |->
                        IF Shaken(v.rides, m.id, k) THEN UnassignedId ELSE v.rides[k]]
<1>1. m.id \in Ids /\ m.id \in Assigned(b)
  BY DEF Fits, Messages, Seen
<1>2. Gone(b, h, m.id)
  BY <1>1, HandlePlayerLeavingIs
<1> HIDE DEF h
<1>3. \A k \in Assigned(b) : Shaken(Turrets(b), m.id, k) <=> Shaken(v.rides, m.id, k)
  BY <1>1, ShakenSeen
<1>4. w = [name |-> name, rides |-> seats, watches |-> v.watches \ {m.id}]
  BY ConstantsAssumption DEF Effect
<1>5. w.name = name /\ w.rides = seats /\ w.watches = v.watches \ {m.id}
  BY <1>4
<1> HIDE DEF w
<1>6. Clean(h)
  BY <1>2 DEF Clean, Gone
<1>7. /\ DOMAIN name = Assigned(h) /\ DOMAIN seats = Assigned(h)
      /\ \A k \in Assigned(h) :
            /\ name[k] = v.name[k]
            /\ seats[k] = IF Shaken(v.rides, m.id, k) THEN UnassignedId ELSE v.rides[k]
  BY <1>2 DEF Seen, Gone
<1> HIDE DEF name, seats
<1>8. Assigned(h) \subseteq DOMAIN h.players
  BY DEF Assigned
<1>9. \A k \in Assigned(h) : /\ h.players[k].name = name[k]
                             /\ h.players[k].turretId = seats[k]
                             /\ h.players[k].spectator = (k \in v.watches \ {m.id})
  BY <1>2, <1>3, <1>7, <1>8 DEF Seen, Gone
<1>10. v.watches \ {m.id} \subseteq Assigned(h)
  BY <1>2 DEF Seen, Gone
<1>11. Seen(h, w)
  BY <1>5, <1>7, <1>9, <1>10 DEF Seen
<1> QED
  BY <1>6, <1>11 DEF h, w

(* One mounts another or lets go, or shakes off the one who rides on him.  *)
LEMMA TurretSeen ==
    ASSUME NEW b, Tidy(b), Clean(b), NEW v, Seen(b, v), NEW m, Fits(v, m),
           m.type \in {"turret", "shake"}
    PROVE  Clean(Handle(b, m)) /\ Seen(Handle(b, m), Effect(v, m))
<1> DEFINE h == Handle(b, m)
           w == Effect(v, m)
           moved(k) == IF m.type = "turret" THEN k = m.id ELSE Shaken(v.rides, m.id, k)
           onto == IF m.type = "turret" THEN m.onto ELSE UnassignedId
           seats == [k \in DOMAIN v.rides |-> IF moved(k) THEN onto ELSE v.rides[k]]
<1>1. /\ m.id \in Ids /\ m.onto \in Keys /\ m.id \in Assigned(b)
      /\ m.type = "turret" =>
            \/ m.onto \in Assigned(b)
            \/ m.onto = UnassignedId /\ b.players[m.id].turretId \in Assigned(b)
  BY DEF Fits, Messages, Seen
<1>2. w.name = v.name /\ w.rides = seats /\ w.watches = v.watches
  BY ConstantsAssumption DEF Effect
<1> HIDE DEF w
<1>3. /\ Assigned(h) = Assigned(b) /\ h.playerIds = b.playerIds
      /\ DOMAIN h.players = DOMAIN b.players
      /\ \A k \in Assigned(b) :
            /\ h.players[k].name = b.players[k].name
            /\ h.players[k].spectator = b.players[k].spectator
            /\ h.players[k].turretId = IF moved(k) THEN onto ELSE b.players[k].turretId
  <2>1. CASE m.type = "turret"
    <3>1. h = HandleCreateTurret(b, m.id, m.onto)
      BY <2>1, ConstantsAssumption DEF Handle
    <3> HIDE DEF h
    <3> QED
      BY <1>1, <2>1, <3>1, HandleCreateTurretIs DEF Like
  <2>2. CASE m.type = "shake"
    <3>1. h = HandleDeleteTurret(b, m.id)
      BY <2>2, ConstantsAssumption DEF Handle
    <3>2. \A k \in Assigned(b) : Shaken(Turrets(b), m.id, k) <=> Shaken(v.rides, m.id, k)
      BY <1>1, ShakenSeen
    <3> HIDE DEF h
    <3> QED
      BY <1>1, <2>2, <3>1, <3>2, HandleDeleteTurretIs DEF Like
  <2> QED
    BY <2>1, <2>2
<1> HIDE DEF h
<1>4. Clean(h)
  BY <1>3, CleanStays
<1>5. /\ DOMAIN seats = Assigned(b)
      /\ \A k \in Assigned(b) : seats[k] = IF moved(k) THEN onto ELSE v.rides[k]
  BY DEF Seen
<1> HIDE DEF seats, moved, onto
<1>6. Seen(h, w)
  BY <1>2, <1>3, <1>5 DEF Seen
<1> QED
  BY <1>4, <1>6 DEF h, w

(* A player changes his ship.                                              *)
LEMMA ShipSeen ==
    ASSUME NEW b, Tidy(b), Clean(b), NEW v, Seen(b, v), NEW m, Fits(v, m),
           m.type \in {"team", "ship", "spec"}
    PROVE  Clean(Handle(b, m)) /\ Seen(Handle(b, m), Effect(v, m))
<1> DEFINE h == Handle(b, m)
           w == Effect(v, m)
<1>1. m.id \in Ids /\ m.watching \in BOOLEAN /\ m.id \in Assigned(b)
  BY DEF Fits, Messages, Seen
<1>2. w.name = v.name /\ w.rides = v.rides /\ w.watches = Watching(v, m)
  BY ConstantsAssumption DEF Effect
<1> HIDE DEF w
<1>3. h \in {HandleSetTeam(b, m.id, m.watching), HandleSetTeamAndShip(b, m.id, m.watching)}
  <2>1. m.type = "spec" => m.watching = TRUE
    BY <1>1 DEF Fits
  <2> QED
    BY <2>1, ConstantsAssumption DEF Handle, HandleSpecPlayer
<1> HIDE DEF h
<1>4. Like(b, h, {m.id}) /\ Watched(b, h, m.id, m.watching)
  BY <1>1, <1>3, HandleTeamIs
<1>5. Clean(h)
  BY <1>1, <1>4, CleanStays DEF Like
<1>6. \A k \in Assigned(b) : h.players[k].spectator = (k \in Watching(v, m))
  BY <1>1, <1>4 DEF Watched, Watching, Seen
<1>7. Watching(v, m) \subseteq Assigned(b)
  BY <1>1 DEF Watching, Seen
<1>8. Seen(h, w)
  BY <1>2, <1>4, <1>6, <1>7 DEF Seen, Like, Watched
<1> QED
  BY <1>5, <1>8 DEF h, w

(* A command moves nobody.                                                 *)
LEMMA CommandSeen ==
    ASSUME NEW b, Tidy(b), Clean(b), NEW v, Seen(b, v), NEW m, Fits(v, m),
           m.type \in Commands
    PROVE  Clean(Handle(b, m)) /\ Seen(Handle(b, m), Effect(v, m))
<1> DEFINE h == Handle(b, m)
<1>1. m.id \in Ids /\ m.name \in Names \cup {NoName} /\ m.id \in Assigned(b)
  BY ConstantsAssumption DEF Fits, Messages, Seen
<1>2. Effect(v, m) = v
  BY ConstantsAssumption DEF Effect
<1>3. h = HandleChat(b, m.id, m.type, m.name)
  BY ConstantsAssumption DEF Handle
<1> HIDE DEF h
<1>4. Like(b, h, {m.id, UnassignedId}) /\ Quiet(b, h)
  BY <1>1, <1>3, HandleChatIs
<1>5. Clean(h)
  BY <1>1, <1>4, CleanStays DEF Like
<1>6. Seen(h, v)
  BY <1>4 DEF Seen, Like, Quiet
<1> QED
  BY <1>2, <1>5, <1>6 DEF h

(* The bot that has handled a message sees what its sender meant.          *)
LEMMA HandleSeen ==
    ASSUME NEW b, Tidy(b), Clean(b), NEW v, Seen(b, v), NEW m, Fits(v, m)
    PROVE  Clean(Handle(b, m)) /\ Seen(Handle(b, m), Effect(v, m))
<1>1. m.type \in Types
  BY DEF Fits, Messages
<1>2. CASE m.type = "enter"
  <2>1. Handle(b, m) = HandlePlayerEntering(b, m.id, m.name, m.watching, m.onto)
    BY <1>2, ConstantsAssumption DEF Handle
  <2> QED
    BY <1>2, <2>1, EnterSeen
<1>3. CASE m.type = "leave"
  <2>1. Handle(b, m) = HandlePlayerLeaving(b, m.id)
    BY <1>3, ConstantsAssumption DEF Handle
  <2> QED
    BY <1>3, <2>1, LeaveSeen
<1> QED
  BY <1>1, <1>2, <1>3, TurretSeen, ShipSeen, CommandSeen DEF Types


-----------------------------------------------------------------------------
(* The arena as the last message under way shows it: everybody rides on    *)
(* whom he is shown on.  Who rides on nobody may still be shown on one     *)
(* whose crowd was shaken off, as killTurret() shakes off one.             *)
Told(v, a, w, r, c) ==
    /\ v.name = a /\ v.watches = w /\ DOMAIN v.rides = DOMAIN a
    /\ \A k \in DOMAIN a :
          /\ r[k] # UnassignedId => r[k] \in DOMAIN a /\ v.rides[k] = r[k]
          /\ r[k] = UnassignedId => v.rides[k] \in c \cup {UnassignedId}

(* The views between the messages under way.                               *)
Chain(v, q) ==
    \A i \in 1 .. Len(q) : Fits(v[i - 1], q[i]) /\ v[i] = Effect(v[i - 1], q[i])

(* The inductive invariant of the second part.                             *)
InStep ==
    /\ Tidy(bot) /\ Outside
    /\ airborne # {} => inbox = <<>>
    /\ airborne \subseteq DOMAIN arena
    /\ Clean(bot)
    /\ \E v : Chain(v, inbox) /\ Seen(bot, v[0]) /\ Told(v[Len(inbox)], arena, watches, rides, crowded)

(* One step of the server, as the message m tells it.                      *)
Tells(m) ==
    /\ \A v : Told(v, arena, watches, rides, crowded) =>
                 Fits(v, m) /\ Told(Effect(v, m), arena', watches', rides', crowded')
    /\ inbox' = Append(inbox, m) /\ airborne' = airborne

(* Who sends what.                                                         *)
LEMMA SaidIs ==
    ASSUME NEW type \in Types, NEW id \in Ids, NEW onto \in Keys,
           NEW name \in Names \cup {NoName}
    PROVE  LET m == Message(type, id, onto, name)
           IN  /\ m \in Messages /\ m.type = type /\ m.id = id /\ m.onto = onto
               /\ m.name = name /\ m.watching = (id \in watches')
BY DEF Message, Messages

(* A player enters the arena.                                              *)
LEMMA EnterTells ==
    ASSUME Outside, NEW id \in Ids, NEW name \in Names, Enter(id, name)
    PROVE  \E m : Tells(m)
<1> DEFINE m == Message("enter", id, UnassignedId, name)
<1>1. /\ m \in Messages /\ m.type = "enter" /\ m.id = id /\ m.onto = UnassignedId
      /\ m.name = name /\ m.watching = (id \in watches')
  BY KeysAre, SaidIs DEF Types
<1>2. inbox' = Append(inbox, m) /\ airborne' = airborne
  BY DEF Enter, Announce
<1> HIDE DEF m
<1>3. /\ id \notin DOMAIN arena
      /\ arena' = [k \in DOMAIN arena \cup {id} |-> IF k = id THEN name ELSE arena[k]]
      /\ watches' \in {watches, watches \cup {id}} /\ crowded' = crowded
      /\ rides' = [k \in DOMAIN rides \cup {id} |-> IF k = id THEN UnassignedId ELSE rides[k]]
      /\ DOMAIN rides = DOMAIN arena /\ watches \subseteq DOMAIN arena
  BY DEF Enter, Outside
<1>6. ASSUME NEW v, Told(v, arena, watches, rides, crowded)
      PROVE  Fits(v, m) /\ Told(Effect(v, m), arena', watches', rides', crowded')
  <2> DEFINE w == Effect(v, m)
             at == [k \in DOMAIN v.rides \cup {id} |->
                       IF k = id THEN UnassignedId ELSE v.rides[k]]
  <2>1. v.name = arena /\ v.watches = watches /\ DOMAIN v.rides = DOMAIN arena
    BY <1>6 DEF Told
  <2>2. Fits(v, m)
    BY <1>1, <1>3, <2>1 DEF Fits
  <2>3. w.name = arena' /\ w.rides = at /\ w.watches = Watching(v, m)
    BY <1>1, <1>3, <2>1, ConstantsAssumption DEF Effect
  <2> HIDE DEF w
  <2>4. Watching(v, m) = watches'
    BY <1>1, <1>3, <2>1 DEF Watching
  <2>5. /\ DOMAIN at = DOMAIN arena' /\ DOMAIN arena' = DOMAIN arena \cup {id}
        /\ at[id] = UnassignedId /\ rides'[id] = UnassignedId
        /\ \A k \in DOMAIN arena : at[k] = v.rides[k] /\ rides'[k] = rides[k]
    BY <1>3, <2>1
  <2> HIDE DEF at
  <2>6. Told(w, arena', watches', rides', crowded')
    BY <1>3, <1>6, <2>3, <2>4, <2>5 DEF Told
  <2> QED
    BY <2>2, <2>6 DEF w
<1> QED
  BY <1>2, <1>6 DEF Tells

(* The bot takes the first rider in its view for all: of a rider whom it   *)
(* leaves where he is there was another, or one had been left before.      *)
LEMMA ShakenOff ==
    ASSUME Outside, NEW v, Told(v, arena, watches, rides, crowded), NEW id \in DOMAIN arena,
           NEW k \in DOMAIN arena
    PROVE  /\ Shaken(v.rides, id, k) => v.rides[k] = id
           /\ rides[k] = id => Shaken(v.rides, id, k) \/ id \in crowded \cup Crowd(id)
<1>1. Shaken(v.rides, id, k) => v.rides[k] = id
  BY DEF Shaken
<1>2. ASSUME rides[k] = id, id \notin crowded \cup Crowd(id)
      PROVE  Shaken(v.rides, id, k)
  <2> DEFINE R == {j \in DOMAIN v.rides : v.rides[j] = id}
  <2>1. DOMAIN arena \subseteq Ids /\ DOMAIN rides = DOMAIN arena
    BY DEF Outside
  <2>2. DOMAIN v.rides = DOMAIN arena
    BY DEF Told
  <2>3. id # UnassignedId
    BY <2>1, KeysAre
  <2>4. \A j \in R : rides[j] = id
    BY <1>2, <2>2, <2>3 DEF Told
  <2>5. k \in R
    BY <1>2, <2>2, <2>3 DEF Told
  <2>6. \A j \in R : j = k
    BY <1>2, <2>1, <2>2, <2>4 DEF Crowd, Riders
  <2>7. R \in SUBSET Nat
    BY <2>1, <2>2, KeysAre
  <2>8. v.rides[k] = id
    BY <2>5
  <2> HIDE DEF R
  <2>9. Min(R) = k
    BY <2>5, <2>6, <2>7, MinIs
  <2> QED
    BY <2>2, <2>8, <2>9 DEF Shaken, R
<1> QED
  BY <1>1, <1>2

(* A player leaves the arena, and those who ride on him are on their own.  *)
LEMMA LeaveTells ==
    ASSUME Outside, NEW id \in DOMAIN arena, Leave(id)
    PROVE  \E m : Tells(m)
<1> DEFINE m == Message("leave", id, UnassignedId, NoName)
<1>0. id \in Ids
  BY DEF Outside
<1>1. m \in Messages /\ m.type = "leave" /\ m.id = id
  BY <1>0, KeysAre, SaidIs DEF Types
<1>2. inbox' = Append(inbox, m) /\ airborne' = airborne
  BY DEF Leave, Announce
<1> HIDE DEF m
<1>3. /\ arena' = [k \in DOMAIN arena \ {id} |-> arena[k]]
      /\ watches' = watches \ {id}
      /\ rides' = [k \in DOMAIN rides \ {id} |->
                      IF rides[k] = id THEN UnassignedId ELSE rides[k]]
      /\ crowded' = crowded \cup Crowd(id)
      /\ DOMAIN rides = DOMAIN arena
  BY DEF Leave, Outside
<1>6. ASSUME NEW v, Told(v, arena, watches, rides, crowded)
      PROVE  Fits(v, m) /\ Told(Effect(v, m), arena', watches', rides', crowded')
  <2> DEFINE w == Effect(v, m)
             at == [k \in DOMAIN v.rides \ {id} |->
                       IF Shaken(v.rides, id, k) THEN UnassignedId ELSE v.rides[k]]
  <2>1. v.name = arena /\ v.watches = watches /\ DOMAIN v.rides = DOMAIN arena
    BY <1>6 DEF Told
  <2>2. Fits(v, m)
    BY <1>1, <2>1 DEF Fits
  <2>3. w.name = arena' /\ w.rides = at /\ w.watches = watches'
    BY <1>1, <1>3, <2>1, ConstantsAssumption DEF Effect
  <2> HIDE DEF w
  <2>4. /\ DOMAIN at = DOMAIN arena' /\ DOMAIN arena' = DOMAIN arena \ {id}
        /\ \A k \in DOMAIN arena' :
              /\ at[k] = IF Shaken(v.rides, id, k) THEN UnassignedId ELSE v.rides[k]
              /\ rides'[k] = IF rides[k] = id THEN UnassignedId ELSE rides[k]
    BY <1>3, <2>1
  <2> HIDE DEF at
  <2>5. \A k \in DOMAIN arena :
           /\ Shaken(v.rides, id, k) => v.rides[k] = id
           /\ rides[k] = id => Shaken(v.rides, id, k) \/ id \in crowded'
    BY <1>3, <1>6, ShakenOff
  <2>6. \A k \in DOMAIN arena' :
           /\ rides'[k] # UnassignedId => rides'[k] \in DOMAIN arena' /\ at[k] = rides'[k]
           /\ rides'[k] = UnassignedId => at[k] \in crowded' \cup {UnassignedId}
    BY <1>0, <1>3, <1>6, <2>4, <2>5 DEF Told
  <2>7. Told(w, arena', watches', rides', crowded')
    BY <2>3, <2>4, <2>6 DEF Told
  <2> QED
    BY <2>2, <2>7 DEF w
<1> QED
  BY <1>2, <1>6 DEF Tells

(* A player shakes off those who ride on him.                              *)
LEMMA ShakeOffTells ==
    ASSUME Outside, NEW id \in DOMAIN arena, ShakeOff(id)
    PROVE  \E m : Tells(m)
<1> DEFINE m == Message("shake", id, UnassignedId, NoName)
<1>0. id \in Ids
  BY DEF Outside
<1>1. m \in Messages /\ m.type = "shake" /\ m.id = id
  BY <1>0, KeysAre, SaidIs DEF Types
<1>2. inbox' = Append(inbox, m) /\ airborne' = airborne
  BY DEF ShakeOff, Announce
<1> HIDE DEF m
<1>3. /\ arena' = arena /\ watches' = watches
      /\ rides' = [k \in DOMAIN rides |-> IF rides[k] = id THEN UnassignedId ELSE rides[k]]
      /\ crowded' = crowded \cup Crowd(id)
      /\ DOMAIN rides = DOMAIN arena
  BY DEF ShakeOff, Outside
<1>6. ASSUME NEW v, Told(v, arena, watches, rides, crowded)
      PROVE  Fits(v, m) /\ Told(Effect(v, m), arena', watches', rides', crowded')
  <2> DEFINE w == Effect(v, m)
             at == [k \in DOMAIN v.rides |->
                       IF Shaken(v.rides, id, k) THEN UnassignedId ELSE v.rides[k]]
  <2>1. v.name = arena /\ v.watches = watches /\ DOMAIN v.rides = DOMAIN arena
    BY <1>6 DEF Told
  <2>2. Fits(v, m)
    BY <1>1, <2>1 DEF Fits
  <2>3. w.name = arena' /\ w.rides = at /\ w.watches = watches'
    BY <1>1, <1>3, <2>1, ConstantsAssumption DEF Effect
  <2> HIDE DEF w
  <2>4. /\ DOMAIN at = DOMAIN arena
        /\ \A k \in DOMAIN arena :
              /\ at[k] = IF Shaken(v.rides, id, k) THEN UnassignedId ELSE v.rides[k]
              /\ rides'[k] = IF rides[k] = id THEN UnassignedId ELSE rides[k]
    BY <1>3, <2>1
  <2> HIDE DEF at
  <2>5. \A k \in DOMAIN arena :
           /\ Shaken(v.rides, id, k) => v.rides[k] = id
           /\ rides[k] = id => Shaken(v.rides, id, k) \/ id \in crowded'
    BY <1>3, <1>6, ShakenOff
  <2>6. \A k \in DOMAIN arena :
           /\ rides'[k] # UnassignedId => rides'[k] \in DOMAIN arena /\ at[k] = rides'[k]
           /\ rides'[k] = UnassignedId => at[k] \in crowded' \cup {UnassignedId}
    BY <1>0, <1>3, <1>6, <2>4, <2>5 DEF Told
  <2>7. Told(w, arena', watches', rides', crowded')
    BY <1>3, <2>3, <2>4, <2>6 DEF Told
  <2> QED
    BY <2>2, <2>7 DEF w
<1> QED
  BY <1>2, <1>6 DEF Tells

(* A player mounts another one or lets go of him.                          *)
LEMMA RideTells ==
    ASSUME Outside, NEW id \in DOMAIN arena, NEW onto \in Keys,
           \/ Detach(id) /\ onto = UnassignedId
           \/ onto \in DOMAIN arena /\ Attach(id, onto)
    PROVE  \E m : Tells(m)
<1> DEFINE m == Message("turret", id, onto, NoName)
<1>0. id \in Ids
  BY DEF Outside
<1>1. m \in Messages /\ m.type = "turret" /\ m.id = id /\ m.onto = onto
  BY <1>0, KeysAre, SaidIs DEF Types
<1>2. inbox' = Append(inbox, m) /\ airborne' = airborne
  BY DEF Detach, Attach, Announce
<1> HIDE DEF m
<1>3. /\ arena' = arena /\ watches' = watches /\ crowded' = crowded
      /\ rides' = [rides EXCEPT ![id] = onto]
      /\ DOMAIN rides = DOMAIN arena
      /\ onto \in DOMAIN arena \/ (onto = UnassignedId /\ rides[id] # UnassignedId)
  <2>1. DOMAIN rides = DOMAIN arena
    BY DEF Outside
  <2>2. CASE Detach(id) /\ onto = UnassignedId
    BY <2>1, <2>2 DEF Detach
  <2>3. CASE onto \in DOMAIN arena /\ Attach(id, onto)
    BY <2>1, <2>3 DEF Attach
  <2> QED
    BY <2>1, <2>2, <2>3
<1>6. ASSUME NEW v, Told(v, arena, watches, rides, crowded)
      PROVE  Fits(v, m) /\ Told(Effect(v, m), arena', watches', rides', crowded')
  <2> DEFINE w == Effect(v, m)
             at == [k \in DOMAIN v.rides |-> IF k = id THEN onto ELSE v.rides[k]]
  <2>1. v.name = arena /\ v.watches = watches /\ DOMAIN v.rides = DOMAIN arena
    BY <1>6 DEF Told
  <2>2. rides[id] # UnassignedId => v.rides[id] \in DOMAIN arena
    BY <1>6 DEF Told
  <2>3. Fits(v, m)
    BY <1>1, <1>3, <2>1, <2>2 DEF Fits
  <2>4. w.name = arena' /\ w.rides = at /\ w.watches = watches'
    BY <1>1, <1>3, <2>1, ConstantsAssumption DEF Effect
  <2> HIDE DEF w
  <2>5. /\ DOMAIN at = DOMAIN arena
        /\ \A k \in DOMAIN arena :
              /\ at[k] = IF k = id THEN onto ELSE v.rides[k]
              /\ rides'[k] = IF k = id THEN onto ELSE rides[k]
    BY <1>3, <2>1
  <2> HIDE DEF at
  <2>6. Told(w, arena', watches', rides', crowded')
    BY <1>3, <1>6, <2>4, <2>5 DEF Told
  <2> QED
    BY <2>3, <2>6 DEF w
<1> QED
  BY <1>2, <1>6 DEF Tells

(* A player changes his ship.                                              *)
LEMMA ChangeShipTells ==
    ASSUME Outside, NEW id \in DOMAIN arena, ChangeShip(id)
    PROVE  \E m : Tells(m)
<1>0. id \in Ids /\ watches \subseteq DOMAIN arena
  BY DEF Outside
<1>1. PICK type \in {"team", "ship", "spec"} :
              /\ type = "spec" => id \in watches'
              /\ Announce(Message(type, id, UnassignedId, NoName))
  BY DEF ChangeShip
<1> DEFINE m == Message(type, id, UnassignedId, NoName)
<1>2. m \in Messages /\ m.type = type /\ m.id = id /\ m.watching = (id \in watches')
  BY <1>0, KeysAre, SaidIs DEF Types
<1>3. inbox' = Append(inbox, m) /\ airborne' = airborne
  BY <1>1 DEF ChangeShip, Announce
<1> HIDE DEF m
<1>4. /\ arena' = arena /\ rides' = rides /\ crowded' = crowded
      /\ watches' = IF id \in watches THEN watches \ {id} ELSE watches \cup {id}
  BY DEF ChangeShip
<1>6. ASSUME NEW v, Told(v, arena, watches, rides, crowded)
      PROVE  Fits(v, m) /\ Told(Effect(v, m), arena', watches', rides', crowded')
  <2> DEFINE w == Effect(v, m)
  <2>1. v.name = arena /\ v.watches = watches /\ DOMAIN v.rides = DOMAIN arena
    BY <1>6 DEF Told
  <2>2. Fits(v, m)
    BY <1>1, <1>2, <2>1 DEF Fits
  <2>3. w.name = v.name /\ w.rides = v.rides /\ w.watches = Watching(v, m)
    BY <1>2, ConstantsAssumption DEF Effect
  <2> HIDE DEF w
  <2>4. Watching(v, m) = watches'
    BY <1>2, <1>4, <2>1 DEF Watching
  <2>5. Told(w, arena', watches', rides', crowded')
    BY <1>4, <1>6, <2>3, <2>4 DEF Told
  <2> QED
    BY <2>2, <2>5 DEF w
<1> QED
  BY <1>3, <1>6 DEF Tells

(* A player says something to the bot.                                     *)
LEMMA ChatTells ==
    ASSUME Outside, NEW id \in DOMAIN arena, NEW command \in Commands,
           NEW name \in Names \cup {NoName}, Chat(id, command, name)
    PROVE  \E m : Tells(m)
<1> DEFINE m == Message(command, id, UnassignedId, name)
<1>0. id \in Ids
  BY DEF Outside
<1>1. m \in Messages /\ m.type = command /\ m.id = id
  <2>1. command \in Types /\ UnassignedId \in Keys
    BY KeysAre DEF Types
  <2> HIDE DEF m
  <2>2. LET s == Message(command, id, UnassignedId, name)
        IN  s \in Messages /\ s.type = command /\ s.id = id
    BY <1>0, <2>1, SaidIs
  <2> QED
    BY <2>2 DEF m
<1>2. inbox' = Append(inbox, m) /\ airborne' = airborne
  BY DEF Chat, Announce
<1> HIDE DEF m
<1>3. arena' = arena /\ rides' = rides /\ watches' = watches /\ crowded' = crowded
  BY DEF Chat
<1>5. ASSUME NEW v, Told(v, arena, watches, rides, crowded)
      PROVE  Fits(v, m) /\ Told(Effect(v, m), arena', watches', rides', crowded')
  <2>1. v.name = arena
    BY <1>5 DEF Told
  <2>2. Fits(v, m)
    BY <1>1, <2>1, ConstantsAssumption DEF Fits
  <2>3. Effect(v, m) = v
    BY <1>1, ConstantsAssumption DEF Effect
  <2> QED
    BY <1>3, <1>5, <2>2, <2>3
<1> QED
  BY <1>2, <1>5 DEF Tells


-----------------------------------------------------------------------------
(* A bot that knows nobody sees an empty arena, and will be told of        *)
(* everybody who is there.                                                 *)
LEMMA InitIsInStep == Init => InStep
<1> SUFFICES ASSUME Init PROVE InStep
  OBVIOUS
<1>1. Orderly
  BY InitIsOrderly
<1>2. /\ Populated /\ airborne = {} /\ bot.players = <<>> /\ bot.playerIds = <<>>
  BY DEF Init
<1>3. DOMAIN bot.players = {} /\ DOMAIN bot.playerIds = {}
  BY <1>2
<1>4. Assigned(bot) = {} /\ Listed(bot) = {} /\ IsInjective(bot.playerIds)
  BY <1>3 DEF Assigned, Listed, IsInjective
<1>5. Clean(bot)
  BY <1>3, <1>4 DEF Clean
<1>6. /\ DOMAIN arena \subseteq Ids /\ \A id \in DOMAIN arena : arena[id] \in Names
      /\ arena = [id \in DOMAIN arena |-> arena[id]]
      /\ rides \in [DOMAIN arena -> DOMAIN arena \cup {UnassignedId}]
      /\ watches \subseteq DOMAIN arena
  BY <1>2, PopulatedIs
<1>7. PICK n \in Nat : \E order \in [1 .. n -> DOMAIN arena] :
              /\ \A id \in DOMAIN arena : \E k \in 1 .. n : order[k] = id
              /\ \A j, k \in 1 .. n : order[j] = order[k] => j = k
              /\ inbox = [k \in 1 .. n |-> Entering(order[k])]
  BY <1>2, PopulatedIs
<1>8. PICK order \in [1 .. n -> DOMAIN arena] :
              /\ \A id \in DOMAIN arena : \E k \in 1 .. n : order[k] = id
              /\ \A j, k \in 1 .. n : order[j] = order[k] => j = k
              /\ inbox = [k \in 1 .. n |-> Entering(order[k])]
  BY <1>7
<1> DEFINE there(i) == {order[k] : k \in 1 .. i}
           view(S) == [name |-> [id \in S |-> arena[id]],
                       rides |-> [id \in S |-> rides[id]],
                       watches |-> watches \cap S]
           v == [i \in 0 .. n |-> view(there(i))]
<1>9. Len(inbox) = n /\ \A i \in 1 .. n : inbox[i] = Entering(order[i])
  BY <1>7, <1>8
<1>10. /\ there(0) = {} /\ there(n) = DOMAIN arena
       /\ \A i \in 1 .. n : /\ there(i) = there(i - 1) \cup {order[i]}
                            /\ order[i] \notin there(i - 1)
                            /\ there(i) \subseteq DOMAIN arena
  <2>1. there(0) = {} /\ there(n) = DOMAIN arena
    <3>1. \A k \in 1 .. 0 : FALSE
      OBVIOUS
    <3>2. \A k \in 1 .. n : order[k] \in DOMAIN arena
      BY <1>8
    <3>3. \A id \in DOMAIN arena : \E k \in 1 .. n : order[k] = id
      BY <1>8
    <3>4. there(0) = {}
      BY <3>1
    <3>5. there(n) = DOMAIN arena
      BY <3>2, <3>3
    <3> QED
      BY <3>4, <3>5
  <2>2. ASSUME NEW i \in 1 .. n
        PROVE  /\ there(i) = there(i - 1) \cup {order[i]}
               /\ order[i] \notin there(i - 1) /\ there(i) \subseteq DOMAIN arena
    <3>1. \A k : k \in 1 .. i <=> k \in 1 .. i - 1 \/ k = i
      BY <1>7
    <3>2. i \notin 1 .. i - 1 /\ \A k \in 1 .. i : k \in 1 .. n
      BY <1>7
    <3> QED
      BY <1>8, <3>1, <3>2
  <2> QED
    BY <2>1, <2>2
<1> HIDE DEF there
<1>11. \A i \in 0 .. n : v[i] = view(there(i))
  OBVIOUS
<1> HIDE DEF v
<1>12. Chain(v, inbox)
  <2> SUFFICES ASSUME NEW i \in 1 .. n
               PROVE  Fits(v[i - 1], inbox[i]) /\ v[i] = Effect(v[i - 1], inbox[i])
    BY <1>9 DEF Chain
  <2> DEFINE S == there(i - 1)
             T == there(i)
             m == inbox[i]
             id == order[i]
             u == view(S)
  <2>1. /\ S \cup {id} = T /\ id \notin S /\ T \subseteq DOMAIN arena /\ id \in DOMAIN arena
        /\ v[i - 1] = u /\ v[i] = view(T)
    <3>1. i - 1 \in 0 .. n /\ i \in 0 .. n
      BY <1>7
    <3> QED
      BY <1>8, <1>10, <1>11, <3>1
  <2>2. /\ m \in Messages /\ m.type = "enter" /\ m.id = id /\ m.onto = rides[id]
        /\ m.name = arena[id] /\ m.watching = (id \in watches)
    <3>1. m = Entering(id) /\ id \in Ids /\ arena[id] \in Names /\ rides[id] \in Keys
      BY <1>6, <1>9, <2>1, KeysAre
    <3> HIDE DEF m, id
    <3> QED
      BY <3>1 DEF Entering, Messages, Types
  <2> HIDE DEF S, T, m, id
  <2>3. /\ DOMAIN u.name = S /\ DOMAIN u.rides = S /\ u.watches = watches \cap S
        /\ \A k \in S : u.name[k] = arena[k] /\ u.rides[k] = rides[k]
    OBVIOUS
  <2> HIDE DEF u
  <2>4. Fits(u, m)
    BY <2>1, <2>2, <2>3 DEF Fits
  <2>5. [k \in DOMAIN u.name \cup {m.id} |-> IF k = m.id THEN m.name ELSE u.name[k]]
            = [k \in T |-> arena[k]]
    BY <2>1, <2>2, <2>3
  <2>6. [k \in DOMAIN u.rides \cup {m.id} |-> IF k = m.id THEN m.onto ELSE u.rides[k]]
            = [k \in T |-> rides[k]]
    BY <2>1, <2>2, <2>3
  <2>7. Watching(u, m) = watches \cap T
    BY <2>1, <2>2, <2>3 DEF Watching
  <2>8. Effect(u, m) = view(T)
    BY <2>2, <2>5, <2>6, <2>7, ConstantsAssumption DEF Effect
  <2> QED
    BY <2>1, <2>4, <2>8 DEF m
<1>13. 0 \in 0 .. n /\ n \in 0 .. n
  BY <1>7
<1>14. Seen(bot, v[0])
  <2>1. v[0] = view({})
    BY <1>10, <1>11, <1>13
  <2> QED
    BY <1>4, <2>1 DEF Seen
<1>15. Told(v[Len(inbox)], arena, watches, rides, crowded)
  <2>1. v[Len(inbox)] = view(DOMAIN arena)
    BY <1>9, <1>10, <1>11, <1>13
  <2>2. crowded = {}
    BY DEF Init
  <2> DEFINE u == view(DOMAIN arena)
  <2>3. /\ u.name = arena /\ u.watches = watches /\ DOMAIN u.rides = DOMAIN arena
        /\ \A k \in DOMAIN arena : u.rides[k] = rides[k]
    BY <1>6
  <2> HIDE DEF u
  <2>4. Told(u, arena, watches, rides, crowded)
    BY <1>6, <2>3 DEF Told
  <2> QED
    BY <2>1, <2>4 DEF u
<1> QED
  BY <1>1, <1>2, <1>5, <1>12, <1>14, <1>15 DEF InStep, Orderly

(* A message is handled, and the bot sees the next view.                   *)
LEMMA HandleInStep ==
    ASSUME InStep, Orderly', HandleNext
    PROVE  InStep'
<1>1. /\ Tidy(bot) /\ Outside /\ airborne = {} /\ Clean(bot) /\ inbox # <<>>
      /\ inbox \in Seq(Messages)
  BY DEF InStep, HandleNext, Outside
<1>2. PICK v : Chain(v, inbox) /\ Seen(bot, v[0]) /\ Told(v[Len(inbox)], arena, watches, rides, crowded)
  BY DEF InStep
<1> DEFINE m == Head(inbox)
           w == [i \in Nat |-> v[i + 1]]
<1>3. /\ bot' = Handle(bot, m) /\ inbox' = Tail(inbox) /\ arena' = arena
      /\ watches' = watches /\ rides' = rides /\ airborne' = airborne /\ crowded' = crowded
  BY DEF HandleNext
<1>4. /\ Len(inbox) \in Nat \ {0} /\ Len(inbox') = Len(inbox) - 1 /\ m = inbox[1]
      /\ \A i \in 1 .. Len(inbox') : inbox'[i] = inbox[i + 1]
  BY <1>1, <1>3
<1> HIDE DEF m
<1>5. Fits(v[0], m) /\ v[1] = Effect(v[0], m)
  BY <1>2, <1>4 DEF Chain
<1>6. Clean(bot') /\ Seen(bot', v[1])
  BY <1>1, <1>2, <1>3, <1>5, HandleSeen
<1>7. \A i \in Nat : w[i] = v[i + 1]
  OBVIOUS
<1> HIDE DEF w
<1>8. Chain(w, inbox')
  <2> SUFFICES ASSUME NEW i \in 1 .. Len(inbox')
               PROVE  Fits(w[i - 1], inbox'[i]) /\ w[i] = Effect(w[i - 1], inbox'[i])
    BY DEF Chain
  <2> DEFINE j == i + 1
  <2>1. j \in 1 .. Len(inbox) /\ j - 1 = i
    BY <1>4
  <2>2. Fits(v[j - 1], inbox[j]) /\ v[j] = Effect(v[j - 1], inbox[j])
    BY <1>2, <2>1 DEF Chain
  <2>3. w[i - 1] = v[j - 1] /\ w[i] = v[j]
    <3>1. i - 1 \in Nat /\ i \in Nat /\ (i - 1) + 1 = i /\ j - 1 = i
      BY <1>4, <2>1
    <3> QED
      BY <1>7, <3>1
  <2>4. inbox'[i] = inbox[j]
    BY <1>4
  <2> HIDE DEF j
  <2> QED
    BY <2>2, <2>3, <2>4
<1>9. w[0] = v[1] /\ w[Len(inbox')] = v[Len(inbox)]
  BY <1>4, <1>7
<1>10. Seen(bot', w[0]) /\ Told(w[Len(inbox')], arena', watches', rides', crowded')
  BY <1>2, <1>3, <1>6, <1>9
<1>11. Outside'
  BY <1>1, <1>3 DEF Orderly
<1>12. airborne' = {} /\ airborne' \subseteq DOMAIN arena'
  BY <1>1, <1>3
<1> QED
  BY <1>6, <1>8, <1>10, <1>11, <1>12 DEF InStep, Orderly

(* The server sends another message, and there is a view more.             *)
LEMMA TellsInStep ==
    ASSUME InStep, Orderly', airborne = {}, bot' = bot, NEW m, Tells(m)
    PROVE  InStep'
<1>1. inbox \in Seq(Messages) /\ Clean(bot)
  BY DEF InStep, Outside
<1>2. PICK v : Chain(v, inbox) /\ Seen(bot, v[0]) /\ Told(v[Len(inbox)], arena, watches, rides, crowded)
  BY DEF InStep
<1> DEFINE n == Len(inbox)
           last == Effect(v[n], m)
           w == [i \in Nat |-> IF i <= n THEN v[i] ELSE last]
<1>3. Fits(v[n], m) /\ Told(last, arena', watches', rides', crowded')
  BY <1>2 DEF Tells
<1>4. inbox' = Append(inbox, m) /\ m \in Messages
  BY <1>3 DEF Tells, Fits
<1>5. /\ n \in Nat /\ Len(inbox') = n + 1 /\ inbox'[n + 1] = m
      /\ \A i \in 1 .. n : inbox'[i] = inbox[i]
  BY <1>1, <1>4
<1>6. Chain(v, inbox)
  BY <1>2
<1>7. \A i \in 0 .. n : w[i] = v[i]
  BY <1>5
<1>8. w[n + 1] = last
  BY <1>5
<1> HIDE DEF w, last
<1>9. Chain(w, inbox')
  <2> SUFFICES ASSUME NEW i \in 1 .. n + 1
               PROVE  Fits(w[i - 1], inbox'[i]) /\ w[i] = Effect(w[i - 1], inbox'[i])
    BY <1>5 DEF Chain
  <2>1. CASE i \in 1 .. n
    <3>1. i - 1 \in 0 .. n /\ i \in 0 .. n
      BY <1>5, <2>1
    <3>2. w[i - 1] = v[i - 1] /\ w[i] = v[i] /\ inbox'[i] = inbox[i]
      BY <1>5, <1>7, <2>1, <3>1
    <3>3. Fits(v[i - 1], inbox[i]) /\ v[i] = Effect(v[i - 1], inbox[i])
      BY <1>6, <2>1 DEF Chain
    <3> QED
      BY <3>2, <3>3
  <2>2. CASE i = n + 1
    <3>1. i - 1 = n /\ n \in 0 .. n
      BY <1>5, <2>2
    <3>2. w[i - 1] = v[n] /\ w[i] = last /\ inbox'[i] = m
      BY <1>5, <1>7, <1>8, <2>2, <3>1
    <3> QED
      BY <1>3, <3>2 DEF last
  <2> QED
    BY <1>5, <2>1, <2>2
<1>10. w[0] = v[0] /\ w[Len(inbox')] = last
  BY <1>5, <1>7, <1>8
<1>11. Seen(bot', w[0]) /\ Told(w[Len(inbox')], arena', watches', rides', crowded')
  BY <1>2, <1>3, <1>10
<1>12. Outside' /\ airborne' = {} /\ airborne' \subseteq DOMAIN arena' /\ Clean(bot')
  BY <1>1 DEF Tells, Outside, Orderly
<1> QED
  BY <1>9, <1>11, <1>12 DEF InStep, Orderly

(* The arena and the messages under way are as they were, and so is what   *)
(* the bot sees.                                                           *)
LEMMA StutterInStep ==
    ASSUME InStep, Orderly', UNCHANGED <<arena, watches, rides, crowded, inbox>>,
           airborne' # {} => inbox = <<>>, airborne' \subseteq DOMAIN arena,
           Like(bot, bot', {}), Quiet(bot, bot')
    PROVE  InStep'
<1>1. PICK v : Chain(v, inbox) /\ Seen(bot, v[0]) /\ Told(v[Len(inbox)], arena, watches, rides, crowded)
  BY DEF InStep
<1>2. Seen(bot', v[0])
  BY <1>1 DEF Seen, Like, Quiet
<1>3. Clean(bot')
  BY CleanStays DEF Like, InStep
<1>4. Outside'
  BY DEF Orderly
<1> QED
  BY <1>1, <1>2, <1>3, <1>4 DEF InStep, Orderly

(* Without overtaking every step keeps the bot in step with the arena.     *)
LEMMA StepIsInStep ==
    ASSUME ~Overtaking, InStep, Orderly', [Next]_vars
    PROVE  InStep'
<1>1. /\ Tidy(bot) /\ Outside /\ airborne \subseteq DOMAIN arena
      /\ airborne # {} => inbox = <<>>
  BY DEF InStep
<1>2. Like(bot, bot, {}) /\ Quiet(bot, bot)
  BY <1>1, LikeSame
<1>3. CASE HandleNext
  BY <1>3, HandleInStep
<1>4. CASE SpectateNext
  <2>1. Like(bot, bot', {}) /\ Quiet(bot, bot')
    BY <1>1, <1>4, SpectateIs
  <2>2. UNCHANGED <<arena, watches, rides, crowded, inbox>> /\ airborne' = airborne
    BY <1>4 DEF SpectateNext
  <2> QED
    BY <1>1, <2>1, <2>2, StutterInStep
<1>5. ASSUME NEW id \in airborne, HandlePosition(id) PROVE InStep'
  <2>1. inbox = <<>> /\ id \in DOMAIN arena
    BY <1>1
  <2>2. PICK v : Chain(v, inbox) /\ Seen(bot, v[0]) /\ Told(v[Len(inbox)], arena, watches, rides, crowded)
    BY DEF InStep
  <2>3. id \in Assigned(bot)
    BY <2>1, <2>2 DEF Seen, Told
  <2>4. bot' = bot
    BY <1>5, <2>3 DEF HandlePosition, GetPlayer, Assigned
  <2>5. UNCHANGED <<arena, watches, rides, crowded, inbox>> /\ airborne' \subseteq airborne
    BY <1>5 DEF HandlePosition
  <2> QED
    BY <1>1, <1>2, <2>1, <2>4, <2>5, StutterInStep
<1>6. ASSUME NEW id \in DOMAIN arena, SendPosition(id) PROVE InStep'
  <2>1. inbox = <<>> /\ airborne' \subseteq DOMAIN arena
    BY <1>1, <1>6 DEF SendPosition
  <2>2. UNCHANGED <<arena, watches, rides, crowded, inbox>> /\ bot' = bot
    BY <1>6 DEF SendPosition
  <2> QED
    BY <1>2, <2>1, <2>2, StutterInStep
<1>7. ASSUME Settled,
             \/ \E id \in Ids, name \in Names : Enter(id, name)
             \/ \E id \in DOMAIN arena :
                   \/ Leave(id) \/ ChangeShip(id) \/ Detach(id) \/ ShakeOff(id)
                   \/ \E onto \in DOMAIN arena : Attach(id, onto)
                   \/ \E command \in Commands \cap {"give", "follow"}, name \in Names :
                         Chat(id, command, name)
                   \/ \E command \in Commands \ {"give", "follow"} : Chat(id, command, NoName)
      PROVE  InStep'
  <2>1. airborne = {}
    BY <1>7 DEF Settled
  <2>2. bot' = bot
    BY <1>1, <1>7, ServerIsOrderly DEF Outside
  <2>3. \E m : Tells(m)
    <3>1. /\ UnassignedId \in Keys /\ DOMAIN arena \subseteq Keys
          /\ NoName \in Names \cup {NoName} /\ Names \subseteq Names \cup {NoName}
      BY <1>1, KeysAre DEF Outside
    <3>2. CASE \E id \in Ids, name \in Names : Enter(id, name)
      BY <1>1, <3>2, EnterTells
    <3>3. ASSUME NEW id \in DOMAIN arena, Detach(id) PROVE \E m : Tells(m)
      BY <1>1, <3>1, <3>3, RideTells
    <3>4. ASSUME NEW id \in DOMAIN arena, NEW onto \in DOMAIN arena, Attach(id, onto)
          PROVE  \E m : Tells(m)
      BY <1>1, <3>1, <3>4, RideTells
    <3>5. ASSUME NEW id \in DOMAIN arena,
                 \/ \E command \in Commands \cap {"give", "follow"}, name \in Names :
                       Chat(id, command, name)
                 \/ \E command \in Commands \ {"give", "follow"} : Chat(id, command, NoName)
          PROVE  \E m : Tells(m)
      <4>1. PICK command \in Commands, name \in Names \cup {NoName} : Chat(id, command, name)
        BY <3>1, <3>5
      <4> QED
        BY <1>1, <4>1, ChatTells
    <3> QED
      BY <1>1, <1>7, <3>2, <3>3, <3>4, <3>5, LeaveTells, ChangeShipTells, ShakeOffTells
  <2> QED
    BY <2>1, <2>2, <2>3, TellsInStep
<1>8. CASE UNCHANGED vars
  BY <1>1, <1>2, <1>8, StutterInStep DEF vars
<1> QED
  BY <1>3, <1>4, <1>5, <1>6, <1>7, <1>8 DEF Next

(* Without overtaking, the views of the messages under way lead from what  *)
(* the bot sees to what the arena is.                                      *)
THEOREM Steadiness ==
    ASSUME ~Overtaking
    PROVE  Spec => []InStep
<1>1. InStep /\ Orderly' /\ [Next]_vars => InStep'
  BY StepIsInStep
<1> QED
  BY <1>1, InitIsInStep, Invariance, PTL DEF Spec

(* Nobody is on the list twice, so that it is as long as it has people.    *)
LEMMA ListCounts ==
    ASSUME NEW b \in Bot, IsInjective(b.playerIds)
    PROVE  Cardinality(Listed(b)) = Len(b.playerIds)
<1> DEFINE s == b.playerIds
           D == 1 .. Len(s)
<1>1. s \in Seq(Ids) /\ Len(s) \in Nat /\ DOMAIN s = D
  BY BotIs
<1>2. s \in [D -> Listed(b)] /\ \A x \in Listed(b) : \E k \in D : s[k] = x
  BY <1>1 DEF Listed
<1>3. s \in Surjection(D, Listed(b))
  BY <1>2 DEF Surjection
<1>4. s \in Injection(D, Listed(b))
  BY <1>1, <1>2 DEF Injection, IsInjective
<1>5. IsFiniteSet(D) /\ Cardinality(D) = Len(s)
  <2>1. 1 \in Int /\ Len(s) \in Int
    BY <1>1
  <2> HIDE DEF s
  <2>2. IsFiniteSet(D) /\ Cardinality(D) = IF 1 > Len(s) THEN 0 ELSE Len(s) - 1 + 1
    BY <2>1, FS_Interval
  <2> HIDE DEF D
  <2> QED
    BY <1>1, <2>2
<1> HIDE DEF D, s
<1> QED
  BY <1>3, <1>4, <1>5, FS_Surjection DEF s

(* "Remove player with an already existing Id" (handlePlayerEntering): as  *)
(* long as no packet is early or late, the list has each player once, and  *)
(* with the last message handled the bot knows who is there, under which   *)
(* name and in which ship, and nobody has powers of another's account.     *)
THEOREM PlayersAreThoseOfTheArena ==
    ASSUME ~Overtaking
    PROVE  Spec => []PlayersMatch
<1>1. InStep => PlayersMatch
  <2> SUFFICES ASSUME InStep PROVE PlayersMatch
    OBVIOUS
  <2>1. Tidy(bot) /\ Clean(bot)
    BY DEF InStep
  <2>2. Listed(bot) = Assigned(bot) /\ Cardinality(Listed(bot)) = Len(bot.playerIds)
    BY <2>1, ListCounts DEF Clean, Tidy
  <2>3. ASSUME inbox = <<>>
        PROVE  /\ \A id \in DOMAIN arena :
                    /\ id \in DOMAIN bot.players
                    /\ bot.players[id].ident = id /\ bot.players[id].name = arena[id]
                    /\ bot.players[id].spectator = (id \in watches)
                    /\ bot.players[id].access = "Operator" => arena[id] \in Operators
               /\ \A id \in DOMAIN bot.players \ DOMAIN arena : ~IsAssigned(bot.players[id])
    <3>1. PICK v : Seen(bot, v[0]) /\ Told(v[Len(inbox)], arena, watches, rides, crowded)
      BY DEF InStep
    <3>2. Len(inbox) = 0
      BY <2>3
    <3>3. /\ Assigned(bot) = DOMAIN arena
          /\ \A k \in DOMAIN arena : /\ bot.players[k].name = arena[k]
                                     /\ bot.players[k].spectator = (k \in watches)
      BY <3>1, <3>2 DEF Seen, Told
    <3>4. \A k \in DOMAIN bot.players : Entry(bot.players[k], k)
      BY <2>1 DEF Tidy
    <3> QED
      BY <3>3, <3>4 DEF Assigned, IsAssigned, Entry
  <2> QED
    BY <2>2, <2>3 DEF PlayersMatch, Listed, Assigned
<1> QED
  BY <1>1, Steadiness, PTL

(* "Shaking off turrets" (killTurret, handlePlayerEntering): as long as no *)
(* packet is early or late, and with the last message handled, the bot has *)
(* everybody who rides on another on that one, though he rode on him when  *)
(* the bot came, and however many ride on one; and it has him who rides on *)
(* nobody on one whose several riders were shaken off, if on anybody.      *)
THEOREM RidersAreWhereTheyRide ==
    ASSUME ~Overtaking
    PROVE  Spec => []TurretsMatch
<1>1. InStep => TurretsMatch
  <2> SUFFICES ASSUME InStep, inbox = <<>>, NEW id \in DOMAIN arena
               PROVE  \/ bot.players[id].turretId = rides[id]
                      \/ rides[id] = UnassignedId /\ bot.players[id].turretId \in crowded
    BY DEF TurretsMatch
  <2>1. PICK v : Seen(bot, v[0]) /\ Told(v[Len(inbox)], arena, watches, rides, crowded)
    BY DEF InStep
  <2>2. Len(inbox) = 0
    OBVIOUS
  <2> QED
    BY <2>1, <2>2 DEF Seen, Told
<1> QED
  BY <1>1, Steadiness, PTL
=============================================================================
