----------------------------- MODULE FlagsProofs -----------------------------
(***************************************************************************)
(* Proofs about Flags, for every set of players, teams, flags and spots,   *)
(* and every bound on the messages under way; and, after them, about       *)
(* Playfield, for every size and set of maps.                              *)
(*                                                                         *)
(* A view is the arena as it was between two messages of the server.  The  *)
(* bot sees the first view, the arena is the last, and each message leads  *)
(* from one to the next (Leads): the server sends it in the first of the   *)
(* two, and the handler takes the bot to the second.  This is InStep.  It  *)
(* needs views that have a flag in neither place, since what a player      *)
(* drops is told by a message of its own for each flag; it is the same     *)
(* for the players and flags of an arena that the bot enters.              *)
(***************************************************************************)
EXTENDS Flags, Playfield, ListProofs, FiniteSetTheorems, FunctionTheorems

(* A view of the arena: who is in it, which flags lie in it and which are  *)
(* carried.  A flag may be in neither place: it has been dropped, and      *)
(* where it lies is still to be told.                                      *)
View(a, g, c) == [arena |-> a, ground |-> g, carrier |-> c]

Held(c, id) == {f \in DOMAIN c : c[f] = id}

Sound(v) ==
    /\ v = View(v.arena, v.ground, v.carrier)
    /\ DOMAIN v.arena \subseteq Ids /\ v.arena \in [DOMAIN v.arena -> Teams]
    /\ v.ground \in [DOMAIN v.ground -> Flag]
    /\ v.carrier \in [DOMAIN v.carrier -> DOMAIN v.arena]
    /\ DOMAIN v.ground \cap DOMAIN v.carrier = {}
    /\ DOMAIN v.ground \cup DOMAIN v.carrier \subseteq FlagIds

Unplaced(v) == FlagIds \ (DOMAIN v.ground \cup DOMAIN v.carrier)

(* The flags F change hands.                                               *)
Takes(c, F, id) == [f \in DOMAIN c \cup F |-> IF f \in F THEN id ELSE c[f]]

(* What a bot that sees v knows of each player.                            *)
Entry(v, id) ==
    [team |-> v.arena[id], flagCount |-> Cardinality(Held(v.carrier, id))]

Knows(p, v) == DOMAIN p = DOMAIN v.arena /\ \A k \in DOMAIN p : p[k] = Entry(v, k)

Sees(v) == Knows(players, v) /\ flags = v.ground

Message ==
         [type : {"enter"}, id : Ids, team : Teams, count : Nat]
    \cup [type : {"leave", "spec", "drop"}, id : Ids]
    \cup [type : {"team"}, id : Ids, team : Teams]
    \cup [type : {"death"}, id : Ids, killee : Ids, count : Nat]
    \cup [type : {"claim"}, id : Ids, flag : FlagIds]
    \cup [type : {"flag"}, flag : FlagIds, spot : Spots \cup {"1,1"}, team : Teams \cup {NoTeam}]
    \cup [type : {"victory"}]

(* What the view was before m and what it is after it.                     *)
Enters(v, m, w) ==
    /\ m.id \in Ids \ DOMAIN v.arena /\ m.team \in Teams
    /\ \E F \in SUBSET Unplaced(v) :
          /\ m.count = Cardinality(F)
          /\ w = View(Put(v.arena, m.id, m.team), v.ground, Takes(v.carrier, F, m.id))

Leaves(v, m, w) ==
    /\ m.id \in DOMAIN v.arena
    /\ w = View(Without(v.arena, {m.id}), v.ground, Without(v.carrier, Held(v.carrier, m.id)))

ChangesTeam(v, m, w) ==
    /\ m.id \in DOMAIN v.arena /\ m.team \in Teams
    /\ w = View([v.arena EXCEPT ![m.id] = m.team], v.ground,
                Without(v.carrier, Held(v.carrier, m.id)))

Drops(v, m, w) ==
    /\ m.id \in DOMAIN v.arena
    /\ w = View(v.arena, v.ground, Without(v.carrier, Held(v.carrier, m.id)))

Kills(v, m, w) ==
    /\ m.id \in DOMAIN v.arena /\ m.killee \in DOMAIN v.arena \ {m.id}
    /\ \/ /\ m.count = Cardinality(Held(v.carrier, m.killee))
          /\ w = View(v.arena, v.ground, Takes(v.carrier, Held(v.carrier, m.killee), m.id))
       \/ /\ m.count = 0
          /\ w = View(v.arena, v.ground, Without(v.carrier, Held(v.carrier, m.killee)))

Claims(v, m, w) ==
    /\ m.id \in DOMAIN v.arena /\ m.flag \in DOMAIN v.ground
    /\ w = View(v.arena, Without(v.ground, {m.flag}), Takes(v.carrier, {m.flag}, m.id))

Places(v, m, w) ==
    /\ m.flag \in Unplaced(v)
    /\ m.spot \in Spots \cup {"1,1"} /\ m.team \in Teams \cup {NoTeam}
    /\ w = View(v.arena, Put(v.ground, m.flag, [spot |-> m.spot, team |-> m.team]), v.carrier)

Wins(v, m, w) == w = View(v.arena, <<>>, <<>>)

Leads(v, m, w) ==
    /\ m \in Message
    /\ m.type = "enter"            => Enters(v, m, w)
    /\ m.type = "leave"            => Leaves(v, m, w)
    /\ m.type = "team"             => ChangesTeam(v, m, w)
    /\ m.type \in {"spec", "drop"} => Drops(v, m, w)
    /\ m.type = "death"            => Kills(v, m, w)
    /\ m.type = "claim"            => Claims(v, m, w)
    /\ m.type = "flag"             => Places(v, m, w)
    /\ m.type = "victory"          => Wins(v, m, w)
-----------------------------------------------------------------------------
(* How the flags in somebody's hands become more and less.                 *)
LEMMA HeldTakes ==
    ASSUME NEW c, NEW F, NEW id
    PROVE  /\ Held(Takes(c, F, id), id) = Held(c, id) \cup F
           /\ \A k : k # id => Held(Takes(c, F, id), k) = Held(c, k) \ F
BY DEF Held, Takes

(* Flags that fall are nobody's.                                           *)
LEMMA HeldWithout ==
    ASSUME NEW c, NEW F, NEW k
    PROVE  Held(Without(c, F), k) = Held(c, k) \ F
BY DEF Held, Without

(* There are finitely many.                                                *)
LEMMA HeldIsFinite ==
    ASSUME NEW v, Sound(v), NEW id
    PROVE  /\ IsFiniteSet(Held(v.carrier, id))
           /\ Cardinality(Held(v.carrier, id)) \in 0 .. Cardinality(FlagIds)
<1>1. Held(v.carrier, id) \in SUBSET FlagIds
  BY DEF Held, Sound
<1>2. IsFiniteSet(FlagIds)
  BY ConstantsAssumption
<1>3. IsFiniteSet(Held(v.carrier, id)) /\ Cardinality(Held(v.carrier, id)) <= Cardinality(FlagIds)
  BY <1>1, <1>2, FS_Subset
<1>4. Cardinality(Held(v.carrier, id)) \in Nat /\ Cardinality(FlagIds) \in Nat
  BY <1>2, <1>3, FS_CardinalityType
<1> QED
  BY <1>3, <1>4

(* Each message leads from a view to a view.                               *)
LEMMA LeadsToSound ==
    ASSUME NEW v, Sound(v), NEW m, NEW w, Leads(v, m, w)
    PROVE  Sound(w)
<1>1. /\ DOMAIN v.arena \subseteq Ids /\ v.arena \in [DOMAIN v.arena -> Teams]
      /\ v.ground \in [DOMAIN v.ground -> Flag]
      /\ v.carrier \in [DOMAIN v.carrier -> DOMAIN v.arena]
      /\ DOMAIN v.ground \cap DOMAIN v.carrier = {}
      /\ DOMAIN v.ground \cup DOMAIN v.carrier \subseteq FlagIds
  BY DEF Sound
<1>2. ASSUME NEW a, NEW g, NEW c, w = View(a, g, c)
      PROVE  w.arena = a /\ w.ground = g /\ w.carrier = c
  BY <1>2 DEF View
<1>3. CASE m.type = "enter"
  <2>1. PICK F \in SUBSET Unplaced(v) :
            w = View(Put(v.arena, m.id, m.team), v.ground, Takes(v.carrier, F, m.id))
    BY <1>3 DEF Leads, Enters
  <2>2. m.id \in Ids \ DOMAIN v.arena /\ m.team \in Teams
    BY <1>3 DEF Leads, Enters
  <2> DEFINE a == Put(v.arena, m.id, m.team)
             c == Takes(v.carrier, F, m.id)
  <2>3. DOMAIN a = DOMAIN v.arena \cup {m.id} /\ a \in [DOMAIN a -> Teams]
    BY <1>1, <2>2 DEF Put
  <2>4. DOMAIN c = DOMAIN v.carrier \cup F /\ c \in [DOMAIN c -> DOMAIN a]
    BY <1>1, <2>3 DEF Takes
  <2> HIDE DEF a, c
  <2>5. w.arena = a /\ w.ground = v.ground /\ w.carrier = c
    BY <1>2, <2>1 DEF a, c
  <2> QED
    BY <1>1, <2>1, <2>2, <2>3, <2>4, <2>5 DEF Sound, Unplaced, a, c
<1>4. ASSUME NEW a, NEW F, a \in [DOMAIN a -> Teams], DOMAIN a \subseteq Ids,
             \A f \in DOMAIN v.carrier \ F : v.carrier[f] \in DOMAIN a,
             w = View(a, v.ground, Without(v.carrier, F))
      PROVE  Sound(w)
  <2> DEFINE c == Without(v.carrier, F)
  <2>1. DOMAIN c = DOMAIN v.carrier \ F /\ c \in [DOMAIN c -> DOMAIN a]
    BY <1>1, <1>4 DEF Without
  <2>2. w.arena = a /\ w.ground = v.ground /\ w.carrier = c
    BY <1>2, <1>4
  <2> HIDE DEF c
  <2> QED
    BY <1>1, <1>4, <2>1, <2>2 DEF Sound, c
<1>5. CASE m.type = "leave"
  <2> DEFINE a == Without(v.arena, {m.id})
             F == Held(v.carrier, m.id)
  <2>1. /\ DOMAIN a = DOMAIN v.arena \ {m.id} /\ a \in [DOMAIN a -> Teams]
        /\ DOMAIN a \subseteq Ids
    BY <1>1 DEF Without
  <2>2. w = View(a, v.ground, Without(v.carrier, F))
    BY <1>5 DEF Leads, Leaves
  <2>3. \A f \in DOMAIN v.carrier \ F : v.carrier[f] \in DOMAIN a
    BY <1>1, <2>1 DEF Held
  <2> HIDE DEF a, F
  <2> QED
    BY <1>4, <2>1, <2>2, <2>3
<1>6. CASE m.type = "team"
  <2> DEFINE a == [v.arena EXCEPT ![m.id] = m.team]
             F == Held(v.carrier, m.id)
  <2>1. m.team \in Teams /\ w = View(a, v.ground, Without(v.carrier, F))
    BY <1>6 DEF Leads, ChangesTeam
  <2>2. DOMAIN a = DOMAIN v.arena /\ a \in [DOMAIN a -> Teams]
    BY <1>1, <2>1
  <2>3. \A f \in DOMAIN v.carrier \ F : v.carrier[f] \in DOMAIN v.arena
    BY <1>1
  <2> HIDE DEF a, F
  <2> QED
    BY <1>1, <1>4, <2>1, <2>2, <2>3
<1>7. CASE m.type \in {"spec", "drop"}
  <2>1. w = View(v.arena, v.ground, Without(v.carrier, Held(v.carrier, m.id)))
    BY <1>7 DEF Leads, Drops
  <2> QED
    BY <1>1, <1>4, <2>1
<1>8. ASSUME NEW g, NEW F, NEW id \in DOMAIN v.arena, g \in [DOMAIN g -> Flag],
             F \subseteq FlagIds, DOMAIN g \cap F = {}, DOMAIN g \subseteq DOMAIN v.ground,
             w = View(v.arena, g, Takes(v.carrier, F, id))
      PROVE  Sound(w)
  <2> DEFINE c == Takes(v.carrier, F, id)
  <2>1. DOMAIN c = DOMAIN v.carrier \cup F /\ c \in [DOMAIN c -> DOMAIN v.arena]
    BY <1>1, <1>8 DEF Takes
  <2>2. w.arena = v.arena /\ w.ground = g /\ w.carrier = c
    BY <1>2, <1>8
  <2> HIDE DEF c
  <2> QED
    BY <1>1, <1>8, <2>1, <2>2 DEF Sound, c
<1>9. CASE m.type = "death"
  <2> DEFINE F == Held(v.carrier, m.killee)
  <2>1. F \subseteq DOMAIN v.carrier /\ m.id \in DOMAIN v.arena
    BY <1>9 DEF Held, Leads, Kills
  <2>2. \/ w = View(v.arena, v.ground, Takes(v.carrier, F, m.id))
        \/ w = View(v.arena, v.ground, Without(v.carrier, F))
    BY <1>9 DEF Leads, Kills
  <2> HIDE DEF F
  <2>3. CASE w = View(v.arena, v.ground, Takes(v.carrier, F, m.id))
    BY <1>1, <1>8, <2>1, <2>3
  <2>4. CASE w = View(v.arena, v.ground, Without(v.carrier, F))
    BY <1>1, <1>4, <2>4
  <2> QED
    BY <2>2, <2>3, <2>4
<1>10. CASE m.type = "claim"
  <2> DEFINE g == Without(v.ground, {m.flag})
  <2>1. /\ m.id \in DOMAIN v.arena /\ m.flag \in DOMAIN v.ground
        /\ w = View(v.arena, g, Takes(v.carrier, {m.flag}, m.id))
    BY <1>10 DEF Leads, Claims
  <2>2. DOMAIN g = DOMAIN v.ground \ {m.flag} /\ g \in [DOMAIN g -> Flag]
    BY <1>1 DEF Without
  <2> HIDE DEF g
  <2>3. {m.flag} \subseteq FlagIds /\ DOMAIN g \cap {m.flag} = {} /\ DOMAIN g \subseteq DOMAIN v.ground
    BY <1>1, <2>1, <2>2
  <2> QED
    BY <1>8, <2>1, <2>2, <2>3
<1>11. CASE m.type = "flag"
  <2> DEFINE x == [spot |-> m.spot, team |-> m.team]
             g == Put(v.ground, m.flag, x)
  <2>1. /\ m.flag \in Unplaced(v) /\ w = View(v.arena, g, v.carrier)
        /\ m.spot \in Spots \cup {"1,1"} /\ m.team \in Teams \cup {NoTeam}
    BY <1>11 DEF Leads, Places
  <2>2. x \in Flag
    BY <2>1 DEF Flag
  <2> HIDE DEF x
  <2>3. DOMAIN g = DOMAIN v.ground \cup {m.flag} /\ g \in [DOMAIN g -> Flag]
    BY <1>1, <2>2 DEF Put
  <2> HIDE DEF g
  <2>4. w.arena = v.arena /\ w.ground = g /\ w.carrier = v.carrier
    BY <1>2, <2>1
  <2> QED
    BY <1>1, <2>1, <2>3, <2>4 DEF Sound, Unplaced
<1>12. CASE m.type = "victory"
  <2> DEFINE e == <<>>
  <2>1. w = View(v.arena, e, e)
    BY <1>12 DEF Leads, Wins
  <2>2. DOMAIN e = {} /\ e \in [{} -> Flag] /\ e \in [{} -> DOMAIN v.arena]
    OBVIOUS
  <2> HIDE DEF e
  <2>3. w.arena = v.arena /\ w.ground = e /\ w.carrier = e
    BY <1>2, <2>1
  <2> QED
    BY <1>1, <2>1, <2>2, <2>3 DEF Sound
<1>13. m.type \in {"enter", "leave", "spec", "drop", "team", "death", "claim", "flag", "victory"}
  BY DEF Leads, Message
<1> QED
  BY <1>3, <1>5, <1>6, <1>7, <1>9, <1>10, <1>11, <1>12, <1>13

-----------------------------------------------------------------------------
(* What the bot has handled is what it sees, for each kind of message.     *)
LEMMA EnterSeen ==
    ASSUME NEW v, Sound(v), Sees(v), NEW m, NEW w, Enters(v, m, w), HandlePlayerEntering(m)
    PROVE  Knows(players', w) /\ flags' = w.ground
<1>1. PICK F \in SUBSET Unplaced(v) :
          /\ m.count = Cardinality(F)
          /\ w = View(Put(v.arena, m.id, m.team), v.ground, Takes(v.carrier, F, m.id))
  BY DEF Enters
<1> DEFINE x == [team |-> m.team, flagCount |-> m.count]
           p == Put(players, m.id, x)
<1>2. players' = p /\ flags' = v.ground
  BY DEF HandlePlayerEntering, Keep, Sees
<1>3. /\ w.ground = v.ground /\ w.carrier = Takes(v.carrier, F, m.id)
      /\ w.arena = Put(v.arena, m.id, m.team)
  BY <1>1 DEF View
<1>4. /\ DOMAIN p = DOMAIN v.arena \cup {m.id} /\ p[m.id] = x
      /\ \A k \in DOMAIN v.arena \ {m.id} : p[k] = Entry(v, k)
  BY DEF Put, Sees, Knows
<1>5. /\ DOMAIN w.arena = DOMAIN v.arena \cup {m.id} /\ w.arena[m.id] = m.team
      /\ \A k \in DOMAIN v.arena \ {m.id} : w.arena[k] = v.arena[k]
  BY <1>3 DEF Put
<1>6. /\ Held(w.carrier, m.id) = F
      /\ \A k \in DOMAIN v.arena \ {m.id} : Held(w.carrier, k) = Held(v.carrier, k)
  <2>1. Held(v.carrier, m.id) = {}
    BY DEF Enters, Held, Sound
  <2>2. \A k : Held(v.carrier, k) \cap F = {}
    BY <1>1 DEF Held, Unplaced
  <2>3. /\ Held(w.carrier, m.id) = Held(v.carrier, m.id) \cup F
        /\ \A k : k # m.id => Held(w.carrier, k) = Held(v.carrier, k) \ F
    BY <1>3, HeldTakes
  <2> QED
    BY <2>1, <2>2, <2>3
<1> HIDE DEF p
<1>7. \A k \in DOMAIN p : p[k] = Entry(w, k)
  <2> TAKE k \in DOMAIN p
  <2>1. CASE k = m.id
    BY <1>1, <1>4, <1>5, <1>6, <2>1 DEF Entry
  <2>2. CASE k # m.id
    BY <1>4, <1>5, <1>6, <2>2 DEF Entry
  <2> QED
    BY <2>1, <2>2
<1> QED
  BY <1>2, <1>3, <1>4, <1>5, <1>7 DEF Knows

(* What a player carried is in neither place until it is told again.       *)
LEMMA LeaveSeen ==
    ASSUME NEW v, Sound(v), Sees(v), NEW m, NEW w, Leaves(v, m, w), HandlePlayerLeaving(m)
    PROVE  Knows(players', w) /\ flags' = w.ground
<1> DEFINE p == Without(players, {m.id})
<1>1. players' = p /\ flags' = v.ground
  BY DEF HandlePlayerLeaving, Keep, Sees
<1>2. /\ w.arena = Without(v.arena, {m.id}) /\ w.ground = v.ground
      /\ w.carrier = Without(v.carrier, Held(v.carrier, m.id))
  BY DEF Leaves, View
<1>3. /\ DOMAIN p = DOMAIN v.arena \ {m.id}
      /\ \A k \in DOMAIN p : p[k] = Entry(v, k)
  BY DEF Without, Sees, Knows
<1>4. DOMAIN w.arena = DOMAIN v.arena \ {m.id} /\ \A k \in DOMAIN w.arena : w.arena[k] = v.arena[k]
  BY <1>2 DEF Without
<1>5. ASSUME NEW k \in DOMAIN w.arena PROVE Held(w.carrier, k) = Held(v.carrier, k)
  <2>1. Held(w.carrier, k) = Held(v.carrier, k) \ Held(v.carrier, m.id)
    BY <1>2, HeldWithout
  <2>2. Held(v.carrier, k) \cap Held(v.carrier, m.id) = {}
    BY <1>4, <1>5 DEF Held
  <2> QED
    BY <2>1, <2>2
<1> HIDE DEF p
<1>6. \A k \in DOMAIN p : p[k] = Entry(w, k)
  BY <1>3, <1>4, <1>5 DEF Entry
<1> QED
  BY <1>1, <1>2, <1>3, <1>4, <1>6 DEF Knows

(* One player loses what he holds; his team may change.                    *)
LEMMA DropSeen ==
    ASSUME NEW v, NEW q, Knows(q, v), NEW id \in DOMAIN v.arena, NEW team, NEW w,
           DOMAIN w.arena = DOMAIN v.arena, w.arena[id] = team,
           \A k \in DOMAIN v.arena \ {id} : w.arena[k] = v.arena[k],
           w.carrier = Without(v.carrier, Held(v.carrier, id)),
           NEW p, DOMAIN p = DOMAIN q,
           p[id] = [team |-> team, flagCount |-> 0],
           \A k \in DOMAIN q \ {id} : p[k] = q[k]
    PROVE  Knows(p, w)
<1>1. Held(w.carrier, id) = {}
  <2>1. Held(w.carrier, id) = Held(v.carrier, id) \ Held(v.carrier, id)
    BY HeldWithout
  <2> QED
    BY <2>1
<1>2. ASSUME NEW k \in DOMAIN v.arena \ {id} PROVE Held(w.carrier, k) = Held(v.carrier, k)
  <2>1. Held(w.carrier, k) = Held(v.carrier, k) \ Held(v.carrier, id)
    BY HeldWithout
  <2>2. Held(v.carrier, k) \cap Held(v.carrier, id) = {}
    BY <1>2 DEF Held
  <2> QED
    BY <2>1, <2>2
<1>3. Cardinality({}) = 0
  BY FS_EmptySet
<1> QED
  BY <1>1, <1>2, <1>3 DEF Knows, Entry

(* A player gains the flags F, and the others have what is left.           *)
Apart(v, F, k) ==
    [team |-> v.arena[k], flagCount |-> Cardinality(Held(v.carrier, k) \ F)]

(* A player gains flags, from the ground or from another.                  *)
LEMMA GainSeen ==
    ASSUME NEW v, Sound(v), NEW id \in DOMAIN v.arena, NEW F, NEW w, NEW n,
           IsFiniteSet(F), F \cap Held(v.carrier, id) = {}, n = Cardinality(F),
           w.arena = v.arena, w.carrier = Takes(v.carrier, F, id),
           NEW p, DOMAIN p = DOMAIN v.arena,
           p[id] = [team |-> v.arena[id],
                    flagCount |-> Cardinality(Held(v.carrier, id)) + n],
           \A k \in DOMAIN v.arena \ {id} : p[k] = Apart(v, F, k)
    PROVE  Knows(p, w)
<1>1. /\ Held(w.carrier, id) = Held(v.carrier, id) \cup F
      /\ \A k : k # id => Held(w.carrier, k) = Held(v.carrier, k) \ F
  BY HeldTakes
<1>2. Cardinality(Held(w.carrier, id)) = Cardinality(Held(v.carrier, id)) + n
  <2> DEFINE H == Held(v.carrier, id)
  <2>1. IsFiniteSet(H) /\ H \cap F = {}
    BY HeldIsFinite
  <2> HIDE DEF H
  <2>2. Cardinality(H \cup F) = Cardinality(H) + Cardinality(F) - Cardinality(H \cap F)
    BY <2>1, FS_Union
  <2>3. Cardinality(H) \in Nat /\ Cardinality(F) \in Nat /\ Cardinality({}) = 0
    BY <2>1, FS_CardinalityType, FS_EmptySet
  <2>4. Cardinality(H \cap F) = 0
    BY <2>1, <2>3
  <2>5. Cardinality(H \cup F) = Cardinality(H) + Cardinality(F)
    BY <2>2, <2>3, <2>4
  <2> QED
    BY <1>1, <2>5 DEF H
<1>3. p[id] = Entry(w, id)
  BY <1>2 DEF Entry
<1>4. ASSUME NEW k \in DOMAIN v.arena \ {id} PROVE p[k] = Entry(w, k)
  <2>1. Held(w.carrier, k) = Held(v.carrier, k) \ F
    BY <1>1, <1>4
  <2>2. p[k] = Apart(v, F, k)
    BY <1>4
  <2> QED
    BY <2>1, <2>2 DEF Entry, Apart
<1> QED
  BY <1>3, <1>4 DEF Knows

(* A player's count is set.                                                *)
Counted(q, id, x) == [q EXCEPT ![id].flagCount = x]

(* Setting one count leaves team and the other entries alone.              *)
LEMMA CountIs ==
    ASSUME NEW q, NEW id \in DOMAIN q, NEW t, NEW n, NEW x,
           q[id] = [team |-> t, flagCount |-> n]
    PROVE  /\ DOMAIN Counted(q, id, x) = DOMAIN q
           /\ Counted(q, id, x)[id] = [team |-> t, flagCount |-> x]
           /\ \A k \in DOMAIN q \ {id} : Counted(q, id, x)[k] = q[k]
BY DEF Counted

(* What the bot knows of one player.                                       *)
LEMMA KnowsOne ==
    ASSUME NEW v, Sound(v), NEW q, Knows(q, v), NEW id \in DOMAIN v.arena
    PROVE  LET n == Cardinality(Held(v.carrier, id))
           IN  /\ id \in DOMAIN q
               /\ q[id] = Entry(v, id)
               /\ q[id] = [team |-> v.arena[id], flagCount |-> n]
               /\ q[id].team = v.arena[id] /\ q[id].flagCount = n /\ n \in Nat
<1> DEFINE n == Cardinality(Held(v.carrier, id))
<1>1. n \in 0 .. Cardinality(FlagIds)
  BY HeldIsFinite
<1>2. n \in Nat
  BY <1>1
<1>3. q[id] = Entry(v, id) /\ id \in DOMAIN q
  BY DEF Knows
<1>4. q[id] = [team |-> v.arena[id], flagCount |-> n]
  BY <1>3 DEF Entry
<1> HIDE DEF n
<1>5. q[id].team = v.arena[id] /\ q[id].flagCount = n
  BY <1>4
<1> QED
  BY <1>2, <1>3, <1>4, <1>5 DEF n

(* A player kills another and has his flags, or they are scattered.        *)
LEMMA DeathSeen ==
    ASSUME NEW v, Sound(v), Sees(v), NEW m, NEW w, Kills(v, m, w), HandlePlayerDeath(m)
    PROVE  Knows(players', w) /\ flags' = w.ground
<1> DEFINE F == Held(v.carrier, m.killee)
           n == Cardinality(Held(v.carrier, m.id))
           paid == Counted(players, m.id, n + m.count)
           p == Counted(paid, m.killee, 0)
<1>1. /\ m.id \in DOMAIN v.arena /\ m.killee \in DOMAIN v.arena /\ m.id # m.killee
      /\ DOMAIN players = DOMAIN v.arena /\ Knows(players, v) /\ flags = v.ground
  BY DEF Kills, Sees, Knows
<1>2. /\ players[m.id] = [team |-> v.arena[m.id], flagCount |-> n]
      /\ players[m.id].flagCount = n /\ n \in Nat
  BY <1>1, KnowsOne
<1>3. players[m.killee] = [team |-> v.arena[m.killee], flagCount |-> Cardinality(F)]
  BY <1>1, KnowsOne
<1>4. players' = p /\ flags' = v.ground
  BY <1>1, <1>2 DEF HandlePlayerDeath, Keep, Counted
<1> HIDE DEF n
<1>5. /\ DOMAIN paid = DOMAIN v.arena
      /\ paid[m.id] = [team |-> v.arena[m.id], flagCount |-> n + m.count]
      /\ \A k \in DOMAIN v.arena \ {m.id} : paid[k] = players[k]
  BY <1>1, <1>2, CountIs
<1> HIDE DEF paid
<1>6. /\ DOMAIN p = DOMAIN v.arena
      /\ p[m.killee] = [team |-> v.arena[m.killee], flagCount |-> 0]
      /\ \A k \in DOMAIN v.arena \ {m.killee} : p[k] = paid[k]
  <2>1. paid[m.killee] = [team |-> v.arena[m.killee], flagCount |-> Cardinality(F)]
    BY <1>1, <1>3, <1>5
  <2> QED
    BY <1>1, <1>5, <2>1, CountIs
<1> HIDE DEF p
<1>7. IsFiniteSet(F) /\ Cardinality({}) = 0
  BY HeldIsFinite, FS_EmptySet
<1>8. F \cap Held(v.carrier, m.id) = {} /\ F \ F = {}
  BY <1>1 DEF Held
<1>9. CASE m.count = Cardinality(F) /\ w = View(v.arena, v.ground, Takes(v.carrier, F, m.id))
  <2>1. /\ w.ground = v.ground /\ w.arena = v.arena
        /\ w.carrier = Takes(v.carrier, F, m.id)
    BY <1>9 DEF View
  <2>2. p[m.id] = [team |-> v.arena[m.id], flagCount |-> n + m.count]
    BY <1>1, <1>5, <1>6
  <2>3. ASSUME NEW k \in DOMAIN v.arena \ {m.id} PROVE p[k] = Apart(v, F, k)
    <3>1. CASE k = m.killee
      BY <1>6, <1>7, <1>8, <3>1 DEF Apart
    <3>2. CASE k # m.killee
      <4>1. p[k] = Entry(v, k)
        BY <1>1, <1>5, <1>6, <2>3, <3>2 DEF Knows
      <4>2. Held(v.carrier, k) \ F = Held(v.carrier, k)
        BY <3>2 DEF Held
      <4> QED
        BY <4>1, <4>2 DEF Entry, Apart
    <3> QED
      BY <3>1, <3>2
  <2> HIDE DEF F
  <2>4. Knows(p, w)
    BY <1>1, <1>6, <1>7, <1>8, <1>9, <2>1, <2>2, <2>3, GainSeen DEF n
  <2> QED
    BY <1>4, <2>1, <2>4
<1>10. CASE m.count = 0 /\ w = View(v.arena, v.ground, Without(v.carrier, F))
  <2>1. /\ w.ground = v.ground /\ w.arena = v.arena
        /\ w.carrier = Without(v.carrier, F)
    BY <1>10 DEF View
  <2>2. p[m.id] = players[m.id]
    BY <1>1, <1>2, <1>5, <1>6, <1>10
  <2>3. \A k \in DOMAIN v.arena \ {m.killee} : p[k] = players[k]
    BY <1>1, <1>5, <1>6, <2>2
  <2>4. Knows(p, w)
    BY <1>1, <1>6, <2>1, <2>3, DropSeen
  <2> QED
    BY <1>4, <2>1, <2>4
<1> QED
  BY <1>9, <1>10 DEF Kills

(* A player picks up a flag that lies in the arena.                        *)
LEMMA ClaimSeen ==
    ASSUME NEW v, Sound(v), Sees(v), NEW m, NEW w, Claims(v, m, w), ClaimFlag(m)
    PROVE  Knows(players', w) /\ flags' = w.ground
<1> DEFINE F == {m.flag}
           n == Cardinality(Held(v.carrier, m.id))
           p == Counted(players, m.id, n + 1)
<1>1. /\ m.id \in DOMAIN v.arena /\ m.flag \in DOMAIN v.ground
      /\ DOMAIN players = DOMAIN v.arena /\ Knows(players, v) /\ flags = v.ground
  BY DEF Claims, Sees, Knows
<1>2. /\ players[m.id] = [team |-> v.arena[m.id], flagCount |-> n]
      /\ players[m.id].flagCount = n
  BY <1>1, KnowsOne
<1>3. players' = p /\ flags' = Without(v.ground, F)
  BY <1>1, <1>2 DEF ClaimFlag, FindFlag, Keep, Counted
<1> HIDE DEF n
<1>4. w.arena = v.arena /\ w.ground = Without(v.ground, F) /\ w.carrier = Takes(v.carrier, F, m.id)
  BY DEF Claims, View
<1>5. /\ DOMAIN p = DOMAIN v.arena
      /\ p[m.id] = [team |-> v.arena[m.id], flagCount |-> n + 1]
      /\ \A k \in DOMAIN v.arena \ {m.id} : p[k] = players[k]
  BY <1>1, <1>2, CountIs
<1> HIDE DEF p
<1>6. \A k : Held(v.carrier, k) \ F = Held(v.carrier, k) /\ F \cap Held(v.carrier, k) = {}
  BY <1>1 DEF Held, Sound
<1>7. IsFiniteSet(F) /\ Cardinality(F) = 1
  BY FS_Singleton
<1>8. ASSUME NEW k \in DOMAIN v.arena \ {m.id} PROVE p[k] = Apart(v, F, k)
  <2>1. p[k] = Entry(v, k)
    BY <1>1, <1>5, <1>8 DEF Knows
  <2> QED
    BY <1>6, <2>1 DEF Entry, Apart
<1> HIDE DEF F
<1>9. Knows(p, w)
  BY <1>1, <1>4, <1>5, <1>6, <1>7, <1>8, GainSeen DEF n
<1> QED
  BY <1>3, <1>4, <1>9

(* A player changes teams, and loses what he holds.                        *)
LEMMA TeamSeen ==
    ASSUME NEW v, Sound(v), Sees(v), NEW m, NEW w, ChangesTeam(v, m, w), HandleSetTeam(m)
    PROVE  Knows(players', w) /\ flags' = w.ground
<1> DEFINE x == [team |-> m.team, flagCount |-> 0]
           p == [players EXCEPT ![m.id] = x]
<1>1. /\ m.id \in DOMAIN v.arena /\ DOMAIN players = DOMAIN v.arena
      /\ Knows(players, v) /\ flags = v.ground
  BY DEF ChangesTeam, Sees, Knows
<1>2. players' = p /\ flags' = v.ground
  BY <1>1 DEF HandleSetTeam, Keep
<1>3. /\ w.arena = [v.arena EXCEPT ![m.id] = m.team] /\ w.ground = v.ground
      /\ w.carrier = Without(v.carrier, Held(v.carrier, m.id))
  BY DEF ChangesTeam, View
<1>4. /\ DOMAIN w.arena = DOMAIN v.arena /\ w.arena[m.id] = m.team
      /\ \A k \in DOMAIN v.arena \ {m.id} : w.arena[k] = v.arena[k]
  BY <1>1, <1>3
<1>5. /\ DOMAIN p = DOMAIN players /\ p[m.id] = x
      /\ \A k \in DOMAIN players \ {m.id} : p[k] = players[k]
  BY <1>1
<1> HIDE DEF p
<1>6. Knows(p, w)
  BY <1>1, <1>3, <1>4, <1>5, DropSeen
<1> QED
  BY <1>2, <1>3, <1>6

(* A player loses what he holds.                                           *)
LEMMA CountSeen ==
    ASSUME NEW v, Sound(v), Sees(v), NEW m, NEW w, Drops(v, m, w), SetCount(m, 0)
    PROVE  Knows(players', w) /\ flags' = w.ground
<1> DEFINE p == Counted(players, m.id, 0)
<1>1. /\ m.id \in DOMAIN v.arena /\ DOMAIN players = DOMAIN v.arena
      /\ Knows(players, v) /\ flags = v.ground
  BY DEF Drops, Sees, Knows
<1>2. players' = p /\ flags' = v.ground
  BY <1>1 DEF SetCount, Keep, Counted
<1>3. /\ w.arena = v.arena /\ w.ground = v.ground
      /\ w.carrier = Without(v.carrier, Held(v.carrier, m.id))
  BY DEF Drops, View
<1>4. players[m.id] = [team |-> v.arena[m.id], flagCount |-> Cardinality(Held(v.carrier, m.id))]
  BY <1>1, KnowsOne
<1>5. /\ DOMAIN p = DOMAIN players /\ p[m.id] = [team |-> v.arena[m.id], flagCount |-> 0]
      /\ \A k \in DOMAIN players \ {m.id} : p[k] = players[k]
  BY <1>1, <1>4, CountIs
<1> HIDE DEF p
<1>6. Knows(p, w)
  BY <1>1, <1>3, <1>5, DropSeen
<1> QED
  BY <1>2, <1>3, <1>6

(* Where a flag lies.                                                      *)
LEMMA PlaceSeen ==
    ASSUME NEW v, Sees(v), NEW m, NEW w, Places(v, m, w), HandleFlagPosition(m)
    PROVE  Knows(players', w) /\ flags' = w.ground
<1>1. /\ w.arena = v.arena /\ w.carrier = v.carrier
      /\ w.ground = Put(v.ground, m.flag, [spot |-> m.spot, team |-> m.team])
  BY DEF Places, View
<1>2. players' = players /\ flags' = w.ground /\ Knows(players, v)
  BY <1>1 DEF HandleFlagPosition, Keep, Sees
<1> QED
  BY <1>1, <1>2 DEF Knows, Entry

(* The game is over.                                                       *)
LEMMA WinSeen ==
    ASSUME NEW v, Sound(v), Sees(v), NEW m, NEW w, Wins(v, m, w), HandleFlagVictory(m)
    PROVE  Knows(players', w) /\ flags' = w.ground
<1> DEFINE e == <<>>
           p == [k \in DOMAIN players |-> [players[k] EXCEPT !.flagCount = 0]]
<1>1. players' = p /\ flags' = e /\ Knows(players, v) /\ DOMAIN p = DOMAIN v.arena
  BY DEF HandleFlagVictory, Keep, Sees, Knows
<1>2. w.arena = v.arena /\ w.ground = e /\ w.carrier = e /\ DOMAIN e = {}
  BY DEF Wins, View
<1>3. ASSUME NEW k \in DOMAIN v.arena PROVE p[k] = Entry(w, k)
  <2>1. /\ k \in DOMAIN players
        /\ players[k] = [team |-> v.arena[k], flagCount |-> Cardinality(Held(v.carrier, k))]
    BY <1>1, <1>3, KnowsOne
  <2>2. [players[k] EXCEPT !.flagCount = 0] = [team |-> v.arena[k], flagCount |-> 0]
    BY <2>1
  <2>3. p[k] = [team |-> v.arena[k], flagCount |-> 0]
    BY <2>1, <2>2
  <2> HIDE DEF p, e
  <2>4. Held(w.carrier, k) = {}
    BY <1>2 DEF Held
  <2> QED
    BY <1>2, <2>3, <2>4, FS_EmptySet DEF Entry
<1> HIDE DEF p, e
<1> QED
  BY <1>1, <1>2, <1>3 DEF Knows

(* The bot that has handled a message sees what its sender meant.          *)
LEMMA HandleSeen ==
    ASSUME NEW v, Sound(v), Sees(v), NEW m, NEW w, Leads(v, m, w), Handle(m)
    PROVE  Knows(players', w) /\ flags' = w.ground
<1>1. m.type \in {"enter", "leave", "spec", "drop", "team", "death", "claim", "flag", "victory"}
  BY DEF Leads, Message
<1>2. CASE m.type = "enter"
  BY <1>2, EnterSeen DEF Handle, Leads
<1>3. CASE m.type = "leave"
  BY <1>3, LeaveSeen DEF Handle, Leads
<1>4. CASE m.type = "team"
  BY <1>4, TeamSeen DEF Handle, Leads
<1>5. CASE m.type = "spec"
  BY <1>5, CountSeen DEF Handle, Leads, HandleSpecPlayer
<1>6. CASE m.type = "drop"
  BY <1>6, CountSeen DEF Handle, Leads, DropFlags
<1>7. CASE m.type = "death"
  BY <1>7, DeathSeen DEF Handle, Leads
<1>8. CASE m.type = "claim"
  BY <1>8, ClaimSeen DEF Handle, Leads
<1>9. CASE m.type = "flag"
  BY <1>9, PlaceSeen DEF Handle, Leads
<1>10. CASE m.type = "victory"
  BY <1>10, WinSeen DEF Handle, Leads
<1> QED
  BY <1>1, <1>2, <1>3, <1>4, <1>5, <1>6, <1>7, <1>8, <1>9, <1>10
-----------------------------------------------------------------------------
(* The views between the messages of q.                                    *)
Chain(v, q) ==
    /\ Sound(v[0])
    /\ \A i \in 1 .. Len(q) : Leads(v[i - 1], q[i], v[i])

(* q leads from the view x to the view y.                                  *)
Path(x, q, y) ==
    /\ q \in Seq(Message)
    /\ \E v : Chain(v, q) /\ v[0] = x /\ v[Len(q)] = y

(* Both ends of a path are views.                                          *)
LEMMA PathIsSound ==
    ASSUME NEW x, NEW q, NEW y, Path(x, q, y)
    PROVE  Sound(x) /\ Sound(y)
<1>1. PICK v : Chain(v, q) /\ v[0] = x /\ v[Len(q)] = y
  BY DEF Path
<1>2. Len(q) \in Nat
  BY DEF Path
<1> DEFINE n == Len(q)
           T == {i \in 0 .. n : Sound(v[i])}
<1> HIDE DEF n
<1>3. 0 \in T
  BY <1>1, <1>2 DEF Chain, n
<1>4. ASSUME NEW k \in 0 .. n - 1, k \in T PROVE k + 1 \in T
  <2>1. k + 1 \in 1 .. n /\ (k + 1) - 1 = k /\ n \in Nat
    BY <1>2 DEF n
  <2> DEFINE j == k + 1
  <2> HIDE DEF j
  <2>2. j \in 1 .. n /\ j - 1 = k
    BY <2>1 DEF j
  <2>3. Leads(v[k], q[j], v[j])
    BY <1>1, <2>2 DEF Chain, n
  <2>4. Sound(v[j])
    BY <1>4, <2>3, LeadsToSound
  <2> QED
    BY <2>1, <2>2, <2>4 DEF j
<1> HIDE DEF T
<1>5. 0 .. n \subseteq T
  BY <1>2, <1>3, <1>4, InductionUpTo DEF n
<1>6. Sound(v[n])
  BY <1>2, <1>5 DEF T, n
<1> QED
  BY <1>1, <1>6 DEF Chain, n

(* One path after another.                                                 *)
LEMMA PathsJoin ==
    ASSUME NEW x, NEW q, NEW y, NEW r, NEW z, Path(x, q, y), Path(y, r, z)
    PROVE  Path(x, q \o r, z)
<1>1. PICK v : Chain(v, q) /\ v[0] = x /\ v[Len(q)] = y
  BY DEF Path
<1>2. PICK u : Chain(u, r) /\ u[0] = y /\ u[Len(r)] = z
  BY DEF Path
<1> DEFINE a == Len(q)
           b == Len(r)
           s == q \o r
           w == [i \in Nat |-> IF i <= a THEN v[i] ELSE u[i - a]]
<1>3. /\ a \in Nat /\ b \in Nat /\ s \in Seq(Message) /\ Len(s) = a + b
      /\ \A i \in 1 .. a + b : s[i] = IF i <= a THEN q[i] ELSE r[i - a]
  BY DEF Path
<1> HIDE DEF s
<1>4. \A i \in 0 .. a : w[i] = v[i]
  BY <1>3
<1>5. \A i \in a .. a + b : w[i] = u[i - a]
  BY <1>1, <1>2, <1>3
<1> HIDE DEF w
<1>6. ASSUME NEW i \in 1 .. a + b PROVE Leads(w[i - 1], s[i], w[i])
  <2>1. CASE i <= a
    <3>1. i \in 1 .. a /\ i - 1 \in 0 .. a /\ i \in 0 .. a
      BY <1>3, <2>1
    <3>2. Leads(v[i - 1], q[i], v[i])
      BY <1>1, <3>1 DEF Chain
    <3>3. s[i] = q[i] /\ w[i] = v[i] /\ w[i - 1] = v[i - 1]
      BY <1>3, <1>4, <3>1
    <3> QED
      BY <3>2, <3>3
  <2>2. CASE ~(i <= a)
    <3> DEFINE j == i - a
    <3>1. j \in 1 .. b /\ i \in a .. a + b /\ i - 1 \in a .. a + b /\ (i - 1) - a = j - 1
      BY <1>3, <2>2
    <3>2. s[i] = r[j] /\ w[i] = u[j] /\ w[i - 1] = u[j - 1]
      BY <1>3, <1>5, <2>2, <3>1
    <3> HIDE DEF j
    <3>3. Leads(u[j - 1], r[j], u[j])
      BY <1>2, <3>1 DEF Chain
    <3> QED
      BY <3>2, <3>3
  <2> QED
    BY <2>1, <2>2
<1>7. 0 \in 0 .. a /\ a + b \in a .. a + b /\ (a + b) - a = b
  BY <1>3
<1>8. w[0] = x /\ w[Len(s)] = z
  BY <1>1, <1>2, <1>3, <1>4, <1>5, <1>7
<1>9. Chain(w, s)
  BY <1>1, <1>3, <1>6, <1>8 DEF Chain
<1> QED
  BY <1>3, <1>8, <1>9 DEF Path, s

(* The path of one message, and that of none.                              *)
LEMMA PathOfOne ==
    ASSUME NEW x, Sound(x), NEW m, NEW y, Leads(x, m, y)
    PROVE  Path(x, <<m>>, y)
<1> DEFINE v == [i \in {0, 1} |-> IF i = 0 THEN x ELSE y]
           q == <<m>>
<1>1. q \in Seq(Message) /\ Len(q) = 1 /\ q[1] = m
  BY DEF Leads
<1>2. v[0] = x /\ v[1] = y
  OBVIOUS
<1> HIDE DEF v, q
<1>3. Chain(v, q)
  BY <1>1, <1>2 DEF Chain
<1> QED
  BY <1>1, <1>2, <1>3 DEF Path, q

(* No message leads nowhere.                                               *)
LEMMA PathOfNone ==
    ASSUME NEW x, Sound(x)
    PROVE  Path(x, <<>>, x)
<1> DEFINE v == [i \in {0} |-> x]
           e == <<>>
<1>1. e \in Seq(Message) /\ Len(e) = 0 /\ v[0] = x
  OBVIOUS
<1> HIDE DEF v, e
<1>2. Chain(v, e)
  BY <1>1 DEF Chain
<1> QED
  BY <1>1, <1>2 DEF Path, e
-----------------------------------------------------------------------------
(* Several messages at once.  The elements of a set in some order.         *)
LEMMA SetToSeqIs ==
    ASSUME NEW S, IsFiniteSet(S)
    PROVE  LET s == SetToSeq(S)
           IN  /\ s \in Seq(S) /\ Len(s) \in Nat
               /\ \A i, j \in 1 .. Len(s) : s[i] = s[j] => i = j
               /\ \A e \in S : \E i \in 1 .. Len(s) : s[i] = e
<1> DEFINE n == Cardinality(S)
           s == SetToSeq(S)
<1>1. n \in Nat /\ ExistsBijection(1 .. n, S)
  BY FS_CardinalityType
<1>2. \E f \in [1 .. n -> S] : IsInjective(f)
  <2>1. PICK f \in Bijection(1 .. n, S) : TRUE
    BY <1>1 DEF ExistsBijection
  <2> HIDE DEF n
  <2> QED
    BY <2>1 DEF Bijection, Injection, IsInjective
<1>3. s \in [1 .. n -> S] /\ IsInjective(s)
  BY <1>2 DEF SetToSeq
<1> HIDE DEF n, s
<1>4. s \in Seq(S) /\ Len(s) = n
  BY <1>1, <1>3
<1>5. s \in Injection(1 .. n, S)
  BY <1>3 DEF Injection, IsInjective
<1>6. Cardinality(1 .. n) = n
  BY <1>1, FS_Interval
<1>7. s \in Surjection(1 .. n, S)
  <2> DEFINE D == 1 .. n
  <2>1. s \in Injection(D, S) /\ Cardinality(D) = Cardinality(S)
    BY <1>5, <1>6 DEF n
  <2> HIDE DEF D
  <2>2. s \in Surjection(D, S)
    BY <2>1, FS_Injection
  <2> QED
    BY <2>2 DEF D
<1>8. \A i, j \in 1 .. n : s[i] = s[j] => i = j
  BY <1>3 DEF IsInjective
<1>9. \A e \in S : \E i \in 1 .. n : s[i] = e
  BY <1>7 DEF Surjection
<1> QED
  BY <1>1, <1>4, <1>8, <1>9 DEF s

(* The flags of S are told to lie where g has them.                        *)
WithFlags(x, g, S) ==
    View(x.arena, [f \in DOMAIN x.ground \cup S |->
                      IF f \in DOMAIN x.ground THEN x.ground[f] ELSE g[f]], x.carrier)

FlagMessage(g, f) == [type |-> "flag", flag |-> f, spot |-> g[f].spot, team |-> g[f].team]

(* Telling of one more flag.                                               *)
LEMMA OneFlag ==
    ASSUME NEW x, Sound(x), NEW g, NEW S, NEW f \in Unplaced(x), f \notin S, g[f] \in Flag
    PROVE  Leads(WithFlags(x, g, S), FlagMessage(g, f), WithFlags(x, g, S \cup {f}))
<1> DEFINE v == WithFlags(x, g, S)
           w == WithFlags(x, g, S \cup {f})
           m == FlagMessage(g, f)
<1>1. /\ g[f].spot \in Spots \cup {"1,1"} /\ g[f].team \in Teams \cup {NoTeam}
      /\ g[f] = [spot |-> g[f].spot, team |-> g[f].team] /\ f \in FlagIds
  BY DEF Flag, Unplaced
<1>2. /\ m.type = "flag" /\ m.flag = f /\ m.spot = g[f].spot /\ m.team = g[f].team
  BY DEF FlagMessage
<1>3. m \in [type : {"flag"}, flag : FlagIds, spot : Spots \cup {"1,1"}, team : Teams \cup {NoTeam}]
  BY <1>1 DEF FlagMessage
<1>4. m \in Message
  BY <1>3 DEF Message
<1> DEFINE a == [h \in DOMAIN x.ground \cup S |->
                    IF h \in DOMAIN x.ground THEN x.ground[h] ELSE g[h]]
           b == [h \in DOMAIN x.ground \cup (S \cup {f}) |->
                    IF h \in DOMAIN x.ground THEN x.ground[h] ELSE g[h]]
<1>5. v.arena = x.arena /\ v.ground = a /\ v.carrier = x.carrier
  BY DEF WithFlags, View
<1>6. w = View(x.arena, b, x.carrier)
  BY DEF WithFlags
<1>7. b = Put(a, f, g[f])
  BY DEF Put, Unplaced
<1>8. f \in Unplaced(v)
  BY <1>5 DEF Unplaced
<1> HIDE DEF v, w, m, a, b
<1>9. b = Put(a, m.flag, [spot |-> m.spot, team |-> m.team])
  BY <1>1, <1>2, <1>7
<1>10. Places(v, m, w)
  BY <1>1, <1>2, <1>5, <1>6, <1>8, <1>9 DEF Places
<1> QED
  BY <1>2, <1>4, <1>10 DEF Leads, v, w, m

(* Telling of all the flags of S, in whatever order.                       *)
LEMMA FlagsTold ==
    ASSUME NEW x, Sound(x), NEW g, NEW S \in SUBSET Unplaced(x), \A f \in S : g[f] \in Flag
    PROVE  Path(x, FlagMessages(S, g), WithFlags(x, g, S))
<1> DEFINE M == {FlagMessage(g, f) : f \in S}
           s == SetToSeq(M)
           n == Len(s)
<1>1. FlagMessages(S, g) = s
  BY DEF FlagMessages, FlagMessage
<1>2. \A m \in M : m.flag \in S /\ m = FlagMessage(g, m.flag)
  BY DEF FlagMessage
<1>3. IsFiniteSet(M)
  <2> DEFINE F == [f \in S |-> FlagMessage(g, f)]
  <2>1. F \in Surjection(S, M)
    BY DEF Surjection
  <2>2. IsFiniteSet(S)
    BY ConstantsAssumption, FS_Subset DEF Unplaced
  <2> HIDE DEF F, M
  <2> QED
    BY <2>1, <2>2, FS_Surjection
<1>4. /\ s \in Seq(M) /\ n \in Nat
      /\ \A i, j \in 1 .. n : s[i] = s[j] => i = j
      /\ \A m \in M : \E i \in 1 .. n : s[i] = m
  <2> HIDE DEF M
  <2> QED
    BY <1>3, SetToSeqIs
<1>5. \A f \in S : FlagMessage(g, f) \in M /\ FlagMessage(g, f).flag = f
  BY DEF FlagMessage
<1> HIDE DEF M, s
<1>6. \A i \in 1 .. n : s[i] \in M
  BY <1>4
<1> HIDE DEF n
<1> DEFINE Told(i) == {s[j].flag : j \in 1 .. i}
           v == [i \in 0 .. n |-> WithFlags(x, g, Told(i))]
<1>7. ASSUME NEW i \in 1 .. n PROVE Leads(v[i - 1], s[i], v[i])
  <2> DEFINE f == s[i].flag
             T == Told(i - 1)
  <2>1. i \in 0 .. n /\ i - 1 \in 0 .. n /\ i \in 1 .. n
    BY <1>4
  <2>2. 1 .. i = (1 .. i - 1) \cup {i} /\ \A j \in 1 .. i - 1 : j \in 1 .. n /\ j # i
    BY <1>4
  <2>3. Told(i) = T \cup {f}
    BY <2>2
  <2>4. f \in S /\ s[i] = FlagMessage(g, f)
    BY <1>2, <1>6
  <2>5. f \notin T
    BY <1>2, <1>4, <1>6, <2>1, <2>2
  <2>6. v[i - 1] = WithFlags(x, g, T) /\ v[i] = WithFlags(x, g, T \cup {f})
    BY <2>1, <2>3
  <2> HIDE DEF f, T, v
  <2>7. g[f] \in Flag /\ f \in Unplaced(x)
    BY <2>4
  <2> QED
    BY <2>4, <2>5, <2>6, <2>7, OneFlag
<1>8. v[0] = x
  <2> DEFINE a == [f \in DOMAIN x.ground \cup {} |->
                      IF f \in DOMAIN x.ground THEN x.ground[f] ELSE g[f]]
  <2>1. Told(0) = {} /\ 0 \in 0 .. n
    BY <1>4
  <2>2. a = x.ground
    BY DEF Sound
  <2>3. v[0] = View(x.arena, a, x.carrier)
    BY <2>1 DEF WithFlags
  <2> HIDE DEF a, v
  <2> QED
    BY <2>2, <2>3 DEF Sound
<1>9. v[n] = WithFlags(x, g, S)
  <2>1. Told(n) = S
    <3>1. Told(n) \subseteq S
      BY <1>2, <1>6
    <3>2. S \subseteq Told(n)
      BY <1>4, <1>5
    <3> QED
      BY <3>1, <3>2
  <2>2. n \in 0 .. n
    BY <1>4
  <2> QED
    BY <2>1, <2>2
<1> HIDE DEF v, Told
<1>10. s \in Seq(Message) /\ Len(s) = n
  <2>1. M \subseteq Message
    <3>1. \A f \in S : FlagMessage(g, f) \in Message
      <4> TAKE f \in S
      <4>1. g[f] \in Flag /\ f \in FlagIds
        BY DEF Unplaced
      <4>2. FlagMessage(g, f) \in [type : {"flag"}, flag : FlagIds, spot : Spots \cup {"1,1"},
                                   team : Teams \cup {NoTeam}]
        BY <4>1 DEF FlagMessage, Flag
      <4> QED
        BY <4>2 DEF Message
    <3> QED
      BY <1>2, <3>1
  <2> QED
    BY <1>4, <2>1 DEF n
<1>11. Chain(v, s)
  BY <1>7, <1>8, <1>10 DEF Chain
<1> QED
  BY <1>1, <1>8, <1>9, <1>10, <1>11 DEF Path

(* Those in the arena a, carrying what c says, as far as they are in T.    *)
WithPlayers(a, c, T) ==
    View([id \in T |-> a[id]], <<>>,
         [f \in {h \in DOMAIN c : c[h] \in T} |-> c[f]])

EnterMessage(a, c, id) ==
    [type |-> "enter", id |-> id, team |-> a[id], count |-> Cardinality(Held(c, id))]

Populated(a, c) ==
    /\ DOMAIN a \subseteq Ids /\ \A k \in DOMAIN a : a[k] \in Teams
    /\ DOMAIN c \subseteq FlagIds

(* Telling of one more player.                                             *)
LEMMA OnePlayer ==
    ASSUME NEW a, NEW c, Populated(a, c), NEW T \in SUBSET DOMAIN a,
           NEW id \in DOMAIN a \ T
    PROVE  Leads(WithPlayers(a, c, T), EnterMessage(a, c, id), WithPlayers(a, c, T \cup {id}))
<1> DEFINE v == WithPlayers(a, c, T)
           w == WithPlayers(a, c, T \cup {id})
           m == EnterMessage(a, c, id)
           F == Held(c, id)
           e == <<>>
           A == [k \in T |-> a[k]]
           C == [f \in {h \in DOMAIN c : c[h] \in T} |-> c[f]]
           B == [k \in T \cup {id} |-> a[k]]
           D == [f \in {h \in DOMAIN c : c[h] \in T \cup {id}} |-> c[f]]
<1>1. v.arena = A /\ v.ground = e /\ v.carrier = C /\ DOMAIN e = {}
  BY DEF WithPlayers, View
<1>2. w = View(B, e, D)
  BY DEF WithPlayers
<1>3. B = Put(A, id, a[id])
  BY DEF Put
<1>4. D = Takes(C, F, id)
  <2>1. DOMAIN C \cup F = {h \in DOMAIN c : c[h] \in T \cup {id}}
    BY DEF Held
  <2>2. \A f \in DOMAIN D : D[f] = IF f \in F THEN id ELSE C[f]
    BY DEF Held
  <2> HIDE DEF F, C
  <2> QED
    BY <2>1, <2>2 DEF Takes
<1>5. F \in SUBSET Unplaced(v)
  BY <1>1 DEF Unplaced, Held, Populated
<1>6. IsFiniteSet(F)
  BY <1>5, ConstantsAssumption, FS_Subset DEF Unplaced
<1>7. Cardinality(F) \in Nat
  BY <1>6, FS_CardinalityType
<1>8. m.type = "enter" /\ m.id = id /\ m.team = a[id] /\ m.count = Cardinality(F)
  BY DEF EnterMessage
<1>9. m \in [type : {"enter"}, id : Ids, team : Teams, count : Nat]
  BY <1>7 DEF EnterMessage, Populated
<1>10. id \in Ids \ DOMAIN v.arena /\ a[id] \in Teams
  BY <1>1 DEF Populated
<1>11. m \in Message
  BY <1>9 DEF Message
<1> HIDE DEF v, w, m, A, B, C, D, F, e
<1>12. w = View(Put(v.arena, m.id, m.team), v.ground, Takes(v.carrier, F, m.id))
  BY <1>1, <1>2, <1>3, <1>4, <1>8
<1>13. Enters(v, m, w)
  BY <1>5, <1>8, <1>10, <1>12 DEF Enters
<1> QED
  BY <1>8, <1>11, <1>13 DEF Leads, v, w, m

(* An arena nobody is in.                                                  *)
LEMMA NobodyIsSound == Sound(View(<<>>, <<>>, <<>>))
<1> DEFINE e == <<>>
           v == View(e, e, e)
<1>1. v.arena = e /\ v.ground = e /\ v.carrier = e
  BY DEF View
<1>2. /\ DOMAIN e = {} /\ e \in [DOMAIN e -> Teams] /\ e \in [DOMAIN e -> Flag]
      /\ e \in [DOMAIN e -> DOMAIN e]
  OBVIOUS
<1> HIDE DEF e
<1>3. Sound(v)
  BY <1>1, <1>2 DEF Sound
<1> QED
  BY <1>3 DEF e

(* Telling of everybody, in whatever order.                                *)
LEMMA PlayersTold ==
    ASSUME NEW a, NEW c, Populated(a, c), c \in [DOMAIN c -> DOMAIN a],
           a = [k \in DOMAIN a |-> a[k]]
    PROVE  Path(View(<<>>, <<>>, <<>>), SetToSeq({EnterMessage(a, c, id) : id \in DOMAIN a}),
                View(a, <<>>, c))
<1> DEFINE M == {EnterMessage(a, c, id) : id \in DOMAIN a}
           s == SetToSeq(M)
           n == Len(s)
<1>1. \A m \in M : m.id \in DOMAIN a /\ m = EnterMessage(a, c, m.id)
  BY DEF EnterMessage
<1>2. IsFiniteSet(M)
  <2> DEFINE F == [id \in DOMAIN a |-> EnterMessage(a, c, id)]
  <2>1. F \in Surjection(DOMAIN a, M)
    BY DEF Surjection
  <2>2. IsFiniteSet(DOMAIN a)
    BY ConstantsAssumption, FS_Subset DEF Populated
  <2> HIDE DEF F, M
  <2> QED
    BY <2>1, <2>2, FS_Surjection
<1>3. /\ s \in Seq(M) /\ n \in Nat
      /\ \A i, j \in 1 .. n : s[i] = s[j] => i = j
      /\ \A m \in M : \E i \in 1 .. n : s[i] = m
  <2> HIDE DEF M
  <2> QED
    BY <1>2, SetToSeqIs
<1>4. \A id \in DOMAIN a : EnterMessage(a, c, id) \in M /\ EnterMessage(a, c, id).id = id
  BY DEF EnterMessage
<1> HIDE DEF M, s
<1>5. \A i \in 1 .. n : s[i] \in M
  BY <1>3
<1> HIDE DEF n
<1> DEFINE Told(i) == {s[j].id : j \in 1 .. i}
           v == [i \in 0 .. n |-> WithPlayers(a, c, Told(i))]
<1>6. ASSUME NEW i \in 1 .. n PROVE Leads(v[i - 1], s[i], v[i])
  <2> DEFINE k == s[i].id
             T == Told(i - 1)
  <2>1. i \in 0 .. n /\ i - 1 \in 0 .. n /\ i \in 1 .. n
    BY <1>3
  <2>2. 1 .. i = (1 .. i - 1) \cup {i} /\ \A j \in 1 .. i - 1 : j \in 1 .. n /\ j # i
    BY <1>3
  <2>3. Told(i) = T \cup {k}
    BY <2>2
  <2>4. k \in DOMAIN a /\ s[i] = EnterMessage(a, c, k)
    BY <1>1, <1>5
  <2>5. k \notin T
    <3>1. ASSUME NEW j \in 1 .. i - 1, s[j].id = k PROVE FALSE
      <4>1. j \in 1 .. n /\ j # i
        BY <2>2
      <4>2. s[j] = EnterMessage(a, c, k)
        BY <1>1, <1>5, <3>1, <4>1
      <4>3. s[j] = s[i]
        BY <2>4, <4>2
      <4> QED
        BY <1>3, <2>1, <4>1, <4>3
    <3> QED
      BY <3>1
  <2>6. v[i - 1] = WithPlayers(a, c, T) /\ v[i] = WithPlayers(a, c, T \cup {k})
    BY <2>1, <2>3
  <2>7. T \in SUBSET DOMAIN a
    BY <1>1, <1>5, <2>2
  <2> HIDE DEF k, T, v
  <2> QED
    BY <2>4, <2>5, <2>6, <2>7, OnePlayer
<1>7. v[0] = View(<<>>, <<>>, <<>>)
  <2> DEFINE e == <<>>
             A == [k \in {} |-> a[k]]
             C == [f \in {h \in DOMAIN c : c[h] \in {}} |-> c[f]]
  <2>1. Told(0) = {} /\ 0 \in 0 .. n
    BY <1>3
  <2>2. v[0] = View(A, e, C)
    BY <2>1 DEF WithPlayers
  <2>3. A = e /\ C = e
    OBVIOUS
  <2> HIDE DEF A, C, e, v
  <2> QED
    BY <2>2, <2>3 DEF e
<1>8. v[n] = View(a, <<>>, c)
  <2> DEFINE e == <<>>
             D == DOMAIN a
             A == [k \in D |-> a[k]]
             C == [f \in {h \in DOMAIN c : c[h] \in D} |-> c[f]]
  <2>1. Told(n) = D
    <3>1. Told(n) \subseteq D
      BY <1>1, <1>5
    <3>2. D \subseteq Told(n)
      BY <1>3, <1>4
    <3> QED
      BY <3>1, <3>2
  <2>2. n \in 0 .. n
    BY <1>3
  <2>3. v[n] = View(A, e, C)
    BY <2>1, <2>2 DEF WithPlayers
  <2>4. A = a /\ C = c
    OBVIOUS
  <2> HIDE DEF A, C, e, v
  <2> QED
    BY <2>3, <2>4 DEF e
<1> HIDE DEF v, Told
<1>9. Sound(v[0])
  BY <1>7, NobodyIsSound
<1>10. s \in Seq(Message) /\ Len(s) = n
  <2>1. \A id \in DOMAIN a : EnterMessage(a, c, id) \in Message
    <3> TAKE id \in DOMAIN a
    <3> DEFINE T == {}
    <3>1. T \in SUBSET DOMAIN a /\ id \in DOMAIN a \ T
      OBVIOUS
    <3> HIDE DEF T
    <3>2. Leads(WithPlayers(a, c, T), EnterMessage(a, c, id), WithPlayers(a, c, T \cup {id}))
      BY <3>1, OnePlayer
    <3> QED
      BY <3>2 DEF Leads
  <2>2. M \subseteq Message
    BY <1>1, <2>1
  <2> QED
    BY <1>3, <2>2 DEF n
<1>11. Chain(v, s)
  BY <1>6, <1>9, <1>10 DEF Chain
<1> QED
  BY <1>7, <1>8, <1>10, <1>11 DEF Path, s, M
-----------------------------------------------------------------------------
(* The arena as it is.                                                     *)
Now == View(arena, ground, carrier)

(* The inductive invariant: no flag of the arena is out of place, and the  *)
(* messages under way lead from what the bot sees to what the arena is.    *)
InStep ==
    /\ Unplaced(Now) = {}
    /\ \E x : Sees(x) /\ Path(x, inbox, Now)

(* One step of the server, as the messages it sends tell it.               *)
LEMMA AnnounceInStep ==
    ASSUME InStep, NEW q, Path(Now, q, Now'), Announce(q), Unplaced(Now') = {}
    PROVE  InStep'
<1>1. PICK x : Sees(x) /\ Path(x, inbox, Now)
  BY DEF InStep
<1>2. inbox' = inbox \o q /\ players' = players /\ flags' = flags
  BY DEF Announce
<1>3. Path(x, inbox', Now')
  BY <1>1, <1>2, PathsJoin
<1>4. Sees(x)'
  BY <1>1, <1>2 DEF Sees
<1> QED
  BY <1>3, <1>4 DEF InStep

(* A message is handled, and the bot sees the next view.                   *)
LEMMA HandleInStep ==
    ASSUME InStep, HandleNext
    PROVE  InStep'
<1>1. PICK x : Sees(x) /\ Path(x, inbox, Now)
  BY DEF InStep
<1>2. PICK v : Chain(v, inbox) /\ v[0] = x /\ v[Len(inbox)] = Now
  BY <1>1 DEF Path
<1> DEFINE q == Tail(inbox)
           n == Len(q)
           m == Head(inbox)
           u == [i \in 0 .. n |-> v[i + 1]]
<1>3. inbox \in Seq(Message) /\ inbox # <<>>
  BY <1>1 DEF Path, HandleNext
<1>4. /\ q \in Seq(Message) /\ n \in Nat /\ Len(inbox) = n + 1 /\ m = inbox[1]
      /\ \A i \in 1 .. n : q[i] = inbox[i + 1]
  BY <1>3
<1>5. inbox' = q /\ Now' = Now /\ Handle(m)
  BY DEF HandleNext, Now
<1> HIDE DEF q, m, n
<1>6. Sound(x) /\ Leads(x, m, v[1])
  BY <1>2, <1>4 DEF Chain
<1>7. Knows(players', v[1]) /\ flags' = (v[1]).ground
  BY <1>1, <1>5, <1>6, HandleSeen
<1>8. Sound(v[1])
  BY <1>6, LeadsToSound
<1>9. \A i \in 0 .. n : u[i] = v[i + 1]
  OBVIOUS
<1> HIDE DEF u
<1>10. Chain(u, q)
  <2>1. u[0] = v[1]
    BY <1>4, <1>9
  <2>2. ASSUME NEW i \in 1 .. n PROVE Leads(u[i - 1], q[i], u[i])
    <3> DEFINE j == i + 1
    <3>1. j \in 1 .. Len(inbox) /\ j - 1 = i /\ i \in 0 .. n /\ i - 1 \in 0 .. n /\ (i - 1) + 1 = i
      BY <1>4
    <3>2. q[i] = inbox[j] /\ u[i] = v[j] /\ u[i - 1] = v[i]
      BY <1>4, <1>9, <3>1
    <3> HIDE DEF j
    <3>3. Leads(v[j - 1], inbox[j], v[j])
      BY <1>2, <3>1 DEF Chain
    <3> QED
      BY <3>1, <3>2, <3>3
  <2> QED
    BY <1>8, <2>1, <2>2 DEF Chain, n
<1>11. u[0] = v[1] /\ u[n] = Now
  BY <1>2, <1>4, <1>9
<1>12. Path(v[1], q, Now)
  BY <1>4, <1>10, <1>11 DEF Path, n
<1>13. Path(v[1], inbox', Now')
  BY <1>5, <1>12
<1>14. Unplaced(Now') = {}
  BY <1>5 DEF InStep
<1> QED
  BY <1>7, <1>13, <1>14 DEF InStep, Sees

(* What holds of the arena between the steps.                              *)
LEMMA NowIs ==
    ASSUME InStep
    PROVE  /\ Sound(Now)
           /\ Now.arena = arena /\ Now.ground = ground /\ Now.carrier = carrier
           /\ DOMAIN arena \subseteq Ids /\ arena \in [DOMAIN arena -> Teams]
           /\ ground \in [DOMAIN ground -> Flag]
           /\ carrier \in [DOMAIN carrier -> DOMAIN arena]
           /\ DOMAIN ground \cap DOMAIN carrier = {}
           /\ DOMAIN ground \cup DOMAIN carrier = FlagIds
<1>1. Sound(Now)
  BY PathIsSound DEF InStep
<1>2. Now.arena = arena /\ Now.ground = ground /\ Now.carrier = carrier
  BY DEF Now, View
<1> HIDE DEF Now
<1> QED
  BY <1>1, <1>2 DEF InStep, Unplaced, Sound

(* What a player carries is scattered.                                     *)
LEMMA ScatterInStep ==
    ASSUME InStep, NEW id, NEW team \in Teams \cup {NoTeam}, NEW m, Scatter(id, team, m),
           Leads(Now, m, View(arena', ground, Without(carrier, Held(carrier, id))))
    PROVE  InStep'
<1> DEFINE S == Held(carrier, id)
           c == Without(carrier, S)
           y == View(arena', ground, c)
           g == ground'
<1>1. CarriedBy(id) = S
  BY DEF CarriedBy, Held
<1>2. PICK spot \in Spots :
          /\ g = [f \in DOMAIN ground \cup S |->
                     IF f \in DOMAIN ground THEN ground[f] ELSE [spot |-> spot, team |-> team]]
          /\ carrier' = c
          /\ Announce(<<m>> \o FlagMessages(S, g))
  BY <1>1 DEF Scatter
<1>3. Sound(Now) /\ Leads(Now, m, y)
  BY NowIs
<1>4. Sound(y) /\ Path(Now, <<m>>, y)
  BY <1>3, LeadsToSound, PathOfOne
<1>5. y.arena = arena' /\ y.ground = ground /\ y.carrier = c
  BY DEF View
<1>6. S \subseteq FlagIds /\ S \cap DOMAIN ground = {} /\ S \subseteq DOMAIN carrier
  BY NowIs DEF Held
<1>7. DOMAIN c = DOMAIN carrier \ S
  BY DEF Without
<1>8. S \in SUBSET Unplaced(y)
  BY <1>5, <1>6, <1>7 DEF Unplaced
<1>9. \A f \in S : g[f] \in Flag
  <2>1. [spot |-> spot, team |-> team] \in Flag
    BY DEF Flag
  <2> QED
    BY <1>2, <1>6, <2>1
<1>10. WithFlags(y, g, S) = Now'
  <2> DEFINE a == [f \in DOMAIN y.ground \cup S |->
                      IF f \in DOMAIN y.ground THEN y.ground[f] ELSE g[f]]
  <2>1. a = g
    BY <1>2, <1>5
  <2>2. WithFlags(y, g, S) = View(y.arena, a, y.carrier)
    BY DEF WithFlags
  <2> HIDE DEF a, y, c
  <2> QED
    BY <1>2, <1>5, <2>1, <2>2 DEF Now
<1> HIDE DEF S, y, c
<1>11. Path(y, FlagMessages(S, g), Now')
  BY <1>4, <1>8, <1>9, <1>10, FlagsTold
<1>12. Path(Now, <<m>> \o FlagMessages(S, g), Now')
  BY <1>4, <1>11, PathsJoin
<1>13. Unplaced(Now') = {}
  <2>1. /\ (Now').ground = ground' /\ (Now').carrier = carrier'
    BY DEF Now, View
  <2>2. DOMAIN ground \cup DOMAIN carrier = FlagIds
    BY NowIs
  <2>3. DOMAIN g = DOMAIN ground \cup S
    BY <1>2
  <2> HIDE DEF g
  <2> QED
    BY <1>2, <1>7, <2>1, <2>2, <2>3 DEF Unplaced, g
<1> QED
  BY <1>2, <1>12, <1>13, AnnounceInStep

(* A player leaves, changes teams, goes to spectate, drops what he has.    *)
LEMMA LeaveInStep ==
    ASSUME InStep, NEW id \in DOMAIN arena,
           \/ Leave(id) \/ Spectate(id) \/ Drop(id)
           \/ \E team \in Teams : ChangeTeam(id, team)
    PROVE  InStep'
<1> DEFINE c == Without(carrier, Held(carrier, id))
<1>1. id \in Ids /\ arena[id] \in Teams
  BY NowIs
<1>2. Now.arena = arena /\ Now.ground = ground /\ Now.carrier = carrier
  BY NowIs
<1>3. NoTeam \in Teams \cup {NoTeam} /\ arena[id] \in Teams \cup {NoTeam}
  BY <1>1
<1>4. CASE Leave(id)
  <2> DEFINE m == [type |-> "leave", id |-> id]
  <2>1. arena' = Without(arena, {id}) /\ Scatter(id, NoTeam, m)
    BY <1>4 DEF Leave
  <2>2. m \in Message /\ m.type = "leave" /\ m.id = id
    BY <1>1 DEF Message
  <2> HIDE DEF m
  <2>3. Leaves(Now, m, View(arena', ground, c))
    BY <1>2, <2>1, <2>2 DEF Leaves
  <2>4. Leads(Now, m, View(arena', ground, c))
    BY <2>2, <2>3 DEF Leads
  <2> QED
    BY <1>3, <2>1, <2>4, ScatterInStep
<1>5. ASSUME NEW type \in {"spec", "drop"}, NEW team \in Teams \cup {NoTeam},
             arena' = arena, Scatter(id, team, [type |-> type, id |-> id])
      PROVE  InStep'
  <2> DEFINE m == [type |-> type, id |-> id]
  <2>2. m \in Message /\ m.type = type /\ m.id = id
    BY <1>1 DEF Message
  <2>1. Scatter(id, team, m)
    BY <1>5
  <2> HIDE DEF m
  <2>3. Drops(Now, m, View(arena', ground, c))
    BY <1>2, <1>5, <2>2 DEF Drops
  <2>4. Leads(Now, m, View(arena', ground, c))
    BY <2>2, <2>3 DEF Leads
  <2> QED
    BY <2>1, <2>4, ScatterInStep
<1>6. CASE Spectate(id)
  BY <1>3, <1>5, <1>6 DEF Spectate
<1>7. CASE Drop(id)
  BY <1>3, <1>5, <1>7 DEF Drop
<1>8. ASSUME NEW team \in Teams, ChangeTeam(id, team) PROVE InStep'
  <2> DEFINE m == [type |-> "team", id |-> id, team |-> team]
  <2>1. arena' = [arena EXCEPT ![id] = team] /\ Scatter(id, NoTeam, m)
    BY <1>8 DEF ChangeTeam
  <2>2. m \in Message /\ m.type = "team" /\ m.id = id /\ m.team = team
    BY <1>1 DEF Message
  <2> HIDE DEF m
  <2>3. ChangesTeam(Now, m, View(arena', ground, c))
    BY <1>2, <2>1, <2>2 DEF ChangesTeam
  <2>4. Leads(Now, m, View(arena', ground, c))
    BY <2>2, <2>3 DEF Leads
  <2> QED
    BY <1>3, <2>1, <2>4, ScatterInStep
<1> QED
  BY <1>4, <1>6, <1>7, <1>8

(* A player enters the arena.                                              *)
LEMMA EnterInStep ==
    ASSUME InStep, NEW id \in Ids, NEW team \in Teams, Enter(id, team)
    PROVE  InStep'
<1> DEFINE m == [type |-> "enter", id |-> id, team |-> team, count |-> 0]
           F == {}
<1>1. /\ id \notin DOMAIN arena /\ arena' = Put(arena, id, team)
      /\ Announce(<<m>>) /\ ground' = ground /\ carrier' = carrier
  BY DEF Enter
<1>2. m \in Message /\ m.type = "enter" /\ m.id = id /\ m.team = team /\ m.count = 0
  BY DEF Message
<1> HIDE DEF m
<1>3. Now.arena = arena /\ Now.ground = ground /\ Now.carrier = carrier /\ Sound(Now)
  BY NowIs
<1>4. Takes(carrier, F, id) = carrier /\ F \in SUBSET Unplaced(Now) /\ Cardinality(F) = 0
  BY NowIs, FS_EmptySet DEF Takes
<1> HIDE DEF F
<1>5. Now' = View(Put(arena, id, team), ground, Takes(carrier, F, id))
  BY <1>1, <1>4 DEF Now
<1>6. Enters(Now, m, Now')
  BY <1>1, <1>2, <1>3, <1>4, <1>5 DEF Enters
<1>7. Leads(Now, m, Now')
  BY <1>2, <1>6 DEF Leads
<1>8. Path(Now, <<m>>, Now')
  BY <1>3, <1>7, PathOfOne
<1>9. (Now').ground = ground /\ (Now').carrier = carrier
  BY <1>1 DEF Now, View
<1>10. Unplaced(Now') = {}
  BY <1>3, <1>9 DEF Unplaced, InStep
<1> QED
  BY <1>1, <1>8, <1>10, AnnounceInStep

(* A player picks up a flag.                                               *)
LEMMA PickUpInStep ==
    ASSUME InStep, NEW id \in DOMAIN arena, NEW f \in FlagIds, PickUp(f, id)
    PROVE  InStep'
<1> DEFINE m == [type |-> "claim", id |-> id, flag |-> f]
           c == Takes(carrier, {f}, id)
           g == Without(ground, {f})
<1>1. /\ f \in DOMAIN ground /\ ground' = g
      /\ carrier' = Put(carrier, f, id) /\ Announce(<<m>>) /\ arena' = arena
  BY DEF PickUp
<1>2. m \in Message /\ m.type = "claim" /\ m.id = id /\ m.flag = f
  BY NowIs DEF Message
<1> HIDE DEF m
<1>3. Now.arena = arena /\ Now.ground = ground /\ Now.carrier = carrier /\ Sound(Now)
  BY NowIs
<1>4. carrier' = c
  BY <1>1 DEF Put, Takes
<1>5. Now' = View(arena, g, c)
  BY <1>1, <1>4 DEF Now
<1>6. Claims(Now, m, Now')
  BY <1>1, <1>2, <1>3, <1>5 DEF Claims
<1>7. Leads(Now, m, Now')
  BY <1>2, <1>6 DEF Leads
<1>8. Path(Now, <<m>>, Now')
  BY <1>3, <1>7, PathOfOne
<1>9. (Now').ground = g /\ (Now').carrier = c
  BY <1>5 DEF View
<1>10. Unplaced(Now') = {}
  <2>1. DOMAIN g = DOMAIN ground \ {f} /\ DOMAIN c = DOMAIN carrier \cup {f}
    BY DEF Without, Takes
  <2> QED
    BY <1>9, <2>1, NowIs DEF Unplaced
<1> QED
  BY <1>1, <1>8, <1>10, AnnounceInStep

(* A player kills another.                                                 *)
LEMMA KillInStep ==
    ASSUME InStep, NEW id \in DOMAIN arena, NEW killee \in DOMAIN arena, Kill(id, killee)
    PROVE  InStep'
<1> DEFINE F == Held(carrier, killee)
<1>1. CarriedBy(killee) = F /\ id # killee /\ arena' = arena /\ id \in Ids /\ killee \in Ids
  BY NowIs DEF CarriedBy, Held, Kill
<1>2. Now.arena = arena /\ Now.ground = ground /\ Now.carrier = carrier /\ Sound(Now)
  BY NowIs
<1>3. Cardinality(F) \in Nat /\ 0 \in Nat
  <2>1. Cardinality(F) \in 0 .. Cardinality(FlagIds)
    BY <1>2, HeldIsFinite
  <2> QED
    BY <2>1
<1>4. ASSUME NEW n \in Nat
      PROVE  LET m == [type |-> "death", id |-> id, killee |-> killee, count |-> n]
             IN  m \in Message /\ m.type = "death" /\ m.id = id /\ m.killee = killee /\ m.count = n
  BY <1>1 DEF Message
<1>5. ASSUME carrier' = [f \in DOMAIN carrier |->
                            IF carrier[f] = killee THEN id ELSE carrier[f]],
             Announce(<<[type |-> "death", id |-> id, killee |-> killee,
                         count |-> Cardinality(CarriedBy(killee))]>>),
             ground' = ground
      PROVE  InStep'
  <2> DEFINE n == Cardinality(F)
             m == [type |-> "death", id |-> id, killee |-> killee, count |-> n]
             c == Takes(carrier, F, id)
  <2>1. m \in Message /\ m.type = "death" /\ m.id = id /\ m.killee = killee /\ m.count = n
    BY <1>3, <1>4
  <2>2. Announce(<<m>>)
    BY <1>1, <1>5
  <2> HIDE DEF m, n
  <2>3. carrier' = c
    BY <1>5 DEF Takes, Held
  <2>4. Now' = View(arena, ground, c)
    BY <1>1, <1>5, <2>3 DEF Now
  <2>5. Kills(Now, m, Now')
    BY <1>1, <1>2, <2>1, <2>4 DEF Kills, n
  <2>6. Leads(Now, m, Now')
    BY <2>1, <2>5 DEF Leads
  <2>7. Path(Now, <<m>>, Now')
    BY <1>2, <2>6, PathOfOne
  <2>8. (Now').ground = ground /\ (Now').carrier = carrier'
    BY <1>5 DEF Now, View
  <2>9. Unplaced(Now') = {}
    BY <1>5, <2>8, NowIs DEF Unplaced
  <2> QED
    BY <2>2, <2>7, <2>9, AnnounceInStep
<1>6. ASSUME Scatter(killee, NoTeam, [type |-> "death", id |-> id, killee |-> killee,
                                      count |-> 0])
      PROVE  InStep'
  <2> DEFINE n == 0
             m == [type |-> "death", id |-> id, killee |-> killee, count |-> n]
             y == View(arena', ground, Without(carrier, F))
  <2>1. m \in Message /\ m.type = "death" /\ m.id = id /\ m.killee = killee /\ m.count = 0
    BY <1>3, <1>4
  <2>2. Scatter(killee, NoTeam, m)
    BY <1>6
  <2> HIDE DEF m
  <2>3. Kills(Now, m, y)
    BY <1>1, <1>2, <2>1 DEF Kills
  <2>4. Leads(Now, m, y)
    BY <2>1, <2>3 DEF Leads
  <2>5. NoTeam \in Teams \cup {NoTeam}
    OBVIOUS
  <2> QED
    BY <2>2, <2>4, <2>5, ScatterInStep
<1> QED
  BY <1>5, <1>6 DEF Kill

(* A team wins, and the flags lie where the next game has them.            *)
LEMMA VictoryInStep ==
    ASSUME InStep, NEW spot \in Spots, Victory(spot)
    PROVE  InStep'
<1> DEFINE m == [type |-> "victory"]
           e == <<>>
           g == [f \in FlagIds |-> [spot |-> spot, team |-> NoTeam]]
           y == View(arena, e, e)
<1>1. carrier' = e /\ ground' = g /\ Announce(<<m>> \o FlagMessages(FlagIds, g)) /\ arena' = arena
  BY DEF Victory
<1>2. m \in Message /\ m.type = "victory"
  BY DEF Message
<1>3. Now.arena = arena /\ Sound(Now)
  BY NowIs
<1>4. Wins(Now, m, y)
  BY <1>3 DEF Wins
<1>5. \A f \in FlagIds : g[f] \in Flag
  BY DEF Flag
<1>6. y.arena = arena /\ y.ground = e /\ y.carrier = e /\ DOMAIN e = {}
  BY DEF View
<1>7. [f \in DOMAIN e \cup FlagIds |-> IF f \in DOMAIN e THEN e[f] ELSE g[f]] = g
  OBVIOUS
<1> HIDE DEF m, y
<1>8. Leads(Now, m, y)
  BY <1>2, <1>4 DEF Leads
<1>9. Sound(y) /\ Path(Now, <<m>>, y)
  BY <1>3, <1>8, LeadsToSound, PathOfOne
<1> HIDE DEF e, g
<1>10. FlagIds \in SUBSET Unplaced(y)
  BY <1>6 DEF Unplaced
<1>11. Path(y, FlagMessages(FlagIds, g), WithFlags(y, g, FlagIds))
  BY <1>5, <1>9, <1>10, FlagsTold
<1>12. WithFlags(y, g, FlagIds) = Now'
  BY <1>1, <1>6, <1>7 DEF WithFlags, Now
<1>13. Path(Now, <<m>> \o FlagMessages(FlagIds, g), Now')
  BY <1>9, <1>11, <1>12, PathsJoin
<1>14. Unplaced(Now') = {}
  <2>1. (Now').ground = g
    BY <1>1 DEF Now, View
  <2> QED
    BY <2>1 DEF Unplaced, g
<1> QED
  BY <1>1, <1>13, <1>14, AnnounceInStep

(* The bot enters: it is told who is there and where the flags lie.        *)
LEMMA InitIsInStep == Init => InStep
<1> SUFFICES ASSUME Init PROVE InStep
  OBVIOUS
<1> DEFINE e == <<>>
           x == View(e, e, e)
           y == View(arena, e, carrier)
           M == {EnterMessage(arena, carrier, id) : id \in DOMAIN arena}
           q == SetToSeq(M)
<1>1. PICK S \in SUBSET Ids : arena \in [S -> Teams]
  BY DEF Init
<1>2. PICK held \in SUBSET FlagIds :
          /\ carrier \in [held -> DOMAIN arena]
          /\ ground \in [FlagIds \ held -> [spot : Spots, team : Teams \cup {NoTeam}]]
  BY DEF Init
<1>3. inbox = q \o FlagMessages(DOMAIN ground, ground)
  <2>1. M = {[type |-> "enter", id |-> id, team |-> arena[id],
              count |-> Cardinality(CarriedBy(id))] : id \in DOMAIN arena}
    BY DEF EnterMessage, CarriedBy, Held
  <2> QED
    BY <2>1 DEF Init
<1>4. /\ Populated(arena, carrier) /\ carrier \in [DOMAIN carrier -> DOMAIN arena]
      /\ arena = [k \in DOMAIN arena |-> arena[k]]
  BY <1>1, <1>2 DEF Populated
<1>5. Path(x, q, y)
  BY <1>4, PlayersTold
<1>6. /\ DOMAIN ground = FlagIds \ DOMAIN carrier /\ DOMAIN carrier \subseteq FlagIds
      /\ \A f \in DOMAIN ground : ground[f] \in Flag
      /\ ground = [f \in DOMAIN ground |-> ground[f]]
  BY <1>2 DEF Flag
<1>7. y.arena = arena /\ y.ground = e /\ y.carrier = carrier /\ DOMAIN e = {}
  BY DEF View
<1>8. x.arena = e /\ x.ground = e
  BY DEF View
<1>9. [f \in DOMAIN e \cup DOMAIN ground |-> IF f \in DOMAIN e THEN e[f] ELSE ground[f]] = ground
  BY <1>6, <1>7
<1>10. Sees(x)
  BY <1>7, <1>8 DEF Init, Sees, Knows
<1> HIDE DEF q, x, y, M, e
<1>11. Sound(y)
  BY <1>5, PathIsSound
<1>12. DOMAIN ground \in SUBSET Unplaced(y)
  BY <1>6, <1>7 DEF Unplaced
<1>13. Path(y, FlagMessages(DOMAIN ground, ground), WithFlags(y, ground, DOMAIN ground))
  BY <1>6, <1>11, <1>12, FlagsTold
<1>14. WithFlags(y, ground, DOMAIN ground) = Now
  BY <1>7, <1>9 DEF WithFlags, Now
<1>15. Path(x, inbox, Now)
  BY <1>3, <1>5, <1>13, <1>14, PathsJoin
<1>16. Unplaced(Now) = {}
  BY <1>6 DEF Unplaced, Now, View
<1> QED
  BY <1>10, <1>15, <1>16 DEF InStep

(* Every step preserves it.                                                *)
LEMMA StepIsInStep == InStep /\ [Next]_vars => InStep'
<1> SUFFICES ASSUME InStep, [Next]_vars PROVE InStep'
  OBVIOUS
<1>1. CASE HandleNext
  BY <1>1, HandleInStep
<1>2. CASE \E id \in Ids, team \in Teams : Enter(id, team)
  BY <1>2, EnterInStep
<1>3. CASE \E spot \in Spots : Victory(spot)
  BY <1>3, VictoryInStep
<1>4. ASSUME NEW id \in DOMAIN arena,
             \/ Leave(id) \/ Spectate(id) \/ Drop(id)
             \/ \E team \in Teams : ChangeTeam(id, team)
      PROVE  InStep'
  BY <1>4, LeaveInStep
<1>5. ASSUME NEW id \in DOMAIN arena, NEW f \in FlagIds, PickUp(f, id) PROVE InStep'
  BY <1>5, PickUpInStep
<1>6. ASSUME NEW id \in DOMAIN arena, NEW killee \in DOMAIN arena, Kill(id, killee)
      PROVE  InStep'
  BY <1>6, KillInStep
<1>7. CASE UNCHANGED vars
  BY <1>7 DEF vars, InStep, Now, Sees
<1> QED
  BY <1>1, <1>2, <1>3, <1>4, <1>5, <1>6, <1>7 DEF Next

(* At all times the messages under way lead from what the bot sees to what *)
(* the arena is: the handlers follow the announcements of the server,      *)
(* however many of them are still to be handled.                           *)
THEOREM Invariance == Spec => []InStep
BY InitIsInStep, StepIsInStep, PTL DEF Spec

(* Types: the players and flags of the arena, every flag on the ground or  *)
(* in somebody's hands; a count is never more than the arena has flags.    *)
THEOREM TypeCorrect == Spec => []TypeOK
<1>1. InStep => TypeOK
  <2> SUFFICES ASSUME InStep PROVE TypeOK
    OBVIOUS
  <2>1. PICK x : Sees(x) /\ Path(x, inbox, Now)
    BY DEF InStep
  <2>2. Sound(x)
    BY <2>1, PathIsSound
  <2>3. /\ DOMAIN players = DOMAIN x.arena /\ DOMAIN x.arena \subseteq Ids
        /\ flags = x.ground /\ x.ground \in [DOMAIN x.ground -> Flag]
        /\ DOMAIN x.ground \subseteq FlagIds
    BY <2>1, <2>2 DEF Sees, Knows, Sound
  <2>4. ASSUME NEW id \in DOMAIN players PROVE players[id] \in Player
    <3>1. players[id] = [team |-> x.arena[id], flagCount |-> Cardinality(Held(x.carrier, id))]
      BY <2>1 DEF Sees, Knows, Entry
    <3>2. x.arena[id] \in Teams
      BY <2>2, <2>3 DEF Sound
    <3>3. Cardinality(Held(x.carrier, id)) \in 0 .. Cardinality(FlagIds)
      BY <2>2, HeldIsFinite
    <3> QED
      BY <3>1, <3>2, <3>3 DEF Player
  <2> QED
    BY <2>3, <2>4, NowIs DEF TypeOK
<1> QED
  BY <1>1, Invariance, PTL

(* claimFlag() and the other handlers of flags: once every message has     *)
(* been handled, the list holds the flags that lie in the arena, and each  *)
(* flagCount is the number of flags the player carries.                    *)
THEOREM FlagsAreThoseOfTheArena == Spec => []FlagsMatch
<1>1. InStep => FlagsMatch
  <2> SUFFICES ASSUME InStep, inbox = <<>>
               PROVE  /\ flags = ground /\ DOMAIN players = DOMAIN arena
                      /\ \A id \in DOMAIN players :
                            players[id].flagCount = Cardinality(CarriedBy(id))
    BY DEF FlagsMatch
  <2>1. PICK x : Sees(x) /\ Path(x, inbox, Now)
    BY DEF InStep
  <2>2. x = Now
    <3>1. Len(inbox) = 0
      OBVIOUS
    <3> QED
      BY <2>1, <3>1 DEF Path
  <2>3. Sees(Now)
    BY <2>1, <2>2
  <2>4. Now.arena = arena /\ Now.ground = ground /\ Now.carrier = carrier
    BY NowIs
  <2>5. ASSUME NEW id \in DOMAIN players
        PROVE  players[id].flagCount = Cardinality(CarriedBy(id))
    BY <2>3, <2>4 DEF Sees, Knows, Entry, Held, CarriedBy
  <2> QED
    BY <2>3, <2>4, <2>5 DEF Sees, Knows
<1> QED
  BY <1>1, Invariance, PTL

-----------------------------------------------------------------------------
(* The flags in the hands of the players of s, counted together and one    *)
(* player after the other, as FoldSet does.                                *)
Hands(c, s) == {f \in DOMAIN c : c[f] \in s}

CountTo(S, iter) ==
    [s \in SUBSET S |->
        IF s = {} THEN 0
        ELSE LET id == CHOOSE id \in s : TRUE
             IN  iter[s \ {id}] + players[id].flagCount]

(* One more player adds the flags he carries.                              *)
LEMMA OneMore ==
    ASSUME NEW v, Sound(v), NEW s, NEW id \in s
    PROVE  /\ Cardinality(Hands(v.carrier, s)) \in Nat
           /\ Cardinality(Hands(v.carrier, s))
                = Cardinality(Hands(v.carrier, s \ {id})) + Cardinality(Held(v.carrier, id))
<1> DEFINE A == Hands(v.carrier, s \ {id})
           B == Held(v.carrier, id)
<1>1. IsFiniteSet(FlagIds) /\ A \in SUBSET FlagIds /\ B \in SUBSET FlagIds
  BY ConstantsAssumption DEF Sound, Hands, Held
<1>2. A \cap B = {} /\ A \cup B = Hands(v.carrier, s)
  BY DEF Hands, Held
<1> HIDE DEF A, B
<1>3. IsFiniteSet(A) /\ IsFiniteSet(B)
  BY <1>1, FS_Subset
<1>4. Cardinality(A) \in Nat /\ Cardinality(B) \in Nat /\ Cardinality(A \cap B) = 0
  BY <1>2, <1>3, FS_CardinalityType, FS_EmptySet
<1>5. Cardinality(A \cup B) = Cardinality(A) + Cardinality(B) - Cardinality(A \cap B)
  BY <1>3, FS_Union
<1>6. /\ Cardinality(A \cup B) = Cardinality(A) + Cardinality(B)
      /\ Cardinality(A \cup B) \in Nat
  BY <1>4, <1>5
<1>7. Cardinality(Hands(v.carrier, s)) = Cardinality(A) + Cardinality(B)
  BY <1>2, <1>6
<1>8. Cardinality(Hands(v.carrier, s)) \in Nat
  BY <1>2, <1>6
<1> QED
  BY <1>7, <1>8 DEF A, B

(* The count of a player is of the flags he carries in the view.           *)
LEMMA FlagCountIs ==
    ASSUME NEW v, Sees(v), NEW id \in DOMAIN players
    PROVE  players[id].flagCount = Cardinality(Held(v.carrier, id))
<1>1. players[id] = Entry(v, id)
  BY DEF Sees, Knows
<1> QED
  BY <1>1 DEF Entry

(* There is a way to count, and it has one outcome.                        *)
LEMMA Countable ==
    ASSUME NEW v, Sound(v), Sees(v)
    PROVE  \E g : g = CountTo(DOMAIN players, g)
<1> DEFINE D == DOMAIN players
           g == [s \in SUBSET D |-> Cardinality(Hands(v.carrier, s))]
<1>1. ASSUME NEW s \in SUBSET D, s # {}
      PROVE  LET id == CHOOSE id \in s : TRUE
             IN  g[s] = g[s \ {id}] + players[id].flagCount
  <2> DEFINE id == CHOOSE id \in s : TRUE
  <2>1. id \in s
    BY <1>1
  <2> HIDE DEF id
  <2>2. players[id].flagCount = Cardinality(Held(v.carrier, id))
    BY <2>1, FlagCountIs
  <2>3. g[s] = Cardinality(Hands(v.carrier, s))
    OBVIOUS
  <2>4. g[s \ {id}] = Cardinality(Hands(v.carrier, s \ {id}))
    OBVIOUS
  <2> HIDE DEF g
  <2>5. Cardinality(Hands(v.carrier, s))
          = Cardinality(Hands(v.carrier, s \ {id})) + Cardinality(Held(v.carrier, id))
    BY <2>1, OneMore, Zenon
  <2>6. g[s] = g[s \ {id}] + players[id].flagCount
    BY <2>2, <2>3, <2>4, <2>5, Zenon
  <2> QED
    BY <2>6 DEF id
<1>2. ASSUME NEW s \in SUBSET D, s = {} PROVE g[s] = 0
  <2>1. Hands(v.carrier, {}) = {}
    BY DEF Hands
  <2> QED
    BY <1>2, <2>1, FS_EmptySet
<1>3. \A s \in SUBSET D : g[s] = CountTo(D, g)[s]
  BY <1>1, <1>2 DEF CountTo
<1>4. DOMAIN g = SUBSET D /\ DOMAIN CountTo(D, g) = SUBSET D
  BY DEF CountTo
<1>5. g = CountTo(D, g)
  <2>1. g = [s \in SUBSET D |-> g[s]] /\ CountTo(D, g) = [s \in SUBSET D |-> CountTo(D, g)[s]]
    BY DEF CountTo
  <2> QED
    BY <1>3, <2>1, Zenon
<1> QED
  BY <1>5

(* Whoever is counted first, no flag is counted twice.                     *)
LEMMA CountedOnce ==
    ASSUME NEW v, Sound(v), Sees(v), NEW h, h = CountTo(DOMAIN players, h)
    PROVE  h[DOMAIN players] = Cardinality(Hands(v.carrier, DOMAIN players))
<1> DEFINE D == DOMAIN players
           n == Cardinality(D)
           T == {k \in 0 .. n : \A s \in SUBSET D :
                    Cardinality(s) = k => h[s] = Cardinality(Hands(v.carrier, s))}
<1>1. IsFiniteSet(D) /\ n \in Nat
  <2>1. D \in SUBSET Ids /\ IsFiniteSet(Ids)
    BY ConstantsAssumption DEF Sees, Knows, Sound
  <2>2. IsFiniteSet(D)
    BY <2>1, FS_Subset
  <2> QED
    BY <2>2, FS_CardinalityType
<1>2. 0 \in T
  <2>1. ASSUME NEW s \in SUBSET D, Cardinality(s) = 0
        PROVE  h[s] = Cardinality(Hands(v.carrier, s))
    <3>1. s = {}
      BY <1>1, <2>1, FS_Subset, FS_EmptySet
    <3>2. h[s] = CountTo(D, h)[s]
      OBVIOUS
    <3>3. CountTo(D, h)[s] = 0
      BY <3>1 DEF CountTo
    <3>4. Hands(v.carrier, s) = {}
      BY <3>1 DEF Hands
    <3> QED
      BY <3>2, <3>3, <3>4, FS_EmptySet
  <2> QED
    BY <1>1, <2>1
<1>3. ASSUME NEW k \in 0 .. n - 1, k \in T PROVE k + 1 \in T
  <2>1. ASSUME NEW s \in SUBSET D, Cardinality(s) = k + 1
        PROVE  h[s] = Cardinality(Hands(v.carrier, s))
    <3> DEFINE id == CHOOSE id \in s : TRUE
    <3>1. IsFiniteSet(s) /\ s # {} /\ k \in Nat
      BY <1>1, <1>3, <2>1, FS_Subset, FS_EmptySet
    <3>2. id \in s
      BY <3>1
    <3>3. h[s] = CountTo(D, h)[s]
      OBVIOUS
    <3>4. CountTo(D, h)[s] = h[s \ {id}] + players[id].flagCount
      BY <3>1 DEF CountTo
    <3> HIDE DEF id
    <3>5. Cardinality(s \ {id}) = k
      BY <2>1, <3>1, <3>2, FS_RemoveElement
    <3>6. h[s \ {id}] = Cardinality(Hands(v.carrier, s \ {id}))
      BY <1>3, <3>5
    <3>7. players[id].flagCount = Cardinality(Held(v.carrier, id))
      BY <3>2, FlagCountIs
    <3>8. Cardinality(Hands(v.carrier, s))
            = Cardinality(Hands(v.carrier, s \ {id})) + Cardinality(Held(v.carrier, id))
      BY <3>2, OneMore, Zenon
    <3> QED
      BY <3>3, <3>4, <3>6, <3>7, <3>8, Zenon
  <2>2. k + 1 \in 0 .. n
    BY <1>1
  <2> QED
    BY <2>1, <2>2
<1> HIDE DEF T
<1>4. n \in T
  BY <1>1, <1>2, <1>3, InductionUpTo
<1> QED
  BY <1>4 DEF T

(* However much is still to be handled, the flags listed and the flags     *)
(* counted are never more than the arena has.                              *)
THEOREM NoFlagIsTwice == Spec => []NoFlagTwice
<1>1. InStep => NoFlagTwice
  <2> SUFFICES ASSUME InStep PROVE NoFlagTwice
    OBVIOUS
  <2> DEFINE h == CHOOSE g : g = CountTo(DOMAIN players, g)
             sum == FoldSet(LAMBDA id, n : n + players[id].flagCount, 0, DOMAIN players)
  <2>1. sum = h[DOMAIN players]
    BY Zenon DEF FoldSet, MapThenFoldSet, CountTo
  <2>2. PICK x : Sees(x) /\ Path(x, inbox, Now)
    BY DEF InStep
  <2>3. Sound(x)
    BY <2>2, PathIsSound
  <2>4. h = CountTo(DOMAIN players, h)
    BY <2>2, <2>3, Countable
  <2> HIDE DEF h
  <2> DEFINE A == Hands(x.carrier, DOMAIN players)
             B == DOMAIN flags
  <2>5. sum = Cardinality(A)
    BY <2>1, <2>2, <2>3, <2>4, CountedOnce
  <2>6. A \cup B \in SUBSET FlagIds /\ A \cap B = {} /\ IsFiniteSet(FlagIds)
    BY <2>2, <2>3, ConstantsAssumption DEF Hands, Sound, Sees
  <2>7. A \in SUBSET FlagIds /\ B \in SUBSET FlagIds
    BY <2>6
  <2> HIDE DEF A, B, sum
  <2>8. IsFiniteSet(A) /\ IsFiniteSet(B) /\ Cardinality(A \cup B) <= Cardinality(FlagIds)
    BY <2>6, <2>7, FS_Subset
  <2>9. /\ Cardinality(A) \in Nat /\ Cardinality(B) \in Nat /\ Cardinality(FlagIds) \in Nat
        /\ Cardinality(A \cap B) = 0
    BY <2>6, <2>8, FS_CardinalityType, FS_EmptySet
  <2>10. Cardinality(A \cup B) = Cardinality(A) + Cardinality(B)
    BY <2>8, <2>9, FS_Union
  <2>11. Cardinality(B) + sum <= Cardinality(FlagIds)
    BY <2>5, <2>8, <2>9, <2>10
  <2> QED
    BY <2>11 DEF B, sum, NoFlagTwice
<1> QED
  BY <1>1, Invariance, PTL
-----------------------------------------------------------------------------
(***************************************************************************)
(* From here on about Playfield.                                           *)
(*                                                                         *)
(* That flags have the server's teams follows from what each message does  *)
(* to the list, which the map does not change (FlagsAreOwned).  That each  *)
(* tile of a brick is listed once needs more: that each entry is a tile of *)
(* a brick the server has announced, and that a brick that is listed at    *)
(* all is listed whole, with one time for its tiles (BricksAreWhole).      *)
(***************************************************************************)

TurfFlag == [spot : 0 .. TileMax, team : FieldTeams \cup {UnassignedTeam}]

Ball == [ident : BallIds, carried : BOOLEAN, lastrecv : Nat]

(* A tile of the brick b, as the bot lists it.                             *)
Tile(b, j) ==
    [spot |-> Trace(b)[j], ident |-> b.ident, time |-> b.time + BrickTime]

LaidTile == [spot : Tiles, ident : BrickIds, time : Nat]

ArenaFits ==
    /\ map \in Maps /\ owner \in [TurfFlagIds(map) -> FieldTeams] /\ now \in 0 .. MaxTime
    /\ dropped \subseteq Brick
    /\ \A b, c \in dropped : b.ident = c.ident => b = c

FilesFit ==
    /\ Cached \subseteq files /\ files \subseteq Maps
    /\ tiles \in [Bytes -> Codes]
    /\ asked \in BOOLEAN /\ gotMap \in BOOLEAN /\ gotTurf \in BOOLEAN /\ loadedFlags \in BOOLEAN
    /\ goals \in Seq(Tiles)

(* The turf flags, and the teams they have once these have been received.  *)
FlagsFit(fs) == fs \in [DOMAIN fs -> TurfFlag] /\ DOMAIN fs \subseteq Nat

FlagsAreOwned == FlagsFit(turfFlags) /\ TurfTeams

(* Each tile of a brick is listed, or none of them is.                     *)
BricksAreWhole ==
    /\ bricks \in Seq(LaidTile)
    /\ \A k \in DOMAIN bricks :
          \E b \in dropped : \E j \in DOMAIN Trace(b) : bricks[k] = Tile(b, j)
    /\ \A b \in dropped : BrickExists(b.ident) =>
          \A j \in DOMAIN Trace(b) : \E k \in DOMAIN bricks : bricks[k] = Tile(b, j)
    /\ \A j, k \in DOMAIN bricks : bricks[j] = bricks[k] => j = k

BallsApart(q) == \A j, k \in DOMAIN q : q[j].ident = q[k].ident => j = k

BallsFit ==
    /\ balls \in Seq(Ball) /\ BallsApart(balls)
    /\ \A k \in DOMAIN balls : balls[k].lastrecv \in 0 .. now

(* The inductive invariant of Playfield.                                   *)
FieldInv == ArenaFits /\ FilesFit /\ FlagsAreOwned /\ BricksAreWhole /\ BallsFit
-----------------------------------------------------------------------------
(* Tiles in order.                                                         *)
LEMMA InOrderIs ==
    ASSUME NEW S
    PROVE  InOrder(S) \in Seq(Tiles) /\ Len(InOrder(S)) \in Nat
<1> DEFINE s == [k \in 1 .. TileMax |-> k - 1]
           K == {t + 1 : t \in S}
<1>1. s \in Seq(Tiles)
  <2>1. TileMax \in Nat
    BY FieldAssumption
  <2>2. \A k \in 1 .. TileMax : k - 1 \in Tiles
    BY <2>1 DEF Tiles
  <2> QED
    BY <2>1, <2>2
<1> HIDE DEF s, K
<1>2. Sublist(s, K) \in Seq(Tiles)
  BY <1>1, SublistProperties
<1>3. InOrder(S) = Sublist(s, K)
  BY DEF InOrder, s, K
<1> QED
  BY <1>2, <1>3

(* The tiles of a code, in order.                                          *)
LEMMA FoundIs ==
    ASSUME NEW ts, NEW code
    PROVE  Found(ts, code) \in Seq(Tiles) /\ Len(Found(ts, code)) \in Nat
<1> DEFINE S == {t \in Tiles : Element(ts, t) = code}
<1>1. Found(ts, code) = InOrder(S)
  BY DEF Found
<1> HIDE DEF S
<1> QED
  BY <1>1, InOrderIs

(* findFlag(): whether it was listed or not, f is a flag.                  *)
LEMMA FindFlagIs ==
    ASSUME NEW fs, FlagsFit(fs), NEW f \in Nat
    PROVE  LET g == FindTurfFlag(fs, f)
           IN  /\ FlagsFit(g) /\ DOMAIN g = DOMAIN fs \cup {f} /\ g[f] \in TurfFlag
               /\ \A k \in DOMAIN fs : g[k] = fs[k]
<1>1. NewFlag \in TurfFlag
  BY FieldAssumption DEF NewFlag, TurfFlag
<1>2. CASE f \in DOMAIN fs
  BY <1>2 DEF FindTurfFlag, FlagsFit
<1>3. CASE f \notin DOMAIN fs
  BY <1>1, <1>3 DEF FindTurfFlag, FlagsFit, Updated
<1> QED
  BY <1>2, <1>3

(* The flags of the map are added, and no team changes.                    *)
LEMMA LoadingKeepsTeams ==
    ASSUME NEW fs, FlagsFit(fs), NEW ts
    PROVE  LET g == LoadTurfFlags(fs, ts)
           IN  /\ FlagsFit(g) /\ DOMAIN fs \subseteq DOMAIN g
               /\ \A f \in DOMAIN fs : g[f].team = fs[f].team
<1> DEFINE found == Found(ts, "flag")
           g == LoadTurfFlags(fs, ts)
           D == DOMAIN fs \cup 0 .. Len(found) - 1
<1>1. found \in Seq(Tiles) /\ Len(found) \in Nat
  BY FoundIs
<1>2. g = [f \in D |-> IF f < Len(found)
                       THEN [FindTurfFlag(fs, f)[f] EXCEPT !.spot = found[f + 1]]
                       ELSE fs[f]]
  BY DEF LoadTurfFlags
<1> HIDE DEF found, g
<1>3. ASSUME NEW f \in D
      PROVE  g[f] \in TurfFlag /\ (f \in DOMAIN fs => g[f].team = fs[f].team)
  <2>1. f \in Nat
    BY <1>1 DEF FlagsFit
  <2>2. /\ FindTurfFlag(fs, f)[f] \in TurfFlag
        /\ f \in DOMAIN fs => FindTurfFlag(fs, f)[f] = fs[f]
    <3>1. FindTurfFlag(fs, f)[f] \in TurfFlag
      BY <2>1, FindFlagIs
    <3>2. f \in DOMAIN fs => FindTurfFlag(fs, f)[f] = fs[f]
      BY DEF FindTurfFlag
    <3> QED
      BY <3>1, <3>2
  <2>3. CASE f < Len(found)
    <3> DEFINE x == FindTurfFlag(fs, f)[f]
               y == [x EXCEPT !.spot = found[f + 1]]
    <3>1. g[f] = y
      BY <1>2, <2>3
    <3>2. x \in [spot : 0 .. TileMax, team : FieldTeams \cup {UnassignedTeam}]
      BY <2>2 DEF TurfFlag
    <3>3. found[f + 1] \in 0 .. TileMax
      BY <1>1, <2>1, <2>3, FieldAssumption DEF Tiles
    <3> HIDE DEF x
    <3>4. y \in [spot : 0 .. TileMax, team : FieldTeams \cup {UnassignedTeam}] /\ y.team = x.team
      BY <3>2, <3>3
    <3> QED
      BY <2>2, <3>1, <3>4 DEF TurfFlag, x
  <2>4. CASE ~(f < Len(found))
    <3>1. f \in DOMAIN fs
      BY <1>1, <2>1, <2>4
    <3> QED
      BY <1>2, <2>4, <3>1 DEF FlagsFit
  <2> QED
    BY <2>3, <2>4
<1>4. DOMAIN g = D /\ D \subseteq Nat
  BY <1>1, <1>2 DEF FlagsFit
<1>5. g = [f \in DOMAIN g |-> g[f]]
  BY <1>2
<1>6. FlagsFit(g)
  BY <1>3, <1>4, <1>5 DEF FlagsFit
<1> QED
  BY <1>3, <1>4, <1>6 DEF g

(* Flags whose teams are the server's.                                     *)
Owned(fs) == \A f \in DOMAIN owner : f \in DOMAIN fs /\ fs[f].team = owner[f]

(* The status gives every flag the server's team.                          *)
LEMMA WithTeamsIs ==
    ASSUME NEW fs, FlagsFit(fs), ArenaFits
    PROVE  FlagsFit(WithTeams(fs)) /\ Owned(WithTeams(fs))
<1> DEFINE g == WithTeams(fs)
           D == DOMAIN fs \cup DOMAIN owner
<1>1. g = [f \in D |-> IF f \in DOMAIN owner
                       THEN [FindTurfFlag(fs, f)[f] EXCEPT !.team = owner[f]] ELSE fs[f]]
  BY DEF WithTeams
<1> HIDE DEF g
<1>2. DOMAIN owner \subseteq Nat /\ \A f \in DOMAIN owner : owner[f] \in FieldTeams
  <2>1. Len(FlagTiles(map)) \in Nat
    BY InOrderIs DEF FlagTiles
  <2> QED
    BY <2>1 DEF ArenaFits, TurfFlagIds
<1>3. ASSUME NEW f \in DOMAIN owner
      PROVE  g[f] \in TurfFlag /\ g[f].team = owner[f]
  <2> DEFINE x == FindTurfFlag(fs, f)[f]
             y == [x EXCEPT !.team = owner[f]]
  <2>1. x \in [spot : 0 .. TileMax, team : FieldTeams \cup {UnassignedTeam}]
    BY <1>2, FindFlagIs DEF TurfFlag
  <2>2. g[f] = y
    BY <1>1
  <2> HIDE DEF x
  <2>3. y \in [spot : 0 .. TileMax, team : FieldTeams \cup {UnassignedTeam}] /\ y.team = owner[f]
    BY <1>2, <2>1
  <2> QED
    BY <2>2, <2>3 DEF TurfFlag
<1>4. ASSUME NEW f \in DOMAIN fs \ DOMAIN owner PROVE g[f] \in TurfFlag
  BY <1>1 DEF FlagsFit
<1>5. DOMAIN g = D /\ D \subseteq Nat /\ g = [f \in DOMAIN g |-> g[f]]
  BY <1>1, <1>2 DEF FlagsFit
<1>6. FlagsFit(g)
  BY <1>3, <1>4, <1>5 DEF FlagsFit
<1>7. Owned(g)
  BY <1>3, <1>5 DEF Owned
<1> QED
  BY <1>6, <1>7 DEF g
-----------------------------------------------------------------------------
(* It does so whether the map is read at the same time or not.             *)
LEMMA StatusKeepsFlags ==
    ASSUME FieldInv, HandleTurfFlagStatus
    PROVE  FlagsAreOwned'
<1> DEFINE g == WithTeams(turfFlags)
           h == LoadTurfFlags(g, tiles)
<1>1. turfFlags' \in {g, h} /\ owner' = owner
  BY DEF HandleTurfFlagStatus
<1>2. FlagsFit(g) /\ Owned(g)
  BY WithTeamsIs DEF FieldInv, FlagsAreOwned
<1> HIDE DEF g
<1>3. FlagsFit(h) /\ Owned(h)
  <2>1. /\ FlagsFit(h) /\ DOMAIN g \subseteq DOMAIN h
        /\ \A f \in DOMAIN g : h[f].team = g[f].team
    BY <1>2, LoadingKeepsTeams
  <2> HIDE DEF h
  <2> QED
    BY <1>2, <2>1 DEF Owned
<1> HIDE DEF h
<1> QED
  BY <1>1, <1>2, <1>3 DEF FlagsAreOwned, TurfTeams, Owned, FlagsFit

(* A claim gives its flag the server's team, listed before or not.         *)
LEMMA ClaimKeepsFlags ==
    ASSUME FieldInv, NEW f \in DOMAIN owner, NEW team \in FieldTeams,
           ClaimTurfFlag(f, team)
    PROVE  FlagsAreOwned'
<1> DEFINE fs == FindTurfFlag(turfFlags, f)
           g == [fs EXCEPT ![f].team = team]
<1>1. f \in Nat
  <2>1. Len(FlagTiles(map)) \in Nat
    BY InOrderIs DEF FlagTiles
  <2> QED
    BY <2>1 DEF FieldInv, ArenaFits, TurfFlagIds
<1>2. /\ FlagsFit(fs) /\ DOMAIN fs = DOMAIN turfFlags \cup {f} /\ fs[f] \in TurfFlag
      /\ \A k \in DOMAIN turfFlags : fs[k] = turfFlags[k]
  BY <1>1, FindFlagIs DEF FieldInv, FlagsAreOwned
<1>3. /\ turfFlags' = g /\ gotTurf' = gotTurf /\ DOMAIN owner' = DOMAIN owner
      /\ owner'[f] = team /\ \A k \in DOMAIN owner \ {f} : owner'[k] = owner[k]
  BY DEF ClaimTurfFlag, FieldInv, ArenaFits
<1> HIDE DEF fs
<1>4. /\ DOMAIN g = DOMAIN fs /\ \A k \in DOMAIN fs \ {f} : g[k] = fs[k]
      /\ g[f] = [fs[f] EXCEPT !.team = team] /\ g = [k \in DOMAIN g |-> g[k]]
  BY <1>2 DEF FlagsFit
<1> HIDE DEF g
<1>5. g[f] \in TurfFlag /\ g[f].team = team
  BY <1>2, <1>4 DEF TurfFlag
<1>6. FlagsFit(g)
  BY <1>2, <1>4, <1>5 DEF FlagsFit
<1>7. ASSUME gotTurf, NEW k \in DOMAIN owner
      PROVE  k \in DOMAIN g /\ g[k].team = owner'[k]
  <2>1. k \in DOMAIN turfFlags /\ turfFlags[k].team = owner[k]
    BY <1>7 DEF FieldInv, FlagsAreOwned, TurfTeams
  <2> QED
    BY <1>2, <1>3, <1>4, <1>5, <2>1
<1> QED
  BY <1>3, <1>6, <1>7 DEF FlagsAreOwned, TurfTeams, FlagsFit

(* The map is read, before the flags are received or after.                *)
LEMMA MapInfoKeepsFlags ==
    ASSUME FieldInv, HandleMapInfo
    PROVE  FlagsAreOwned'
<1> DEFINE g == LoadTurfFlags(turfFlags, tiles')
<1>1. turfFlags' \in {g, turfFlags} /\ owner' = owner /\ gotTurf' = gotTurf
  BY DEF HandleMapInfo, LoadMap
<1>2. FlagsFit(turfFlags) /\ TurfTeams
  BY DEF FieldInv, FlagsAreOwned
<1>3. /\ FlagsFit(g) /\ DOMAIN turfFlags \subseteq DOMAIN g
      /\ \A f \in DOMAIN turfFlags : g[f].team = turfFlags[f].team
  BY <1>2, LoadingKeepsTeams
<1> HIDE DEF g
<1>4. CASE turfFlags' = g
  BY <1>1, <1>2, <1>3, <1>4 DEF FlagsAreOwned, TurfTeams, FlagsFit
<1>5. CASE turfFlags' = turfFlags
  BY <1>1, <1>2, <1>5 DEF FlagsAreOwned, TurfTeams, FlagsFit
<1> QED
  BY <1>1, <1>4, <1>5
-----------------------------------------------------------------------------
(* Bricks.  A brick is traced over tiles, over none of them twice.         *)
LEMMA TraceIs ==
    ASSUME NEW b \in Brick
    PROVE  /\ Trace(b) \in Seq(Tiles) /\ Len(Trace(b)) \in Nat
           /\ DOMAIN Trace(b) = 1 .. Len(Trace(b))
           /\ \A j, k \in DOMAIN Trace(b) :
                 Trace(b)[j] = Trace(b)[k] => j = k
<1>1. /\ TileMax \in Nat /\ b.from \in 0 .. TileMax - 1 /\ b.to \in 0 .. TileMax - 1
  BY FieldAssumption DEF Brick, Tiles
<1>2. CASE b.from < b.to
  <2> DEFINE n == b.to - b.from
             s == [k \in 1 .. n |-> b.from + k]
  <2>1. Trace(b) = s
    BY <1>2 DEF Trace
  <2>2. n \in Nat /\ \A k \in 1 .. n : b.from + k \in 0 .. TileMax - 1
    BY <1>1, <1>2
  <2>3. \A j, k \in 1 .. n : b.from + j = b.from + k => j = k
    BY <1>1, <2>2
  <2> HIDE DEF n
  <2>4. s \in Seq(0 .. TileMax - 1) /\ Len(s) = n /\ DOMAIN s = 1 .. n
    BY <2>2
  <2> QED
    BY <2>1, <2>2, <2>3, <2>4 DEF Tiles
<1>3. CASE ~(b.from < b.to)
  <2> DEFINE n == b.from - b.to
             s == [k \in 1 .. n |-> b.from - k]
  <2>1. Trace(b) = s
    BY <1>3 DEF Trace
  <2>2. n \in Nat /\ \A k \in 1 .. n : b.from - k \in 0 .. TileMax - 1
    BY <1>1, <1>3
  <2>3. \A j, k \in 1 .. n : b.from - j = b.from - k => j = k
    BY <1>1, <2>2
  <2> HIDE DEF n
  <2>4. s \in Seq(0 .. TileMax - 1) /\ Len(s) = n /\ DOMAIN s = 1 .. n
    BY <2>2
  <2> QED
    BY <2>1, <2>2, <2>3, <2>4 DEF Tiles
<1> QED
  BY <1>2, <1>3

(* The tiles of a brick are tiles, and no two of them are the same.        *)
LEMMA TileIs ==
    ASSUME NEW b \in Brick
    PROVE  /\ \A j \in DOMAIN Trace(b) :
                 /\ Tile(b, j) \in LaidTile /\ Tile(b, j).ident = b.ident
                 /\ Tile(b, j).time = b.time + BrickTime
                 /\ Tile(b, j).spot = Trace(b)[j]
           /\ \A j, k \in DOMAIN Trace(b) : Tile(b, j) = Tile(b, k) => j = k
<1>1. /\ b.ident \in BrickIds /\ b.time + BrickTime \in Nat
  BY FieldAssumption DEF Brick
<1>2. \A j \in DOMAIN Trace(b) : Trace(b)[j] \in Tiles
  BY TraceIs
<1>3. ASSUME NEW j \in DOMAIN Trace(b)
      PROVE  /\ Tile(b, j) \in LaidTile /\ Tile(b, j).ident = b.ident
             /\ Tile(b, j).time = b.time + BrickTime
             /\ Tile(b, j).spot = Trace(b)[j]
  BY <1>1, <1>2 DEF Tile, LaidTile
<1>4. ASSUME NEW j \in DOMAIN Trace(b), NEW k \in DOMAIN Trace(b),
             Tile(b, j) = Tile(b, k)
      PROVE  j = k
  <2>1. Trace(b)[j] = Trace(b)[k]
    BY <1>3, <1>4
  <2> QED
    BY <2>1, TraceIs
<1> QED
  BY <1>3, <1>4

(* handleBrickDrop(): all tiles of a brick are listed, or nothing changes. *)
LEMMA BrickDropKeepsBricks ==
    ASSUME FieldInv, NEW b \in dropped, HandleBrickDrop(b)
    PROVE  BricksAreWhole'
<1>1. dropped' = dropped
  BY DEF HandleBrickDrop
<1>2. CASE BrickExists(b.ident)
  <2>1. bricks' = bricks
    BY <1>2 DEF HandleBrickDrop
  <2> QED
    BY <1>1, <2>1 DEF FieldInv, BricksAreWhole, BrickExists
<1>3. CASE ~BrickExists(b.ident)
  <2> DEFINE T == [k \in DOMAIN Trace(b) |-> Tile(b, k)]
             n == Len(Trace(b))
             q == bricks \o T
  <2>1. bricks' = q
    BY <1>3 DEF HandleBrickDrop, AddBricks, Tile
  <2>2. b \in Brick /\ n \in Nat /\ DOMAIN Trace(b) = 1 .. n
    BY TraceIs DEF FieldInv, ArenaFits
  <2>3. /\ \A k \in 1 .. n : T[k] = Tile(b, k) /\ T[k] \in LaidTile
        /\ \A k \in 1 .. n : T[k].ident = b.ident
        /\ \A j, k \in 1 .. n : T[j] = T[k] => j = k
    BY <2>2, TileIs
  <2>4. T \in Seq(LaidTile) /\ Len(T) = n
    BY <2>2, <2>3
  <2>5. bricks \in Seq(LaidTile) /\ Len(bricks) \in Nat /\ DOMAIN bricks = 1 .. Len(bricks)
    BY DEF FieldInv, BricksAreWhole
  <2> DEFINE m == Len(bricks)
  <2> HIDE DEF T, n
  <2>6. /\ q \in Seq(LaidTile) /\ Len(q) = m + n /\ DOMAIN q = 1 .. m + n
        /\ \A k \in 1 .. m : q[k] = bricks[k]
        /\ \A k \in 1 .. n : q[m + k] = T[k] /\ m + k \in 1 .. m + n
        /\ \A k \in 1 .. m + n : k \in 1 .. m \/ (k - m \in 1 .. n /\ q[k] = T[k - m])
    BY <2>2, <2>4, <2>5
  <2> HIDE DEF q
  <2>7. \A k \in 1 .. m : bricks[k].ident # b.ident
    BY <1>3, <2>5 DEF BrickExists
  <2>8. ASSUME NEW k \in DOMAIN q
        PROVE  \E c \in dropped : \E j \in DOMAIN Trace(c) : q[k] = Tile(c, j)
    <3>1. CASE k \in 1 .. m
      BY <2>5, <2>6, <3>1 DEF FieldInv, BricksAreWhole
    <3>2. CASE k - m \in 1 .. n /\ q[k] = T[k - m]
      BY <2>2, <2>3, <3>2
    <3> QED
      BY <2>6, <3>1, <3>2
  <2>9. ASSUME NEW c \in dropped, \E k \in DOMAIN q : q[k].ident = c.ident,
               NEW j \in DOMAIN Trace(c)
        PROVE  \E k \in DOMAIN q : q[k] = Tile(c, j)
    <3>1. PICK k \in DOMAIN q : q[k].ident = c.ident
      BY <2>9
    <3>2. CASE k \in 1 .. m
      <4>1. BrickExists(c.ident)
        BY <2>5, <2>6, <3>1, <3>2 DEF BrickExists
      <4>2. PICK i \in 1 .. m : bricks[i] = Tile(c, j)
        BY <2>5, <4>1 DEF FieldInv, BricksAreWhole
      <4>3. i \in DOMAIN q /\ q[i] = Tile(c, j)
        BY <2>2, <2>5, <2>6, <4>2
      <4> QED
        BY <4>3
    <3>3. CASE k - m \in 1 .. n /\ q[k] = T[k - m]
      <4>1. c = b
        BY <2>3, <3>1, <3>3 DEF FieldInv, ArenaFits
      <4>2. j \in 1 .. n
        BY <2>2, <4>1
      <4>3. m + j \in DOMAIN q /\ q[m + j] = Tile(c, j)
        BY <2>3, <2>6, <4>1, <4>2
      <4> QED
        BY <4>3
    <3> QED
      BY <2>6, <3>2, <3>3
  <2>10. ASSUME NEW j \in DOMAIN q, NEW k \in DOMAIN q, q[j] = q[k] PROVE j = k
    <3>1. CASE j \in 1 .. m /\ k \in 1 .. m
      BY <2>5, <2>6, <2>10, <3>1 DEF FieldInv, BricksAreWhole
    <3>2. CASE j \notin 1 .. m /\ k \notin 1 .. m
      <4>1. T[j - m] = T[k - m] /\ j - m \in 1 .. n /\ k - m \in 1 .. n
        BY <2>6, <2>10, <3>2
      <4>2. j - m = k - m
        BY <2>3, <4>1
      <4> QED
        BY <2>2, <2>5, <2>6, <4>2
    <3>3. ASSUME NEW x \in 1 .. m, NEW y \in DOMAIN q, y \notin 1 .. m, q[x] = q[y]
          PROVE  FALSE
      <4>1. q[y] = T[y - m] /\ y - m \in 1 .. n /\ q[x] = bricks[x]
        BY <2>6, <3>3
      <4>2. bricks[x].ident = b.ident
        BY <2>3, <3>3, <4>1
      <4> QED
        BY <2>7, <4>2
    <3> QED
      BY <2>10, <3>1, <3>2, <3>3
  <2>11. BricksAreWhole'
    BY <1>1, <2>1, <2>6, <2>8, <2>9, <2>10 DEF BricksAreWhole, BrickExists
  <2> QED
    BY <2>11
<1> QED
  BY <1>2, <1>3

(* doBrickEvents(): the tiles of a brick have the same time, and go        *)
(* together.                                                               *)
LEMMA BrickEventsKeepBricks ==
    ASSUME FieldInv, DoBrickEvents, dropped' = dropped
    PROVE  BricksAreWhole'
<1> DEFINE K == {k \in DOMAIN bricks : ~Over(bricks[k])}
           q == Sublist(bricks, K)
<1>1. bricks' = q
  BY DEF DoBrickEvents
<1>2. bricks \in Seq(LaidTile)
  BY DEF FieldInv, BricksAreWhole
<1>3. q \in Seq(LaidTile) /\ \E at : Picks(at, q, bricks, K, Len(bricks))
  <2> HIDE DEF K
  <2> QED
    BY <1>2, SublistProperties
<1>4. PICK at : Picks(at, q, bricks, K, Len(bricks))
  BY <1>3
<1>5. /\ DOMAIN bricks = 1 .. Len(bricks) /\ Len(bricks) \in Nat
      /\ Len(q) \in Nat /\ DOMAIN q = 1 .. Len(q)
  BY <1>2, <1>3
<1>6. /\ \A i \in DOMAIN q : at[i] \in K /\ at[i] \in DOMAIN bricks /\ q[i] = bricks[at[i]]
      /\ \A k \in K : \E i \in DOMAIN q : at[i] = k
  BY <1>4, <1>5 DEF Picks
<1>7. \A i, j \in DOMAIN q : at[i] = at[j] => i = j
  <2>1. \A i, j \in 1 .. Len(q) : i < j => at[i] < at[j]
    BY <1>4 DEF Picks
  <2>2. ASSUME NEW i \in 1 .. Len(q) PROVE at[i] \in Nat
    <3>1. at[i] \in 1 .. Len(bricks)
      BY <1>4 DEF Picks
    <3> QED
      BY <1>5, <3>1
  <2> QED
    BY <1>5, <2>1, <2>2
<1> HIDE DEF q
<1>8. ASSUME NEW i \in DOMAIN q
      PROVE  \E b \in dropped : \E j \in DOMAIN Trace(b) : q[i] = Tile(b, j)
  BY <1>6 DEF FieldInv, BricksAreWhole
<1>9. ASSUME NEW b \in dropped, \E i \in DOMAIN q : q[i].ident = b.ident,
             NEW j \in DOMAIN Trace(b)
      PROVE  \E i \in DOMAIN q : q[i] = Tile(b, j)
  <2>1. PICK i \in DOMAIN q : q[i].ident = b.ident
    BY <1>9
  <2>2. PICK c \in dropped : \E l \in DOMAIN Trace(c) : q[i] = Tile(c, l)
    BY <1>8
  <2>3. c \in Brick /\ b \in Brick
    BY DEF FieldInv, ArenaFits
  <2>4. q[i].ident = c.ident /\ q[i].time = c.time + BrickTime
    BY <2>2, <2>3, TileIs
  <2>5. c = b
    BY <2>1, <2>4 DEF FieldInv, ArenaFits
  <2>6. BrickExists(b.ident)
    BY <1>6, <2>1 DEF BrickExists
  <2>7. PICK k \in DOMAIN bricks : bricks[k] = Tile(b, j)
    BY <2>6 DEF FieldInv, BricksAreWhole
  <2>8. bricks[k].time = q[i].time
    BY <2>3, <2>4, <2>5, <2>7, TileIs
  <2>9. ~Over(bricks[at[i]]) /\ q[i] = bricks[at[i]]
    BY <1>6
  <2>10. k \in K
    BY <2>8, <2>9 DEF Over
  <2>11. PICK e \in DOMAIN q : at[e] = k
    BY <1>6, <2>10
  <2>12. q[e] = Tile(b, j)
    BY <1>6, <2>7, <2>11
  <2> QED
    BY <2>12
<1>10. ASSUME NEW i \in DOMAIN q, NEW j \in DOMAIN q, q[i] = q[j] PROVE i = j
  <2>1. at[i] = at[j]
    BY <1>6, <1>10 DEF FieldInv, BricksAreWhole
  <2> QED
    BY <1>7, <2>1
<1>11. BricksAreWhole'
  BY <1>1, <1>3, <1>8, <1>9, <1>10 DEF BricksAreWhole, BrickExists
<1> QED
  BY <1>11

(* A new brick has an ident of its own, so none of its tiles is listed.    *)
LEMMA NewBrickKeepsBricks ==
    ASSUME FieldInv, NEW b \in Brick, DropBrick(b)
    PROVE  ArenaFits' /\ BricksAreWhole'
<1>1. /\ dropped' = dropped \cup {b} /\ \A old \in dropped : old.ident # b.ident
      /\ map' = map /\ owner' = owner /\ now' = now /\ bricks' = bricks
  BY DEF DropBrick, host
<1>2. ArenaFits'
  BY <1>1 DEF FieldInv, ArenaFits, TurfFlagIds, FlagTiles
<1>3. ~BrickExists(b.ident)
  <2> SUFFICES ASSUME NEW k \in DOMAIN bricks, bricks[k].ident = b.ident PROVE FALSE
    BY DEF BrickExists
  <2>1. PICK c \in dropped : \E j \in DOMAIN Trace(c) : bricks[k] = Tile(c, j)
    BY DEF FieldInv, BricksAreWhole
  <2>2. c.ident = b.ident
    BY <2>1, TileIs DEF FieldInv, ArenaFits
  <2> QED
    BY <1>1, <2>2
<1>4. BricksAreWhole'
  BY <1>1, <1>3 DEF FieldInv, BricksAreWhole, BrickExists
<1> QED
  BY <1>2, <1>4
-----------------------------------------------------------------------------
(* Powerballs.                                                             *)

(* Each ball of the list, or none, is erased in a pass, and never one that *)
(* is not silent; if there is a silent one, some are.                      *)
LEMMA ErasedIs ==
    ASSUME NEW q \in Seq(Ball)
    PROVE  /\ \A k \in Erased(q) : k \in 1 .. Len(q) /\ Silent(q[k])
           /\ \A k \in 1 .. Len(q) : Silent(q[k]) => Erased(q) # {}
<1> DEFINE n == Len(q)
           Def(f) == [k \in 0 .. n |-> k > 0 /\ Silent(q[k]) /\ ~f[k - 1]]
           up == CHOOSE f : f = Def(f)
           step == [k \in 1 .. n |-> [e \in BOOLEAN |-> Silent(q[k]) /\ ~e]]
<1>1. n \in Nat
  OBVIOUS
<1>2. Erased(q) = {k \in 1 .. n : up[k]}
  BY Zenon DEF Erased
<1> HIDE DEF n
<1>3. step \in [1 .. n -> [BOOLEAN -> BOOLEAN]] /\ FALSE \in BOOLEAN
  BY DEF Silent
<1>4. PICK f \in [0 .. n -> BOOLEAN] : Iterates(f, n, FALSE, step)
  <2> HIDE DEF step
  <2> QED
    BY <1>1, <1>3, Iteration
<1>5. f = Def(f)
  <2>1. ASSUME NEW k \in 1 .. n PROVE f[k] = (k > 0 /\ Silent(q[k]) /\ ~f[k - 1])
    <3>1. f[k - 1] \in BOOLEAN /\ k > 0
      BY <1>1
    <3>2. f[k] = step[k][f[k - 1]]
      BY <1>4 DEF Iterates
    <3>3. f[k] = (Silent(q[k]) /\ ~f[k - 1])
      BY <3>1, <3>2
    <3> QED
      BY <3>1, <3>3, Zenon
  <2>2. f[0] = FALSE
    BY <1>4 DEF Iterates
  <2>3. ASSUME NEW k \in 0 .. n PROVE f[k] = Def(f)[k]
    <3>1. CASE k = 0
      BY <2>2, <3>1
    <3>2. CASE k # 0
      <4>1. k \in 1 .. n
        BY <1>1, <3>2
      <4> QED
        BY <2>1, <4>1
    <3> QED
      BY <3>1, <3>2
  <2> QED
    BY <2>3
<1>6. up = Def(up)
  <2> HIDE DEF Def
  <2> QED
    BY <1>5, Zenon
<1> HIDE DEF up
<1>7. \A k \in 0 .. n : up[k] = (k > 0 /\ Silent(q[k]) /\ ~up[k - 1])
  <2> DEFINE g == Def(up)
  <2>1. \A k \in 0 .. n : g[k] = (k > 0 /\ Silent(q[k]) /\ ~up[k - 1])
    OBVIOUS
  <2> HIDE DEF g
  <2>2. up = g
    BY <1>6 DEF g
  <2> QED
    BY <2>1, <2>2
<1>8. ASSUME NEW k \in 1 .. n, Silent(q[k]) PROVE Erased(q) # {}
  <2>1. k \in 0 .. n /\ k > 0 /\ k - 1 \in 0 .. n
    BY <1>1
  <2>2. CASE up[k]
    BY <1>2, <2>2
  <2>3. CASE ~up[k]
    <3>1. up[k - 1]
      BY <1>7, <1>8, <2>1, <2>3
    <3>2. k - 1 > 0
      BY <1>7, <2>1, <3>1
    <3>3. k - 1 \in 1 .. n
      BY <1>1, <2>1, <3>2
    <3> QED
      BY <1>2, <3>1, <3>3
  <2> QED
    BY <2>2, <2>3
<1>9. ASSUME NEW k \in Erased(q) PROVE k \in 1 .. n /\ Silent(q[k])
  <2>1. k \in 1 .. n /\ up[k] /\ k \in 0 .. n
    BY <1>1, <1>2, <1>9
  <2> QED
    BY <1>7, <2>1
<1> QED
  BY <1>8, <1>9 DEF n

(* Lists of balls as doBallEvents() may leave them.                        *)
Lists(q) == BallsApart(q) /\ \A k \in DOMAIN q : q[k].lastrecv \in 0 .. now

(* Of the balls of q, those that are not silent are left in r.             *)
Keeps(q, r) ==
    \A k \in DOMAIN q : ~Silent(q[k]) => \E i \in DOMAIN r : r[i] = q[k]

(* One pass over a list.                                                   *)
LEMMA PassIs ==
    ASSUME NEW q \in Seq(Ball), Lists(q)
    PROVE  LET r == Sublist(q, 1 .. Len(q) \ Erased(q))
           IN  /\ r \in Seq(Ball) /\ Lists(r) /\ Keeps(q, r)
               /\ Len(r) \in Nat /\ Len(r) <= Len(q)
               /\ (\E k \in DOMAIN q : Silent(q[k])) => Len(r) < Len(q)
<1> DEFINE K == 1 .. Len(q) \ Erased(q)
           r == Sublist(q, K)
           n == Len(q)
           m == Len(r)
<1>1. n \in Nat /\ DOMAIN q = 1 .. n
  OBVIOUS
<1>2. r \in Seq(Ball) /\ \E at : Picks(at, r, q, K, n)
  <2> HIDE DEF K
  <2> QED
    BY SublistProperties
<1>3. PICK at : Picks(at, r, q, K, n)
  BY <1>2
<1>4. m \in Nat /\ DOMAIN r = 1 .. m
  <2> HIDE DEF r
  <2> QED
    BY <1>2
<1> HIDE DEF r, m, n
<1>5. /\ at \in [1 .. m -> K] /\ \A i \in 1 .. m : at[i] \in 1 .. n /\ r[i] = q[at[i]]
      /\ \A i, j \in 1 .. m : i < j => at[i] < at[j]
      /\ \A k \in K : \E i \in 1 .. m : at[i] = k
  <2>1. K \cap (1 .. n) = K
    BY DEF n
  <2> HIDE DEF K
  <2> QED
    BY <1>3, <2>1 DEF Picks, m
<1>6. \A i, j \in 1 .. m : at[i] = at[j] => i = j
  <2>1. \A i \in 1 .. m : at[i] \in Nat
    BY <1>1, <1>5
  <2> QED
    BY <1>4, <1>5, <2>1
<1>7. Lists(r)
  <2>1. \A j, k \in DOMAIN r : r[j].ident = r[k].ident => j = k
    BY <1>1, <1>4, <1>5, <1>6 DEF Lists, BallsApart
  <2>2. \A k \in DOMAIN r : r[k].lastrecv \in 0 .. now
    BY <1>1, <1>4, <1>5 DEF Lists
  <2> QED
    BY <2>1, <2>2 DEF Lists, BallsApart
<1>8. Keeps(q, r)
  <2> SUFFICES ASSUME NEW k \in DOMAIN q, ~Silent(q[k])
               PROVE  \E i \in DOMAIN r : r[i] = q[k]
    BY DEF Keeps
  <2>1. k \in K
    BY <1>1, ErasedIs DEF n
  <2> HIDE DEF K
  <2> QED
    BY <1>4, <1>5, <2>1
<1>9. K \subseteq 1 .. n /\ IsFiniteSet(1 .. n) /\ Cardinality(1 .. n) = n
  BY <1>1, FS_Interval DEF n
<1>10. IsFiniteSet(K) /\ Cardinality(K) \in Nat /\ Cardinality(K) <= n
  <2> HIDE DEF K
  <2>1. IsFiniteSet(K) /\ Cardinality(K) <= Cardinality(1 .. n)
    BY <1>9, FS_Subset
  <2> QED
    BY <1>9, <2>1, FS_CardinalityType
<1>11. m <= Cardinality(K)
  <2> HIDE DEF K
  <2> SUFFICES ASSUME Cardinality(K) < m PROVE FALSE
    BY <1>4, <1>10
  <2>1. IsFiniteSet(1 .. m) /\ Cardinality(1 .. m) = m
    BY <1>4, FS_Interval
  <2> DEFINE M == 1 .. m
  <2>2. at \in [M -> K] /\ IsFiniteSet(M) /\ Cardinality(K) < Cardinality(M)
    BY <1>5, <2>1
  <2> HIDE DEF M
  <2>3. \E x, y \in M : x # y /\ at[x] = at[y]
    BY <1>10, <2>2, FS_PigeonHole
  <2> QED
    BY <1>6, <2>3 DEF M
<1>12. ASSUME NEW k \in DOMAIN q, Silent(q[k]) PROVE m < n
  <2>1. Erased(q) # {} /\ Erased(q) \subseteq 1 .. n
    BY <1>1, <1>12, ErasedIs DEF n
  <2>2. K # 1 .. n
    BY <2>1 DEF n
  <2> HIDE DEF K
  <2>3. Cardinality(K) # Cardinality(1 .. n)
    BY <1>9, <2>2, FS_Subset
  <2> QED
    BY <1>4, <1>1, <1>9, <1>10, <1>11, <2>3
<1>13. m <= n
  BY <1>1, <1>4, <1>10, <1>11
<1> HIDE DEF K
<1>14. /\ r \in Seq(Ball) /\ Lists(r) /\ Keeps(q, r)
       /\ Len(r) \in Nat /\ Len(r) <= Len(q)
       /\ (\E k \in DOMAIN q : Silent(q[k])) => Len(r) < Len(q)
  BY <1>2, <1>4, <1>7, <1>8, <1>12, <1>13 DEF m, n
<1> QED
  BY <1>14 DEF r, K

(* doBallEvents(): the balls that are left are as they were, every ball    *)
(* that is not silent is left, and if there is a silent one, one goes.     *)
LEMMA BallsLeft ==
    ASSUME balls \in Seq(Ball), Lists(balls), DoBallEvents
    PROVE  /\ balls' \in Seq(Ball) /\ Lists(balls') /\ Keeps(balls, balls')
           /\ (\E k \in DOMAIN balls : Silent(balls[k])) => Len(balls') < Len(balls)
<1> DEFINE n == Len(balls)
           Gone(r) == (\E k \in DOMAIN balls : Silent(balls[k])) => Len(r) < n
           Good(r) == Lists(r) /\ Keeps(balls, r) /\ Len(r) <= n
           Start == [left |-> balls, again |-> TRUE]
           All == {s \in [left : {r \in Seq(Ball) : Good(r)}, again : BOOLEAN] :
                       s = Start \/ Gone(s.left)}
           Def(f) == [k \in 0 .. n + 1 |-> IF k = 0 THEN Start ELSE Pass(f[k - 1])]
           up == CHOOSE f : f = Def(f)
           step == [k \in 1 .. n + 1 |-> [s \in All |-> Pass(s)]]
<1>1. n \in Nat /\ n + 1 \in Nat /\ n + 1 \in 1 .. n + 1
  OBVIOUS
<1>2. balls' = up[n + 1].left
  BY Zenon DEF DoBallEvents
<1>3. Start \in All
  <2>1. Good(balls)
    BY DEF Keeps
  <2> QED
    BY <2>1
<1>4. ASSUME NEW s \in All PROVE Pass(s) \in All /\ Gone(Pass(s).left)
  <2> DEFINE q == s.left
             r == Sublist(q, 1 .. Len(q) \ Erased(q))
  <2>1. q \in Seq(Ball) /\ Good(q) /\ s.again \in BOOLEAN /\ (s = Start \/ Gone(q))
    OBVIOUS
  <2>2. /\ r \in Seq(Ball) /\ Lists(r) /\ Keeps(q, r)
        /\ Len(r) \in Nat /\ Len(r) <= Len(q)
        /\ (\E k \in DOMAIN q : Silent(q[k])) => Len(r) < Len(q)
    BY <2>1, PassIs
  <2>3. CASE s.again
    <3> DEFINE t == [left |-> r, again |-> Len(q) \in Erased(q)]
    <3>1. Pass(s) = t
      BY <2>3 DEF Pass
    <3> HIDE DEF r
    <3>2. Keeps(balls, r)
      BY <2>1, <2>2 DEF Keeps
    <3>3. Len(q) \in Nat
      BY <2>1
    <3>4. Good(r)
      BY <1>1, <2>1, <2>2, <3>2, <3>3
    <3>5. Gone(r)
      <4>1. CASE s = Start
        BY <2>2, <4>1
      <4>2. CASE Gone(q)
        BY <1>1, <2>2, <3>3, <4>2
      <4> QED
        BY <2>1, <4>1, <4>2
    <3>6. (Len(q) \in Erased(q)) \in BOOLEAN
      OBVIOUS
    <3> HIDE DEF Good, Gone, q
    <3>7. t \in All /\ t.left = r
      BY <2>2, <3>4, <3>5, <3>6
    <3> QED
      BY <3>1, <3>5, <3>7
  <2>4. CASE ~s.again
    <3>1. Pass(s) = s /\ s # Start
      BY <2>4 DEF Pass
    <3> QED
      BY <2>1, <3>1
  <2> QED
    BY <2>1, <2>3, <2>4
<1> HIDE DEF n, All, Start, Gone
<1>5. step \in [1 .. n + 1 -> [All -> All]]
  BY <1>4
<1>6. PICK f \in [0 .. n + 1 -> All] : Iterates(f, n + 1, Start, step)
  <2> HIDE DEF step
  <2> QED
    BY <1>1, <1>3, <1>5, Iteration
<1>7. f = Def(f)
  <2>1. ASSUME NEW k \in 1 .. n + 1 PROVE f[k] = Pass(f[k - 1])
    <3>1. f[k - 1] \in All
      BY <1>1
    <3> QED
      BY <1>6, <3>1 DEF Iterates
  <2>2. \A k \in 0 .. n + 1 : f[k] = IF k = 0 THEN Start ELSE Pass(f[k - 1])
    BY <1>1, <1>6, <2>1 DEF Iterates
  <2> QED
    BY <2>2
<1>8. up = Def(up)
  <2> HIDE DEF Def
  <2> QED
    BY <1>7, Zenon
<1> HIDE DEF up
<1>9. up[0] = Start /\ \A k \in 1 .. n + 1 : up[k] = Pass(up[k - 1])
  <2> DEFINE g == Def(up)
  <2>1. \A k \in 0 .. n + 1 : g[k] = IF k = 0 THEN Start ELSE Pass(up[k - 1])
    OBVIOUS
  <2>2. 0 \in 0 .. n + 1 /\ \A k \in 1 .. n + 1 : k \in 0 .. n + 1 /\ k # 0
    BY <1>1
  <2> HIDE DEF g
  <2>3. up = g
    BY <1>8 DEF g
  <2> QED
    BY <2>1, <2>2, <2>3
<1>10. 0 .. n + 1 \subseteq {k \in 0 .. n + 1 : up[k] \in All}
  <2> DEFINE T == {k \in 0 .. n + 1 : up[k] \in All}
  <2>1. 0 \in T
    BY <1>1, <1>3, <1>9
  <2>2. ASSUME NEW k \in 0 .. (n + 1) - 1, k \in T PROVE k + 1 \in T
    <3>1. k + 1 \in 1 .. n + 1 /\ (k + 1) - 1 = k /\ k + 1 \in 0 .. n + 1
      BY <1>1
    <3>2. up[k + 1] = Pass(up[k])
      BY <1>9, <3>1
    <3> QED
      BY <1>4, <2>2, <3>1, <3>2
  <2> HIDE DEF T
  <2>3. 0 .. n + 1 \subseteq T
    BY <1>1, <2>1, <2>2, InductionUpTo
  <2> QED
    BY <2>3 DEF T
<1>11. up[n] \in All /\ up[n + 1] = Pass(up[n])
  <2>1. n \in 0 .. n + 1 /\ (n + 1) - 1 = n
    BY <1>1
  <2> QED
    BY <1>1, <1>9, <1>10, <2>1
<1>12. up[n + 1] \in All /\ Gone(up[n + 1].left)
  BY <1>4, <1>11
<1> QED
  BY <1>2, <1>12 DEF All, Gone, n
-----------------------------------------------------------------------------
(* The list of balls: an ident is listed once, with the last message.      *)
LEMMA PositionKeepsBalls ==
    ASSUME FieldInv, NEW i \in BallIds, NEW carried \in BOOLEAN,
           HandleBallPosition(i, carried)
    PROVE  BallsFit'
<1> DEFINE ball  == [ident |-> i, carried |-> carried, lastrecv |-> now]
           known == \E k \in DOMAIN balls : balls[k].ident = i
           q == [k \in DOMAIN balls |-> IF balls[k].ident = i THEN ball ELSE balls[k]]
           r == Append(balls, ball)
           n == Len(balls)
<1>1. (known => balls' = q) /\ (~known => balls' = r) /\ now' = now
  BY DEF HandleBallPosition
<1>2. /\ ball \in Ball /\ ball.ident = i /\ ball.lastrecv = now
      /\ ball.lastrecv \in 0 .. now
  BY FieldAssumption DEF FieldInv, ArenaFits, Ball
<1>3. /\ balls \in Seq(Ball) /\ n \in Nat /\ DOMAIN balls = 1 .. n /\ BallsApart(balls)
      /\ \A k \in 1 .. n : balls[k] \in Ball /\ balls[k].lastrecv \in 0 .. now
  BY DEF FieldInv, BallsFit
<1> HIDE DEF ball, n
<1>4. CASE known
  <2>1. \A k \in 1 .. n : q[k] \in Ball /\ q[k].lastrecv \in 0 .. now
                          /\ q[k].ident = balls[k].ident
    BY <1>2, <1>3
  <2>2. DOMAIN q = 1 .. n /\ q = [k \in 1 .. n |-> q[k]]
    BY <1>3
  <2> HIDE DEF q
  <2>3. q \in Seq(Ball)
    <3>1. n \in Nat /\ q \in [1 .. n -> Ball]
      BY <1>3, <2>1, <2>2
    <3> QED
      BY <3>1
  <2>4. BallsApart(q)
    BY <1>3, <2>1, <2>2 DEF BallsApart
  <2> QED
    BY <1>1, <1>4, <2>1, <2>2, <2>3, <2>4 DEF BallsFit, BallsApart
<1>5. CASE ~known
  <2>1. /\ r \in Seq(Ball) /\ DOMAIN r = 1 .. n + 1 /\ r[n + 1] = ball
        /\ \A k \in 1 .. n : r[k] = balls[k]
    BY <1>2, <1>3 DEF n
  <2> HIDE DEF r
  <2>2. \A k \in 1 .. n + 1 : k \in 1 .. n \/ k = n + 1
    BY <1>3
  <2>3. \A k \in 1 .. n : r[k].ident # i
    BY <1>3, <1>5, <2>1
  <2>4. BallsApart(r)
    BY <1>2, <1>3, <2>1, <2>2, <2>3 DEF BallsApart
  <2>5. \A k \in DOMAIN r : r[k].lastrecv \in 0 .. now
    BY <1>2, <1>3, <2>1, <2>2
  <2> QED
    BY <1>1, <1>5, <2>1, <2>4, <2>5 DEF BallsFit, BallsApart
<1> QED
  BY <1>4, <1>5

(* The bytes of a map that is read are codes, and its goals are tiles.     *)
LEMMA MapIsRead ==
    ASSUME FieldInv, LoadMap
    PROVE  /\ tiles' \in [Bytes -> Codes] /\ goals' \in Seq(Tiles)
           /\ gotMap' \in BOOLEAN
<1>1. ASSUME NEW b \in Bytes
      PROVE  (IF b < TileMax THEN TileOf(map, b) ELSE tiles[b]) \in Codes
  <2>1. tiles[b] \in Codes
    BY DEF FieldInv, FilesFit
  <2>2. TileOf(map, b) \in Codes
    BY FieldAssumption DEF TileOf, Codes, FieldInv, ArenaFits
  <2> QED
    BY <2>1, <2>2
<1>2. tiles' \in [Bytes -> Codes]
  BY <1>1 DEF LoadMap, ConvertFileToMatrix
<1> DEFINE found == Found(tiles', "goal")
<1>3. goals' = goals \o found
  BY DEF LoadMap, ChangeCoordinates
<1>4. goals \in Seq(Tiles) /\ found \in Seq(Tiles)
  BY FoundIs DEF FieldInv, FilesFit
<1> HIDE DEF found
<1> QED
  BY <1>2, <1>3, <1>4 DEF LoadMap

(* The initial states.                                                     *)
LEMMA FieldStarts ==
    ASSUME FieldInit
    PROVE  FieldInv
<1>1. ArenaFits
  BY FieldAssumption DEF ArenaFits, FieldInit
<1>2. FilesFit
  <2>1. tiles \in [Bytes -> Codes]
    BY DEF FieldInit, Codes
  <2>2. Cached \subseteq files /\ files \subseteq Maps
    BY FieldAssumption DEF FieldInit
  <2>3. goals \in Seq(Tiles)
    BY DEF FieldInit
  <2>4. /\ asked \in BOOLEAN /\ gotMap \in BOOLEAN /\ gotTurf \in BOOLEAN
        /\ loadedFlags \in BOOLEAN
    BY DEF FieldInit
  <2> QED
    BY <2>1, <2>2, <2>3, <2>4 DEF FilesFit
<1>3. FlagsAreOwned
  BY DEF FlagsAreOwned, FlagsFit, TurfTeams, FieldInit
<1>4. BricksAreWhole
  BY DEF BricksAreWhole, FieldInit
<1>5. BallsFit
  BY DEF BallsFit, BallsApart, FieldInit
<1> QED
  BY <1>1, <1>2, <1>3, <1>4, <1>5 DEF FieldInv

(* Each step.                                                              *)
LEMMA FieldSteps ==
    ASSUME FieldInv, [FieldNext]_fieldVars
    PROVE  FieldInv'
<1> USE DEF FieldInv
<1>1. ASSUME map' = map, owner' = owner, dropped' = dropped, now' = now PROVE ArenaFits'
  BY <1>1 DEF ArenaFits, TurfFlagIds, FlagTiles
<1>2. ASSUME UNCHANGED <<files, asked, tiles, gotMap, gotTurf, loadedFlags, goals>>
      PROVE  FilesFit'
  BY <1>2 DEF FilesFit
<1>3. ASSUME owner' = owner, gotTurf' = gotTurf, turfFlags' = turfFlags PROVE FlagsAreOwned'
  BY <1>3 DEF FlagsAreOwned, FlagsFit, TurfTeams
<1>4. ASSUME dropped' = dropped, bricks' = bricks PROVE BricksAreWhole'
  BY <1>4 DEF BricksAreWhole, BrickExists
<1>5. ASSUME now' = now, balls' = balls PROVE BallsFit'
  BY <1>5 DEF BallsFit, BallsApart
<1>6. CASE HandleTurfFlagStatus
  <2>1. FilesFit'
    BY <1>6 DEF HandleTurfFlagStatus, FilesFit
  <2> QED
    BY <1>1, <1>4, <1>5, <1>6, <2>1, StatusKeepsFlags DEF HandleTurfFlagStatus
<1>7. CASE HandleMapInfo
  <2>1. CASE map \in files
    <3>1. LoadMap
      BY <1>7, <2>1 DEF HandleMapInfo
    <3>2. /\ tiles' \in [Bytes -> Codes] /\ goals' \in Seq(Tiles)
          /\ gotMap' \in BOOLEAN
      BY <3>1, MapIsRead
    <3>3. /\ files' = files /\ asked' = asked /\ gotTurf' = gotTurf
          /\ loadedFlags' \in BOOLEAN
      BY <1>7, <2>1, <3>1 DEF HandleMapInfo, LoadMap
    <3>4. FilesFit'
      BY <3>2, <3>3 DEF FilesFit
    <3> QED
      BY <1>1, <1>4, <1>5, <1>7, <3>1, <3>4, MapInfoKeepsFlags DEF LoadMap
  <2>2. CASE map \notin files
    <3>1. FilesFit'
      BY <1>7, <2>2 DEF HandleMapInfo, FilesFit
    <3> QED
      BY <1>1, <1>4, <1>5, <1>7, <2>2, <3>1, MapInfoKeepsFlags DEF HandleMapInfo
  <2> QED
    BY <2>1, <2>2
<1>8. CASE HandleMapFile
  <2>1. LoadMap
    BY <1>8 DEF HandleMapFile
  <2>2. FilesFit'
    <3>1. /\ tiles' \in [Bytes -> Codes] /\ goals' \in Seq(Tiles)
          /\ gotMap' \in BOOLEAN
      BY <2>1, MapIsRead
    <3>2. /\ files' = files \cup {map} /\ asked' = FALSE /\ gotTurf' = gotTurf
          /\ loadedFlags' = loadedFlags
      BY <1>8, <2>1 DEF HandleMapFile, LoadMap
    <3> QED
      BY <3>1, <3>2 DEF FilesFit, ArenaFits
  <2> QED
    BY <1>1, <1>3, <1>4, <1>5, <1>8, <2>1, <2>2 DEF HandleMapFile, LoadMap
<1>9. ASSUME NEW f \in DOMAIN owner, NEW team \in FieldTeams, ClaimTurfFlag(f, team)
      PROVE  FieldInv'
  <2>1. ArenaFits'
    <3>1. /\ owner' = [owner EXCEPT ![f] = team] /\ map' = map /\ dropped' = dropped
          /\ now' = now
      BY <1>9 DEF ClaimTurfFlag
    <3>2. owner' \in [TurfFlagIds(map) -> FieldTeams]
      BY <3>1 DEF ArenaFits
    <3> QED
      BY <3>1, <3>2 DEF ArenaFits, TurfFlagIds, FlagTiles
  <2>2. FlagsAreOwned'
    BY <1>9, ClaimKeepsFlags
  <2> QED
    BY <1>2, <1>4, <1>5, <1>9, <2>1, <2>2 DEF ClaimTurfFlag
<1>10. ASSUME NEW b \in dropped, HandleBrickDrop(b) PROVE FieldInv'
  <2>1. BricksAreWhole'
    BY <1>10, BrickDropKeepsBricks
  <2> QED
    BY <1>1, <1>2, <1>3, <1>5, <1>10, <2>1 DEF HandleBrickDrop
<1>11. ASSUME NEW b \in Brick, DropBrick(b) PROVE FieldInv'
  <2>1. ArenaFits' /\ BricksAreWhole'
    BY <1>11, NewBrickKeepsBricks
  <2> QED
    BY <1>2, <1>3, <1>5, <1>11, <2>1 DEF DropBrick, host
<1>12. ASSUME NEW m \in Maps, ChangeArena(m) PROVE FieldInv'
  <2>1. ArenaFits'
    BY <1>12 DEF ChangeArena, ArenaFits, TurfFlagIds, FlagTiles
  <2>2. FilesFit'
    <3>1. /\ files' = files /\ tiles' = tiles /\ goals' = <<>> /\ asked' = FALSE
          /\ gotMap' = FALSE /\ gotTurf' = FALSE /\ loadedFlags' = FALSE
      BY <1>12 DEF ChangeArena
    <3>2. goals' \in Seq(Tiles)
      BY <3>1
    <3>3. Cached \subseteq files' /\ files' \subseteq Maps
      BY <3>1 DEF FilesFit
    <3>4. tiles' \in [Bytes -> Codes]
      BY <3>1 DEF FilesFit
    <3> QED
      BY <3>1, <3>2, <3>3, <3>4 DEF FilesFit
  <2>3. FlagsAreOwned'
    BY <1>12 DEF ChangeArena, FlagsAreOwned, FlagsFit, TurfTeams
  <2>4. BricksAreWhole'
    <3>1. bricks' = <<>> /\ dropped' = {}
      BY <1>12 DEF ChangeArena
    <3> QED
      BY <3>1 DEF BricksAreWhole
  <2>5. BallsFit'
    <3>1. balls' = <<>>
      BY <1>12 DEF ChangeArena
    <3> QED
      BY <3>1 DEF BallsFit, BallsApart
  <2> QED
    BY <2>1, <2>2, <2>3, <2>4, <2>5
<1>13. ASSUME NEW i \in BallIds, NEW carried \in BOOLEAN, MoveBall(i, carried)
       PROVE  FieldInv'
  <2>1. HandleBallPosition(i, carried)
    BY <1>13 DEF MoveBall
  <2>2. BallsFit'
    BY <2>1, PositionKeepsBalls
  <2> QED
    BY <1>1, <1>2, <1>3, <1>4, <2>1, <2>2 DEF HandleBallPosition
<1>14. CASE DoItemEvents
  <2>1. /\ DoBrickEvents /\ DoBallEvents
        /\ UNCHANGED <<map, owner, dropped, now, files, asked, gotMap, gotTurf,
                       loadedFlags, turfFlags, goals>>
    BY <1>14 DEF DoItemEvents
  <2>2. BricksAreWhole'
    BY <2>1, BrickEventsKeepBricks
  <2>3. FilesFit'
    <3>1. tiles' \in [Bytes -> Codes]
      BY <2>1 DEF DoBrickEvents, Codes, FilesFit
    <3> QED
      BY <2>1, <3>1 DEF FilesFit
  <2>4. BallsFit'
    <3>1. balls \in Seq(Ball) /\ Lists(balls)
      BY DEF BallsFit, Lists
    <3>2. balls' \in Seq(Ball) /\ Lists(balls')
      BY <2>1, <3>1, BallsLeft
    <3> QED
      BY <2>1, <3>2 DEF BallsFit, Lists, BallsApart
  <2> QED
    BY <1>1, <1>3, <2>1, <2>2, <2>3, <2>4
<1>15. CASE Tick
  <2>1. /\ now < MaxTime /\ now' = now + 1
        /\ UNCHANGED <<map, owner, dropped, files, asked, tiles, gotMap, gotTurf,
                       loadedFlags, turfFlags, goals, bricks, balls>>
    BY <1>15 DEF Tick, host
  <2>2. ArenaFits'
    <3>1. now' \in 0 .. MaxTime
      BY <2>1, FieldAssumption DEF ArenaFits
    <3> QED
      BY <2>1, <3>1 DEF ArenaFits, TurfFlagIds, FlagTiles
  <2>3. BallsFit'
    <3>1. \A k \in DOMAIN balls : balls[k].lastrecv \in 0 .. now'
      BY <2>1, FieldAssumption DEF BallsFit, ArenaFits
    <3> QED
      BY <2>1, <3>1 DEF BallsFit, BallsApart
  <2> QED
    BY <1>2, <1>3, <1>4, <2>1, <2>2, <2>3
<1>16. CASE UNCHANGED fieldVars
  BY <1>1, <1>2, <1>3, <1>4, <1>5, <1>16 DEF fieldVars, host
<1> QED
  BY <1>6, <1>7, <1>8, <1>9, <1>10, <1>11, <1>12, <1>13, <1>14, <1>15, <1>16 DEF FieldNext

(***************************************************************************)
(* The inductive invariant of the playfield: what the arena, the files and *)
(* the lists of flags, bricks and balls are like in every reachable state  *)
(* (the handlers of Host.cpp 573-908 and doBrickEvents, doBallEvents).     *)
(***************************************************************************)
THEOREM FieldInvariance == FieldSpec => []FieldInv
<1>1. FieldInit => FieldInv
  BY FieldStarts
<1>2. FieldInv /\ [FieldNext]_fieldVars => FieldInv'
  BY FieldSteps
<1> QED
  BY <1>1, <1>2, PTL DEF FieldSpec

(* Every message leaves the lists of the playfield well formed: tiles,     *)
(* goals and bricks lie in the row, flags have a team, and no powerball is *)
(* listed twice (FieldTypeOK).                                             *)
THEOREM FieldTypes == FieldSpec => []FieldTypeOK
<1>1. FieldInv => FieldTypeOK
  <2> SUFFICES ASSUME FieldInv PROVE FieldTypeOK
    OBVIOUS
  <2>1. /\ map \in Maps /\ owner \in [TurfFlagIds(map) -> FieldTeams] /\ now \in 0 .. MaxTime
        /\ \A b \in dropped : b \in Brick
    BY DEF FieldInv, ArenaFits
  <2>2. /\ Cached \subseteq files /\ files \subseteq Maps
        /\ tiles \in [Bytes -> Codes]
        /\ {asked, gotMap, gotTurf, loadedFlags} \subseteq BOOLEAN
    BY DEF FieldInv, FilesFit
  <2>3. \A k \in DOMAIN goals : goals[k] \in Tiles
    BY DEF FieldInv, FilesFit
  <2>4. /\ DOMAIN turfFlags \subseteq Nat
        /\ \A f \in DOMAIN turfFlags : /\ turfFlags[f].spot \in 0 .. TileMax
                                       /\ turfFlags[f].team \in FieldTeams \cup {UnassignedTeam}
    BY DEF FieldInv, FlagsAreOwned, FlagsFit, TurfFlag
  <2>5. \A k \in DOMAIN bricks : /\ bricks[k].spot \in Tiles
                                 /\ bricks[k].ident \in BrickIds
    <3>1. \A k \in DOMAIN bricks : bricks[k] \in LaidTile
      BY DEF FieldInv, BricksAreWhole
    <3> QED
      BY <3>1 DEF LaidTile
  <2>6. \A k \in DOMAIN balls :
           /\ balls[k].ident \in BallIds /\ balls[k].carried \in BOOLEAN
           /\ balls[k].lastrecv \in 0 .. now
           /\ \A j \in DOMAIN balls : balls[j].ident = balls[k].ident => j = k
    <3>1. \A k \in DOMAIN balls : balls[k] \in Ball /\ balls[k].lastrecv \in 0 .. now
      BY DEF FieldInv, BallsFit
    <3>2. \A k, j \in DOMAIN balls : balls[j].ident = balls[k].ident => j = k
      BY DEF FieldInv, BallsFit, BallsApart
    <3> QED
      BY <3>1, <3>2 DEF Ball
  <2> QED
    BY <2>1, <2>2, <2>3, <2>4, <2>5, <2>6 DEF FieldTypeOK
<1> QED
  BY <1>1, FieldInvariance, PTL

(* Once the teams of the turf flags have been received, every flag of the  *)
(* arena is listed with the server's team, in whatever order the status,   *)
(* the map and the claims come (TurfTeams).                                *)
THEOREM TurfTeamsAreTheServers == FieldSpec => []TurfTeams
<1>1. FieldInv => TurfTeams
  BY DEF FieldInv, FlagsAreOwned
<1> QED
  BY <1>1, FieldInvariance, PTL

(* However often a brick is announced, each of its tiles is listed once,   *)
(* and they are listed and forgotten together (BrickOnce).                 *)
THEOREM BricksAreListedOnce == FieldSpec => []BrickOnce
<1>1. FieldInv => BrickOnce
  <2> SUFFICES ASSUME FieldInv, NEW i \in BrickIds, BrickExists(i)
               PROVE  \E b \in dropped :
                         /\ b.ident = i
                         /\ {Trace(b)[k] : k \in DOMAIN Trace(b)}
                               = {bricks[k].spot : k \in {j \in DOMAIN bricks :
                                                              bricks[j].ident = i}}
                         /\ Len(Trace(b))
                               = Cardinality({j \in DOMAIN bricks :
                                                        bricks[j].ident = i})
    BY Zenon DEF BrickOnce
  <2>1. /\ \A k \in DOMAIN bricks :
              \E b \in dropped : \E j \in DOMAIN Trace(b) : bricks[k] = Tile(b, j)
        /\ \A b \in dropped : BrickExists(b.ident) =>
              \A j \in DOMAIN Trace(b) : \E k \in DOMAIN bricks : bricks[k] = Tile(b, j)
        /\ \A j, k \in DOMAIN bricks : bricks[j] = bricks[k] => j = k
    BY DEF FieldInv, BricksAreWhole
  <2>2. \A b, c \in dropped : b.ident = c.ident => b = c
    BY DEF FieldInv, ArenaFits
  <2>3. \A b \in dropped : \A j \in DOMAIN Trace(b) :
           Tile(b, j).ident = b.ident /\ Tile(b, j).spot = Trace(b)[j]
    BY TileIs DEF FieldInv, ArenaFits
  <2>4. PICK k0 \in DOMAIN bricks : bricks[k0].ident = i
    BY DEF BrickExists
  <2>5. PICK b \in dropped : \E j \in DOMAIN Trace(b) : bricks[k0] = Tile(b, j)
    BY <2>1
  <2>6. b.ident = i /\ b \in Brick
    BY <2>3, <2>4, <2>5 DEF FieldInv, ArenaFits
  <2> DEFINE J == {j \in DOMAIN bricks : bricks[j].ident = i}
             D == DOMAIN Trace(b)
             at == [l \in D |-> CHOOSE k \in DOMAIN bricks : bricks[k] = Tile(b, l)]
  <2>7. \A l \in D : at[l] \in DOMAIN bricks /\ bricks[at[l]] = Tile(b, l)
    BY <2>1, <2>4, <2>6 DEF BrickExists
  <2> HIDE DEF at
  <2>8. \A l \in D : at[l] \in J
    BY <2>3, <2>6, <2>7
  <2>9. \A k \in J : \E l \in D : bricks[k] = Tile(b, l)
    <3> SUFFICES ASSUME NEW k \in J PROVE \E l \in D : bricks[k] = Tile(b, l)
      OBVIOUS
    <3>1. PICK c \in dropped : \E l \in DOMAIN Trace(c) : bricks[k] = Tile(c, l)
      BY <2>1
    <3>2. c.ident = i
      BY <2>3, <3>1
    <3>3. c = b
      BY <2>2, <2>6, <3>2
    <3> QED
      BY <3>1, <3>3
  <2>10. {Trace(b)[k] : k \in D} = {bricks[k].spot : k \in J}
    <3>1. \A l \in D : Trace(b)[l] = bricks[at[l]].spot
      BY <2>3, <2>7
    <3>2. \A k \in J : \E l \in D : bricks[k].spot = Trace(b)[l]
      BY <2>3, <2>9
    <3> QED
      BY <2>8, <3>1, <3>2
  <2>11. \A l, m \in D : at[l] = at[m] => l = m
    BY <2>6, <2>7, TileIs
  <2>12. \A k \in J : \E l \in D : at[l] = k
    BY <2>1, <2>7, <2>9
  <2>13. D = 1 .. Len(Trace(b)) /\ Len(Trace(b)) \in Nat
    BY <2>6, TraceIs
  <2>14. IsFiniteSet(D) /\ Cardinality(D) = Len(Trace(b))
    <3> DEFINE n == Len(Trace(b))
    <3>1. n \in Nat /\ D = 1 .. n
      BY <2>13
    <3> HIDE DEF n, D
    <3>2. IsFiniteSet(D) /\ Cardinality(D) = n
      BY <3>1, FS_Interval
    <3> QED
      BY <3>2 DEF n
  <2>15. ExistsBijection(D, J)
    <3>1. [l \in D |-> at[l]] \in Bijection(D, J)
      BY <2>8, <2>11, <2>12, Fun_IsBij
    <3> QED
      BY <3>1 DEF ExistsBijection
  <2>16. Cardinality(J) = Len(Trace(b))
    <3> HIDE DEF D, J
    <3> QED
      BY <2>14, <2>15, FS_Bijection
  <2>17. Cardinality(J) = Cardinality(J)
    BY DEF Cardinality, Cardinality
  <2> QED
    BY <2>6, <2>10, <2>16, <2>17
<1> QED
  BY <1>1, FieldInvariance, PTL

(* While the bot stays in the arena, a brick whose time is not over stays  *)
(* listed (BricksStand).                                                   *)
THEOREM BricksStayUntilTheirTime == FieldSpec => BricksStand
<1> DEFINE Stand == \A k \in DOMAIN bricks :
                       ~Over(bricks[k]) /\ dropped \subseteq dropped'
                           => bricks[k] \in ToSet(bricks')
<1>1. FieldInv /\ [FieldNext]_fieldVars => [Stand]_fieldVars
  <2> SUFFICES ASSUME FieldInv, FieldNext, NEW k \in DOMAIN bricks,
                      ~Over(bricks[k]), dropped \subseteq dropped'
               PROVE  \E j \in DOMAIN bricks' : bricks'[j] = bricks[k]
    BY DEF ToSet
  <2>1. ASSUME bricks' = bricks PROVE \E j \in DOMAIN bricks' : bricks'[j] = bricks[k]
    BY <2>1
  <2>2. ASSUME NEW b \in dropped, HandleBrickDrop(b)
        PROVE  \E j \in DOMAIN bricks' : bricks'[j] = bricks[k]
    <3>1. CASE BrickExists(b.ident)
      BY <2>1, <2>2, <3>1 DEF HandleBrickDrop
    <3>2. CASE ~BrickExists(b.ident)
      <4> DEFINE T == [l \in DOMAIN Trace(b) |->
                          [spot |-> Trace(b)[l], ident |-> b.ident,
                           time |-> b.time + BrickTime]]
      <4>1. bricks' = bricks \o T
        BY <2>2, <3>2 DEF HandleBrickDrop, AddBricks
      <4>2. T = [l \in 1 .. Len(Trace(b)) |-> T[l]] /\ Len(Trace(b)) \in Nat
        BY TraceIs DEF FieldInv, ArenaFits
      <4>3. \A l \in 1 .. Len(Trace(b)) : T[l] = Tile(b, l) /\ T[l] \in LaidTile
        BY <4>2, TileIs, TraceIs DEF Tile, FieldInv, ArenaFits
      <4> HIDE DEF T
      <4>4. T \in Seq(LaidTile) /\ bricks \in Seq(LaidTile)
        BY <4>2, <4>3 DEF FieldInv, BricksAreWhole
      <4>5. k \in DOMAIN (bricks \o T) /\ (bricks \o T)[k] = bricks[k]
        BY <4>4
      <4> QED
        BY <4>1, <4>5
    <3> QED
      BY <3>1, <3>2
  <2>3. ASSUME NEW m \in Maps, ChangeArena(m) PROVE FALSE
    <3>1. dropped = {}
      BY <2>3 DEF ChangeArena
    <3> QED
      BY <3>1 DEF FieldInv, BricksAreWhole
  <2>4. CASE DoItemEvents
    <3> DEFINE K == {j \in DOMAIN bricks : ~Over(bricks[j])}
    <3>1. bricks' = Sublist(bricks, K)
      BY <2>4 DEF DoItemEvents, DoBrickEvents
    <3>2. bricks \in Seq(LaidTile) /\ k \in K
      BY DEF FieldInv, BricksAreWhole
    <3> HIDE DEF K
    <3>3. PICK at : Picks(at, Sublist(bricks, K), bricks, K, Len(bricks))
      BY <3>2, SublistProperties
    <3>4. Sublist(bricks, K) \in Seq(LaidTile)
      BY <3>2, SublistProperties
    <3> DEFINE q == Sublist(bricks, K)
    <3>5. k \in 1 .. Len(bricks) /\ Len(bricks) \in Nat
      BY <3>2
    <3> HIDE DEF q
    <3>6. PICK j \in 1 .. Len(q) : at[j] = k
      BY <3>2, <3>3, <3>5 DEF Picks, q
    <3>7. q[j] = bricks[k]
      BY <3>3, <3>6 DEF Picks, q
    <3>8. j \in DOMAIN q
      BY <3>4, <3>6 DEF q
    <3> QED
      BY <3>1, <3>7, <3>8 DEF q
  <2> QED
    BY <2>1, <2>2, <2>3, <2>4 DEF FieldNext, HandleTurfFlagStatus, HandleMapInfo,
       LoadMap, HandleMapFile, ClaimTurfFlag, DropBrick, host,
       MoveBall, HandleBallPosition, Tick
<1> QED
  BY <1>1, FieldInvariance, PTL DEF FieldSpec, BricksStand

(* In each turn of the loop, doBallEvents() forgets no ball that is        *)
(* carried or has been heard of, and as long as there is a ball to forget  *)
(* it forgets one, though its loop may pass over others (doBallEvents).    *)
THEOREM SilentBallsAreForgotten ==
    FieldSpec =>
       [][DoItemEvents =>
             /\ Keeps(balls, balls')
             /\ (\E k \in DOMAIN balls : Silent(balls[k]))
                   => Len(balls') < Len(balls)]_fieldVars
<1>1. FieldInv /\ DoItemEvents =>
          /\ Keeps(balls, balls')
          /\ (\E k \in DOMAIN balls : Silent(balls[k])) => Len(balls') < Len(balls)
  <2> SUFFICES ASSUME FieldInv, DoItemEvents
               PROVE  /\ Keeps(balls, balls')
                      /\ (\E k \in DOMAIN balls : Silent(balls[k]))
                            => Len(balls') < Len(balls)
    OBVIOUS
  <2>1. balls \in Seq(Ball) /\ Lists(balls) /\ DoBallEvents
    BY DEF FieldInv, BallsFit, Lists, DoItemEvents
  <2> QED
    BY <2>1, BallsLeft
<1> QED
  BY <1>1, FieldInvariance, PTL
=============================================================================
