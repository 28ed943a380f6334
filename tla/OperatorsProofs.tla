-------------------------- MODULE OperatorsProofs --------------------------
(***************************************************************************)
(* Proofs about Operators, for every set of people, passwords, levels and  *)
(* files: its types, the ceiling of the levels, and that a restart finds   *)
(* the accounts again.  All three rest on what each operation makes of the *)
(* elements of the list, wherever addOperator() puts them.                 *)
(***************************************************************************)
EXTENDS Operators, ListProofs

(* The entries of a list.                                                  *)
Elements(ops) == {ops[k] : k \in DOMAIN ops}

(* No name is listed twice.                                                *)
Unique(ops) == \A j, k \in DOMAIN ops : ops[j].name = ops[k].name => j = k

Lists == {ops \in Seq(Entries) : Unique(ops)}

(* What an entry consists of.                                              *)
LEMMA EntriesAre ==
    /\ \A name \in Names \cup {DefaultName}, pass \in Passwords \cup {NoPassword},
          access \in Nat : /\ OpEntry(name, pass, access) \in Entries
                           /\ OpEntry(name, pass, access).name = name
                           /\ OpEntry(name, pass, access).pass = pass
                           /\ OpEntry(name, pass, access).access = access
    /\ \A e \in Entries : /\ e.name \in Names \cup {DefaultName}
                          /\ e.pass \in Passwords \cup {NoPassword}
                          /\ e.access \in Nat
                          /\ e = OpEntry(e.name, e.pass, e.access)
BY DEF Entries, OpEntry

(* Reading changes the password alone, and what has been read once is read *)
(* as it is.                                                               *)
LEMMA AsReadIs ==
    ASSUME NEW line \in Entries
    PROVE  /\ AsRead(line) \in Entries /\ AsRead(AsRead(line)) = AsRead(line)
           /\ AsRead(line).name = line.name /\ AsRead(line).access = line.access
           /\ ValidLine(AsRead(line)) <=> ValidLine(line)
<1> DEFINE read(pass) == IF pass = NoPassword THEN NoPassword ELSE Cut[pass]
<1>1. \A pass \in Passwords \cup {NoPassword} :
         read(pass) \in Passwords \cup {NoPassword} /\ read(read(pass)) = read(pass)
  BY OperatorsAssumption
<1> HIDE DEF read
<1>2. \A e \in Entries : AsRead(e) = OpEntry(e.name, read(e.pass), e.access)
  BY DEF AsRead, Entries, OpEntry, read
<1>3. /\ line.name \in Names \cup {DefaultName} /\ line.access \in Nat
      /\ line.pass \in Passwords \cup {NoPassword}
  BY EntriesAre
<1> DEFINE pass == read(line.pass)
<1>4. pass \in Passwords \cup {NoPassword} /\ read(pass) = pass
  BY <1>1, <1>3
<1>5. AsRead(line) = OpEntry(line.name, pass, line.access)
  BY <1>2
<1> HIDE DEF pass
<1> DEFINE e == OpEntry(line.name, pass, line.access)
<1>6. /\ e \in Entries /\ e.name = line.name /\ e.pass = pass
      /\ e.access = line.access
  BY <1>3, <1>4, EntriesAre
<1> HIDE DEF e
<1>7. AsRead(e) = OpEntry(e.name, read(e.pass), e.access)
  BY <1>2, <1>6
<1>8. AsRead(e) = e
  BY <1>4, <1>6, <1>7 DEF e
<1> QED
  BY <1>5, <1>6, <1>8 DEF e, ValidLine

(* A list and its positions.                                               *)
LEMMA ListsAre ==
    ASSUME NEW ops \in Seq(Entries)
    PROVE  /\ Len(ops) \in Nat /\ DOMAIN ops = 1 .. Len(ops)
           /\ \A k \in 1 .. Len(ops) : ops[k] \in Entries
           /\ \A k \in DOMAIN ops : ops[k] \in Entries
OBVIOUS

(* addOperator() adds the entry and nothing else, wherever it goes.        *)
LEMMA AddOperatorAdds ==
    ASSUME NEW ops \in Seq(Entries), NEW op \in Entries
    PROVE  /\ AddOperator(ops, op) \in Seq(Entries)
           /\ Len(AddOperator(ops, op)) = Len(ops) + 1
           /\ Elements(AddOperator(ops, op)) = Elements(ops) \cup {op}
           /\ Unique(ops) /\ ~Listed(ops, op.name) => Unique(AddOperator(ops, op))
<1> DEFINE lower == {k \in DOMAIN ops : ops[k].access < op.access}
           places == lower \cup {Len(ops) + 1}
           place == Min(places)
           new == Inserted(ops, place, op)
<1>1. Len(ops) \in Nat /\ DOMAIN ops = 1 .. Len(ops) /\ \A k \in 1 .. Len(ops) : ops[k] \in Entries
  BY ListsAre
<1>2. place \in 1 .. Len(ops) + 1
  <2>1. places \in SUBSET Nat /\ places # {} /\ places \subseteq 1 .. Len(ops) + 1
    BY <1>1
  <2> HIDE DEF places
  <2>2. PICK n \in places : \A m \in places : n <= m
    BY <2>1, LeastElement
  <2>3. place \in places
    BY <2>2, Zenon DEF Min
  <2> QED
    BY <2>1, <2>3
<1>3. AddOperator(ops, op) = new
  BY DEF AddOperator, Inserted
<1> HIDE DEF place
<1>4. /\ new \in Seq(Entries) /\ Len(new) = Len(ops) + 1
      /\ \A i \in 1 .. place - 1 : new[i] = ops[i]
      /\ new[place] = op
      /\ \A i \in place .. Len(ops) : new[i + 1] = ops[i]
  BY <1>2, InsertProperties
<1> HIDE DEF new
<1>5. /\ DOMAIN new = 1 .. Len(ops) + 1
      /\ \A i \in 1 .. Len(ops) + 1 :
            \/ i < place /\ i \in 1 .. Len(ops) /\ new[i] = ops[i]
            \/ i = place /\ new[i] = op
            \/ i > place /\ i - 1 \in 1 .. Len(ops) /\ new[i] = ops[i - 1]
  <2>1. ASSUME NEW i \in 1 .. Len(ops) + 1, i > place
        PROVE  i - 1 \in 1 .. Len(ops) /\ new[i] = ops[i - 1]
    <3>1. i - 1 \in place .. Len(ops) /\ (i - 1) + 1 = i
      BY <1>1, <1>2, <2>1
    <3>2. new[(i - 1) + 1] = ops[i - 1]
      BY <1>4, <3>1
    <3> QED
      BY <1>1, <1>2, <3>1, <3>2
  <2> QED
    BY <1>1, <1>2, <1>4, <2>1
<1>6. Elements(new) = Elements(ops) \cup {op}
  <2>1. ASSUME NEW i \in 1 .. Len(ops) + 1 PROVE new[i] \in Elements(ops) \cup {op}
    BY <1>1, <1>5 DEF Elements
  <2>2. ASSUME NEW k \in 1 .. Len(ops) PROVE \E i \in 1 .. Len(ops) + 1 : new[i] = ops[k]
    <3>1. CASE k < place
      BY <1>1, <1>2, <1>4, <3>1
    <3>2. CASE k >= place
      BY <1>1, <1>2, <1>4, <3>2
    <3> QED
      BY <1>2, <3>1, <3>2
  <2>3. Elements(new) \subseteq Elements(ops) \cup {op}
    <3>1. Elements(new) = {new[i] : i \in 1 .. Len(ops) + 1}
      BY <1>5 DEF Elements
    <3> QED
      BY <2>1, <3>1
  <2>4. Elements(ops) \subseteq Elements(new)
    BY <1>1, <1>5, <2>2 DEF Elements
  <2>5. op \in Elements(new)
    BY <1>2, <1>4, <1>5 DEF Elements
  <2> QED
    BY <2>3, <2>4, <2>5
<1>7. ASSUME Unique(ops), ~Listed(ops, op.name) PROVE Unique(new)
  <2>1. \A k \in 1 .. Len(ops) : ops[k].name # op.name
    BY <1>1, <1>7 DEF Listed, Found
  <2>2. \A j, k \in 1 .. Len(ops) : ops[j].name = ops[k].name => j = k
    BY <1>1, <1>7 DEF Unique
  <2> SUFFICES ASSUME NEW j \in 1 .. Len(ops) + 1, NEW k \in 1 .. Len(ops) + 1,
                      new[j].name = new[k].name
               PROVE  j = k
    BY <1>5 DEF Unique
  <2>3. j = place <=> k = place
    <3>1. \A i \in 1 .. Len(ops) + 1 : i = place <=> new[i].name = op.name
      BY <1>2, <1>4, <1>5, <2>1
    <3> QED
      BY <2>2, <3>1
  <2>4. CASE j # place /\ k # place
    <3> DEFINE at(i) == IF i < place THEN i ELSE i - 1
    <3>1. /\ at(j) \in 1 .. Len(ops) /\ new[j] = ops[at(j)]
          /\ at(k) \in 1 .. Len(ops) /\ new[k] = ops[at(k)]
      BY <1>2, <1>5, <2>4
    <3>2. at(j) = at(k)
      BY <2>2, <3>1
    <3> QED
      BY <1>1, <1>2, <2>4, <3>2
  <2> QED
    BY <2>3, <2>4
<1> QED
  BY <1>3, <1>4, <1>6, <1>7

(* An account is taken out whole, and no other one is.                     *)
LEMMA RemoveOperatorRemoves ==
    ASSUME NEW ops \in Lists, NEW name
    PROVE  /\ RemoveOperator(ops, name) \in Lists
           /\ Elements(RemoveOperator(ops, name)) = {e \in Elements(ops) : e.name # name}
<1> DEFINE K == DOMAIN ops \ Found(ops, name)
           new == Sublist(ops, K)
<1>1. ops \in Seq(Entries) /\ \A j, k \in DOMAIN ops : ops[j].name = ops[k].name => j = k
  BY DEF Lists, Unique
<1>2. new \in Seq(Entries) /\ \E at : Picks(at, new, ops, K, Len(ops))
  BY <1>1, SublistProperties
<1>3. RemoveOperator(ops, name) = new
  BY DEF RemoveOperator
<1> HIDE DEF new
<1>4. PICK at : Picks(at, new, ops, K, Len(ops))
  BY <1>2
<1>5. /\ Len(new) \in Nat /\ DOMAIN new = 1 .. Len(new)
      /\ DOMAIN ops = 1 .. Len(ops)
  BY <1>1, <1>2
<1>6. K \cap (1 .. Len(ops)) = {k \in DOMAIN ops : ops[k].name # name}
  BY <1>5 DEF Found
<1> HIDE DEF K
<1>7. Unique(new)
  <2> SUFFICES ASSUME NEW j \in 1 .. Len(new), NEW k \in 1 .. Len(new),
                      new[j].name = new[k].name
               PROVE  j = k
    BY <1>5 DEF Unique
  <2>1. /\ at[j] \in DOMAIN ops /\ at[k] \in DOMAIN ops
        /\ new[j] = ops[at[j]] /\ new[k] = ops[at[k]]
    BY <1>4, <1>6 DEF Picks
  <2>2. at[j] = at[k] /\ at[j] \in Int
    BY <1>1, <1>5, <2>1
  <2>3. /\ j < k => at[j] < at[k]
        /\ k < j => at[k] < at[j]
    BY <1>4 DEF Picks
  <2> QED
    BY <2>2, <2>3
<1>8. Elements(new) = {e \in Elements(ops) : e.name # name}
  <2>1. ASSUME NEW i \in 1 .. Len(new)
        PROVE  new[i] \in Elements(ops) /\ new[i].name # name
    BY <1>4, <1>6 DEF Picks, Elements
  <2>2. ASSUME NEW k \in DOMAIN ops, ops[k].name # name
        PROVE  \E i \in 1 .. Len(new) : new[i] = ops[k]
    BY <1>4, <1>6, <2>2 DEF Picks
  <2> QED
    BY <1>5, <2>1, <2>2 DEF Elements
<1> QED
  BY <1>2, <1>3, <1>7, <1>8 DEF Lists

(* A change of the level leaves the names, the passwords and the other     *)
(* accounts as they are.                                                   *)
LEMMA SetAccessSets ==
    ASSUME NEW ops \in Seq(Entries), NEW name, NEW access \in Nat
    PROVE  /\ SetAccess(ops, name, access) \in Seq(Entries)
           /\ DOMAIN SetAccess(ops, name, access) = DOMAIN ops
           /\ \A k \in DOMAIN ops :
                 SetAccess(ops, name, access)[k] =
                    IF ops[k].name = name THEN OpEntry(name, ops[k].pass, access) ELSE ops[k]
<1>1. Len(ops) \in Nat /\ DOMAIN ops = 1 .. Len(ops) /\ \A k \in 1 .. Len(ops) : ops[k] \in Entries
  BY ListsAre
<1>2. \A k \in 1 .. Len(ops) :
        [ops[k] EXCEPT !.access = access] = OpEntry(ops[k].name, ops[k].pass, access)
  BY <1>1 DEF Entries, OpEntry
<1> DEFINE new == [k \in 1 .. Len(ops) |-> IF ops[k].name = name
                              THEN [ops[k] EXCEPT !.access = access] ELSE ops[k]]
<1>3. SetAccess(ops, name, access) = new
  BY <1>1 DEF SetAccess
<1>4. \A k \in 1 .. Len(ops) :
        /\ new[k] = IF ops[k].name = name THEN OpEntry(name, ops[k].pass, access) ELSE ops[k]
        /\ new[k] \in Entries
  <2> SUFFICES ASSUME NEW k \in 1 .. Len(ops)
               PROVE  /\ new[k] = IF ops[k].name = name THEN OpEntry(name, ops[k].pass, access) ELSE ops[k]
                      /\ new[k] \in Entries
    OBVIOUS
  <2>1. new[k] = IF ops[k].name = name THEN OpEntry(name, ops[k].pass, access) ELSE ops[k]
    BY <1>2
  <2>2. ops[k] \in Entries
    BY <1>1
  <2>3. OpEntry(ops[k].name, ops[k].pass, access) \in Entries
    BY <2>2, EntriesAre
  <2> HIDE DEF new
  <2> QED
    BY <2>1, <2>2, <2>3
<1>5. DOMAIN new = 1 .. Len(ops) /\ new = [k \in 1 .. Len(ops) |-> new[k]]
  OBVIOUS
<1> HIDE DEF new
<1>6. new \in Seq(Entries)
  BY <1>1, <1>4, <1>5
<1> QED
  BY <1>1, <1>3, <1>4, <1>5, <1>6

(* A change of the password leaves the names, the levels and the other     *)
(* accounts as they are.                                                   *)
LEMMA SetPasswordSets ==
    ASSUME NEW ops \in Seq(Entries), NEW name, NEW pass \in Passwords \cup {NoPassword}
    PROVE  /\ SetPassword(ops, name, pass) \in Seq(Entries)
           /\ DOMAIN SetPassword(ops, name, pass) = DOMAIN ops
           /\ \A k \in DOMAIN ops :
                 SetPassword(ops, name, pass)[k] =
                    IF ops[k].name = name THEN OpEntry(name, pass, ops[k].access) ELSE ops[k]
<1>1. Len(ops) \in Nat /\ DOMAIN ops = 1 .. Len(ops) /\ \A k \in 1 .. Len(ops) : ops[k] \in Entries
  BY ListsAre
<1>2. \A k \in 1 .. Len(ops) :
        [ops[k] EXCEPT !.pass = pass] = OpEntry(ops[k].name, pass, ops[k].access)
  BY <1>1 DEF Entries, OpEntry
<1> DEFINE new == [k \in 1 .. Len(ops) |-> IF ops[k].name = name
                              THEN [ops[k] EXCEPT !.pass = pass] ELSE ops[k]]
<1>3. SetPassword(ops, name, pass) = new
  BY <1>1 DEF SetPassword
<1>4. \A k \in 1 .. Len(ops) :
        /\ new[k] = IF ops[k].name = name THEN OpEntry(name, pass, ops[k].access) ELSE ops[k]
        /\ new[k] \in Entries
  <2> SUFFICES ASSUME NEW k \in 1 .. Len(ops)
               PROVE  /\ new[k] = IF ops[k].name = name THEN OpEntry(name, pass, ops[k].access) ELSE ops[k]
                      /\ new[k] \in Entries
    OBVIOUS
  <2>1. new[k] = IF ops[k].name = name THEN OpEntry(name, pass, ops[k].access) ELSE ops[k]
    BY <1>2
  <2>2. ops[k] \in Entries
    BY <1>1
  <2>3. OpEntry(ops[k].name, pass, ops[k].access) \in Entries
    BY <2>2, EntriesAre
  <2> HIDE DEF new
  <2> QED
    BY <2>1, <2>2, <2>3
<1>5. DOMAIN new = 1 .. Len(ops) /\ new = [k \in 1 .. Len(ops) |-> new[k]]
  OBVIOUS
<1> HIDE DEF new
<1>6. new \in Seq(Entries)
  BY <1>1, <1>4, <1>5
<1> QED
  BY <1>1, <1>3, <1>4, <1>5, <1>6

(* An edited list names the same people.                                   *)
LEMMA EditsKeepUnique ==
    ASSUME NEW ops \in Lists, NEW new \in Seq(Entries), DOMAIN new = DOMAIN ops,
           \A k \in DOMAIN ops : new[k].name = ops[k].name
    PROVE  new \in Lists
BY DEF Lists, Unique

(* Whom the default entry does not concern it leaves alone.                *)
LEMMA WithDefaultKeeps ==
    ASSUME NEW ops \in Lists
    PROVE  /\ WithDefault(ops) \in Lists
           /\ \A e : e.name # DefaultName =>
                 (e \in Elements(WithDefault(ops)) <=> e \in Elements(ops))
<1> DEFINE new == OpEntry(DefaultName, NoPassword, Unknown)
<1>1. new \in Entries /\ new.name = DefaultName
  BY DEF OpEntry, Entries, Unknown
<1>2. ops \in Seq(Entries) /\ Unique(ops)
  BY DEF Lists
<1> HIDE DEF new
<1>3. CASE Listed(ops, DefaultName)
  BY <1>3 DEF WithDefault
<1>4. CASE ~Listed(ops, DefaultName)
  <2>1. WithDefault(ops) = AddOperator(ops, new)
    BY <1>4 DEF WithDefault, new
  <2>2. /\ AddOperator(ops, new) \in Lists
        /\ Elements(AddOperator(ops, new)) = Elements(ops) \cup {new}
    BY <1>1, <1>2, <1>4, AddOperatorAdds DEF Lists
  <2> QED
    BY <1>1, <2>1, <2>2
<1> QED
  BY <1>3, <1>4

(* The entry of a name: gotOperator() makes it that of the line, if the    *)
(* line is valid and about that name, and leaves it alone if not.          *)
LEMMA GotOperatorSets ==
    ASSUME NEW ops \in Lists, NEW line \in Entries
    PROVE  /\ GotOperator(ops, line) \in Lists
           /\ \A e : e.name # DefaultName =>
                 (e \in Elements(GotOperator(ops, line)) <=>
                    IF ValidLine(line) /\ e.name = line.name
                    THEN e = AsRead(line) ELSE e \in Elements(ops))
<1> DEFINE Effect(new) ==
             /\ new \in Lists
             /\ \A e : e.name # DefaultName =>
                 (e \in Elements(new) <=>
                    IF ValidLine(line) /\ e.name = line.name
                    THEN e = AsRead(line) ELSE e \in Elements(ops))
           got == AsRead(line)
<1>1. ops \in Seq(Entries) /\ Unique(ops)
  BY DEF Lists
<1>0. got \in Entries /\ got.name = line.name /\ got.access = line.access
  BY AsReadIs
<1> HIDE DEF got
<1>2. CASE ~ValidLine(line)
  BY <1>2 DEF GotOperator
<1>3. CASE ValidLine(line) /\ ~Listed(ops, line.name)
  <2> DEFINE added == AddOperator(ops, got)
  <2>1. GotOperator(ops, line) = WithDefault(added)
    BY <1>3 DEF GotOperator, got
  <2>2. added \in Lists /\ Elements(added) = Elements(ops) \cup {got}
    BY <1>0, <1>1, <1>3, AddOperatorAdds DEF Lists
  <2>3. \A e \in Elements(ops) : e.name # line.name
    BY <1>3 DEF Elements, Listed, Found
  <2> HIDE DEF added
  <2>4. Effect(added)
    BY <1>0, <1>3, <2>2, <2>3 DEF got
  <2> QED
    BY <2>1, <2>2, <2>4, WithDefaultKeeps
<1>4. CASE ValidLine(line) /\ Listed(ops, line.name)
  <2> DEFINE leveled == SetAccess(ops, line.name, line.access)
             edited == SetPassword(leveled, line.name, got.pass)
  <2>1. GotOperator(ops, line) = WithDefault(edited)
    BY <1>4 DEF GotOperator, got
  <2>2. /\ line.access \in Nat /\ got.pass \in Passwords \cup {NoPassword}
        /\ line.name \in Names \cup {DefaultName}
        /\ got = OpEntry(line.name, got.pass, line.access)
    BY <1>0, EntriesAre
  <2>3. /\ leveled \in Seq(Entries) /\ DOMAIN leveled = DOMAIN ops
        /\ \A k \in DOMAIN ops : leveled[k] =
              IF ops[k].name = line.name
              THEN OpEntry(line.name, ops[k].pass, line.access) ELSE ops[k]
    BY <1>1, <2>2, SetAccessSets
  <2> HIDE DEF leveled
  <2>4. /\ edited \in Seq(Entries) /\ DOMAIN edited = DOMAIN leveled
        /\ \A k \in DOMAIN leveled : edited[k] =
              IF leveled[k].name = line.name
              THEN OpEntry(line.name, got.pass, leveled[k].access) ELSE leveled[k]
    BY <2>2, <2>3, SetPasswordSets
  <2> HIDE DEF edited
  <2>5. ASSUME NEW k \in DOMAIN ops
        PROVE  edited[k] = IF ops[k].name = line.name THEN got ELSE ops[k]
    <3>1. ops[k] \in Entries
      BY <1>1
    <3>2. CASE ops[k].name = line.name
      <4>1. leveled[k].name = line.name /\ leveled[k].access = line.access
        <5>1. leveled[k] = OpEntry(line.name, ops[k].pass, line.access)
          BY <2>3, <3>2
        <5> QED
          BY <5>1 DEF OpEntry
      <4> QED
        BY <2>2, <2>3, <2>4, <3>2, <4>1
    <3>3. CASE ops[k].name # line.name
      BY <2>3, <2>4, <3>3
    <3> QED
      BY <3>2, <3>3
  <2>6. edited \in Lists
    BY <1>0, <2>3, <2>4, <2>5, EditsKeepUnique
  <2>7. \A e : e \in Elements(edited) <=>
           IF e.name = line.name THEN e = got ELSE e \in Elements(ops)
    <3>1. PICK k \in DOMAIN ops : ops[k].name = line.name
      BY <1>4 DEF Listed, Found
    <3>2. \A e : e \in Elements(edited) <=> \E m \in DOMAIN ops :
             e = IF ops[m].name = line.name THEN got ELSE ops[m]
      BY <2>3, <2>4, <2>5 DEF Elements
    <3>3. \A e : e \in Elements(ops) <=> \E m \in DOMAIN ops : e = ops[m]
      BY DEF Elements
    <3> QED
      BY <1>0, <3>1, <3>2, <3>3
  <2>8. Effect(edited)
    BY <1>4, <2>6, <2>7 DEF got
  <2> QED
    BY <2>1, <2>6, <2>8, WithDefaultKeeps
<1> QED
  BY <1>2, <1>3, <1>4

(* The recursive definition means what it says.                            *)
LEMMA LoadedUpToDef ==
    ASSUME NEW ops \in Lists, NEW lines \in Seq(Entries)
    PROVE  /\ LoadedUpTo(ops, lines) \in [0 .. Len(lines) -> Lists]
           /\ LoadedUpTo(ops, lines)[0] = ops
           /\ \A n \in 1 .. Len(lines) :
                 LoadedUpTo(ops, lines)[n] =
                    GotOperator(LoadedUpTo(ops, lines)[n - 1], lines[n])
<1> DEFINE N == Len(lines)
           All == Lists
           Next1(n, q) == GotOperator(q, lines[n])
           Def(f) == [k \in 0 .. N |-> IF k = 0 THEN ops ELSE Next1(k, f[k - 1])]
           up == CHOOSE f : f = Def(f)
           step == [n \in 1 .. N |-> [q \in All |-> Next1(n, q)]]
<1>1. /\ N \in Nat /\ ops \in All
      /\ \A n \in 1 .. N : \A q \in All : Next1(n, q) \in All
  <2>1. N \in Nat /\ \A n \in 1 .. N : lines[n] \in Entries
    BY ListsAre
  <2> QED
    BY <2>1, GotOperatorSets
<1>2. LoadedUpTo(ops, lines) = up
  <2>1. LoadedUpTo(ops, lines) =
          CHOOSE f : f = [k \in 0 .. Len(lines) |->
                            IF k = 0 THEN ops ELSE GotOperator(f[k - 1], lines[k])]
    BY Zenon DEF LoadedUpTo
  <2> QED
    BY <2>1, Zenon
<1> HIDE DEF N, All, Next1
<1>3. step \in [1 .. N -> [All -> All]]
  BY <1>1
<1>4. PICK f \in [0 .. N -> All] : Iterates(f, N, ops, step)
  <2> HIDE DEF step
  <2> QED
    BY <1>1, <1>3, Iteration
<1>5. f = Def(f)
  <2>1. ASSUME NEW n \in 1 .. N PROVE f[n] = Next1(n, f[n - 1])
    <3>1. f[n - 1] \in All
      BY <1>1
    <3> QED
      BY <1>4, <3>1 DEF Iterates
  <2>2. \A n \in 0 .. N : f[n] = IF n = 0 THEN ops ELSE Next1(n, f[n - 1])
    BY <1>1, <1>4, <2>1 DEF Iterates
  <2> QED
    BY <2>2
<1>6. up = Def(up)
  <2> HIDE DEF Def
  <2> QED
    BY <1>5, Zenon
<1> HIDE DEF up
<1>7. /\ up = [n \in 0 .. N |-> up[n]] /\ up[0] = ops
      /\ \A n \in 1 .. N : up[n] = Next1(n, up[n - 1])
  <2>1. DOMAIN up = 0 .. N /\ \A n \in 0 .. N : up[n] = IF n = 0 THEN ops ELSE Next1(n, up[n - 1])
    <3> DEFINE g == Def(up)
    <3>1. DOMAIN g = 0 .. N /\ \A n \in 0 .. N : g[n] = IF n = 0 THEN ops ELSE Next1(n, up[n - 1])
      OBVIOUS
    <3> HIDE DEF g
    <3>2. up = g
      BY <1>6 DEF g
    <3> QED
      BY <3>1, <3>2, Zenon
  <2>2. 0 \in 0 .. N /\ \A n \in 1 .. N : n \in 0 .. N /\ n # 0
    BY <1>1
  <2>3. up = [n \in 0 .. N |-> up[n]]
    BY <1>6
  <2> QED
    BY <2>1, <2>2, <2>3
<1>8. \A n \in 0 .. N : up[n] \in All
  <2> DEFINE T == {n \in 0 .. N : up[n] \in All}
  <2>1. 0 \in T
    BY <1>1, <1>7
  <2>2. ASSUME NEW n \in 0 .. N - 1, n \in T PROVE n + 1 \in T
    <3>1. n + 1 \in 1 .. N /\ (n + 1) - 1 = n
      BY <1>1
    <3>2. up[n + 1] = Next1(n + 1, up[n])
      BY <1>7, <3>1
    <3> QED
      BY <1>1, <2>2, <3>1, <3>2
  <2>3. 0 .. N \subseteq T
    <3> HIDE DEF T
    <3> QED
      BY <1>1, <2>1, <2>2, InductionUpTo
  <2> QED
    BY <2>3
<1> QED
  BY <1>2, <1>7, <1>8 DEF N, All, Next1

(* The valid lines about a name.                                           *)
About(lines, name) == {k \in DOMAIN lines : lines[k].name = name /\ ValidLine(lines[k])}

(* A name that no valid line is about stays as it is in the list, and one  *)
(* that some are about becomes what one of them says, whatever the list    *)
(* was before.                                                             *)
LEMMA LoadedSets ==
    ASSUME NEW lines \in Seq(Entries)
    PROVE  /\ \A ops \in Lists : Loaded(ops, lines) \in Lists
           /\ \A name : name # DefaultName =>
                IF About(lines, name) = {}
                THEN \A ops \in Lists : \A e : e.name = name =>
                        (e \in Elements(Loaded(ops, lines)) <=> e \in Elements(ops))
                ELSE \E k \in About(lines, name) :
                        \A ops \in Lists : \A e : e.name = name =>
                           (e \in Elements(Loaded(ops, lines)) <=> e = AsRead(lines[k]))
<1> DEFINE N == Len(lines)
           up(ops) == LoadedUpTo(ops, lines)
<1>1. N \in Nat /\ DOMAIN lines = 1 .. N /\ \A n \in 1 .. N : lines[n] \in Entries
  BY ListsAre
<1>2. \A ops \in Lists : /\ up(ops) \in [0 .. N -> Lists] /\ up(ops)[0] = ops
                         /\ \A n \in 1 .. N : up(ops)[n] = GotOperator(up(ops)[n - 1], lines[n])
  BY LoadedUpToDef
<1>3. \A ops : Loaded(ops, lines) = up(ops)[N]
  BY DEF Loaded
<1> HIDE DEF up
<1>4. ASSUME NEW name, name # DefaultName
      PROVE  IF About(lines, name) = {}
             THEN \A ops \in Lists : \A e : e.name = name =>
                     (e \in Elements(up(ops)[N]) <=> e \in Elements(ops))
             ELSE \E k \in About(lines, name) :
                     \A ops \in Lists : \A e : e.name = name =>
                        (e \in Elements(up(ops)[N]) <=> e = AsRead(lines[k]))
  <2> DEFINE Told == About(lines, name)
             Same(n) == \A ops \in Lists : \A e : e.name = name =>
                           (e \in Elements(up(ops)[n]) <=> e \in Elements(ops))
             Says(n, k) == \A ops \in Lists : \A e : e.name = name =>
                              (e \in Elements(up(ops)[n]) <=> e = AsRead(lines[k]))
             Upto(n) == \/ Told \cap (1 .. n) = {} /\ Same(n)
                        \/ \E k \in Told \cap (1 .. n) : Says(n, k)
             T == {n \in 0 .. N : Upto(n)}
  <2>1. 0 \in T
    BY <1>1, <1>2
  <2>2. ASSUME NEW n \in 0 .. N - 1, n \in T PROVE n + 1 \in T
    <3>1. /\ n + 1 \in 1 .. N /\ (n + 1) - 1 = n /\ n \in 0 .. N /\ n + 1 \in 0 .. N
          /\ 1 .. n + 1 = (1 .. n) \cup {n + 1}
      BY <1>1
    <3>2. Upto(n)
      BY <2>2
    <3>3. n + 1 \in Told <=> ValidLine(lines[n + 1]) /\ lines[n + 1].name = name
      BY <1>1, <3>1 DEF About
    <3>4. \A ops \in Lists : /\ up(ops)[n] \in Lists
                             /\ up(ops)[n + 1] = GotOperator(up(ops)[n], lines[n + 1])
      BY <1>2, <3>1
    <3>5. \A ops \in Lists : \A e : e.name = name =>
            (e \in Elements(up(ops)[n + 1]) <=>
               IF n + 1 \in Told THEN e = AsRead(lines[n + 1]) ELSE e \in Elements(up(ops)[n]))
      <4> SUFFICES ASSUME NEW ops \in Lists, NEW e, e.name = name
                   PROVE  e \in Elements(up(ops)[n + 1]) <=>
                            IF n + 1 \in Told THEN e = AsRead(lines[n + 1]) ELSE e \in Elements(up(ops)[n])
        OBVIOUS
      <4> DEFINE q == up(ops)[n]
                 line == lines[n + 1]
      <4>1. q \in Lists /\ line \in Entries /\ up(ops)[n + 1] = GotOperator(q, line)
        BY <1>1, <3>1, <3>4
      <4> HIDE DEF q, line
      <4>2. e \in Elements(GotOperator(q, line)) <=>
               IF ValidLine(line) /\ e.name = line.name THEN e = AsRead(line) ELSE e \in Elements(q)
        BY <1>4, <4>1, GotOperatorSets
      <4> QED
        BY <3>3, <4>1, <4>2 DEF q, line
    <3>6. CASE n + 1 \in Told
      <4>1. Says(n + 1, n + 1)
        BY <3>5, <3>6
      <4> HIDE DEF Says, Told
      <4>2. n + 1 \in Told \cap (1 .. n + 1)
        BY <3>1, <3>6
      <4> QED
        BY <3>1, <4>1, <4>2
    <3>7. CASE n + 1 \notin Told
      <4>1. Told \cap (1 .. n + 1) = Told \cap (1 .. n)
        BY <3>1, <3>7
      <4>2. Same(n) => Same(n + 1)
        BY <3>5, <3>7
      <4>3. \A k : Says(n, k) => Says(n + 1, k)
        BY <3>5, <3>7
      <4> HIDE DEF Says, Same, Told
      <4> QED
        BY <3>1, <3>2, <4>1, <4>2, <4>3
    <3> QED
      BY <3>6, <3>7
  <2>3. Upto(N)
    <3>1. 0 .. N \subseteq T
      <4> HIDE DEF T
      <4> QED
        BY <1>1, <2>1, <2>2, InductionUpTo
    <3> HIDE DEF Upto
    <3> QED
      BY <1>1, <3>1
  <2>4. Told \cap (1 .. N) = Told
    BY <1>1 DEF About
  <2>5. CASE Told = {}
    <3>1. Same(N)
      BY <2>3, <2>5
    <3> QED
      BY <2>5, <3>1
  <2>6. CASE Told # {}
    <3>1. PICK k \in Told : Says(N, k)
      <4> HIDE DEF Told, Says, Same
      <4> QED
        BY <2>3, <2>4, <2>6
    <3> QED
      BY <2>6, <3>1
  <2> QED
    BY <2>5, <2>6
<1>5. \A ops \in Lists : up(ops)[N] \in Lists
  BY <1>1, <1>2
<1> QED
  BY <1>3, <1>4, <1>5

(* The empty list names nobody.                                            *)
LEMMA EmptyList == <<>> \in Lists /\ Elements(<<>>) = {}
BY DEF Lists, Unique, Elements

(* The levels of the accounts are at most this.                            *)
Within(ops, level) == \A e \in Elements(ops) : e.name = DefaultName \/ e.access <= level

(* A file that brings no higher level raises nobody.                       *)
LEMMA LoadedWithin ==
    ASSUME NEW ops \in Lists, NEW lines \in Seq(Entries), NEW level,
           Within(ops, level), \A k \in DOMAIN lines : lines[k].access <= level
    PROVE  Within(Loaded(ops, lines), level)
<1> SUFFICES ASSUME NEW e \in Elements(Loaded(ops, lines)), e.name # DefaultName
             PROVE  e.access <= level
  BY DEF Within
<1>1. CASE About(lines, e.name) = {}
  BY <1>1, LoadedSets DEF Within
<1>2. CASE About(lines, e.name) # {}
  <2>1. PICK k \in About(lines, e.name) : e = AsRead(lines[k])
    BY <1>2, LoadedSets
  <2>2. k \in DOMAIN lines /\ lines[k] \in Entries
    BY <2>1 DEF About
  <2> QED
    BY <2>1, <2>2, AsReadIs
<1> QED
  BY <1>1, <1>2

(* What is read of an account depends on the elements of the list alone.   *)
LEMMA KeptElements ==
    ASSUME NEW ops, NEW name
    PROVE  Kept(ops, name) =
              {AsRead(e) : e \in {f \in Elements(ops) : f.name = name /\ ValidLine(f)}}
BY DEF Kept, Found, Elements

(* An account is the one its list has under that name.                     *)
LEMMA FindOperatorFinds ==
    ASSUME NEW ops \in Lists, NEW name, Listed(ops, name)
    PROVE  /\ FindOperator(ops, name) \in Elements(ops)
           /\ FindOperator(ops, name).name = name
           /\ FindOperator(ops, name) \in Entries
<1>1. PICK k \in Found(ops, name) : FindOperator(ops, name) = ops[k]
  BY DEF FindOperator, Listed
<1>2. ops \in Seq(Entries) /\ k \in DOMAIN ops /\ ops[k].name = name
  BY DEF Lists, Found
<1> QED
  BY <1>1, <1>2, ListsAre DEF Elements

-----------------------------------------------------------------------------
(* The types, by the lists of unique names.                                *)
LEMMA TypeOKLists ==
    TypeOK <=> /\ operators \in Lists /\ file \in Seq(Entries)
               /\ operatorsUpdated \in BOOLEAN /\ billerOnline \in BOOLEAN
               /\ DOMAIN players \subseteq Names /\ \A n \in DOMAIN players : players[n] \in Nat
               /\ lowestLevel \in Player .. Owner
               /\ changes \in 0 .. MaxChanges /\ ceiling \in Nat
               /\ loose \subseteq Names \cup {DefaultName} /\ usurped \in BOOLEAN
BY DEF TypeOK, Lists, Unique

(* There is no Owner, and nobody has used the powers of the default entry. *)
Capped == ceiling < Owner /\ ~usurped

(* There will be none after the step, nor will anybody have used them.     *)
StaysCapped == ceiling < Owner /\ ~usurped'

(* The players' levels are under the ceiling, but for that of a player     *)
(* with the name of the default entry.                                     *)
PlayersWithin(levels, level) ==
    \A n \in DOMAIN levels : n = DefaultName \/ levels[n] <= level

(* Under the ceiling: the accounts, the players, and what is in the file,  *)
(* which a restart or !read makes accounts again.                          *)
UnderCeiling ==
    Capped => /\ Within(operators, ceiling)
              /\ \A k \in DOMAIN file : file[k].access <= ceiling
              /\ PlayersWithin(players, ceiling)

(* What a step of somebody's, or of nobody's, makes of the history.        *)
Watched(by) == usurped' = (usurped \/ by = DefaultName)
Remembered == usurped' \in BOOLEAN /\ (usurped => usurped')

IInv == TypeOK /\ UnderCeiling /\ SurvivesRestart

(* An account's level is a level, and it is under the ceiling.             *)
LEMMA AccountLevelIs ==
    ASSUME TypeOK, UnderCeiling, NEW name \in Names
    PROVE  /\ AccountLevel(name) \in Nat
           /\ Capped /\ name # DefaultName => AccountLevel(name) <= ceiling
<1>1. operators \in Lists /\ ceiling \in Nat
  BY TypeOKLists
<1>2. CASE Listed(operators, name)
  <2> DEFINE op == FindOperator(operators, name)
  <2>1. op \in Elements(operators) /\ op.name = name /\ op \in Entries
    BY <1>1, <1>2, FindOperatorFinds
  <2>2. AccountLevel(name) = op.access
    BY <1>2 DEF AccountLevel
  <2> HIDE DEF op
  <2> QED
    BY <2>1, <2>2, EntriesAre DEF UnderCeiling, Within
<1>3. CASE ~Listed(operators, name)
  BY <1>1, <1>3 DEF AccountLevel, Player
<1> QED
  BY <1>2, <1>3

(* So are the powers a command is carried out with.                        *)
LEMMA PowersAre ==
    ASSUME TypeOK, UnderCeiling,
           NEW name \in Names, NEW access \in Powers(name)
    PROVE  access \in Nat /\ (Capped /\ name # DefaultName => access <= ceiling)
<1>1. access \in {players[n] : n \in DOMAIN players \cap {name}}
      \/ access \in {AccountLevel(name), Player}
  BY DEF Powers
<1>2. CASE access \in {players[n] : n \in DOMAIN players \cap {name}}
  BY <1>2, TypeOKLists DEF UnderCeiling, PlayersWithin
<1>3. CASE access \in {AccountLevel(name), Player}
  <2>1. ceiling \in Nat /\ Player \in Nat /\ \A n \in Nat : Player <= n
    BY TypeOKLists DEF Player
  <2>2. /\ AccountLevel(name) \in Nat
        /\ Capped /\ name # DefaultName => AccountLevel(name) <= ceiling
    BY AccountLevelIs
  <2> QED
    BY <1>3, <2>1, <2>2
<1> QED
  BY <1>1, <1>2, <1>3

(* As long as the history of a command says that no powers of the default  *)
(* entry were used, it was carried out with others.                        *)
LEMMA CommandsPowers ==
    ASSUME TypeOK, UnderCeiling, NEW by \in Names, NEW access \in Powers(by), Watched(by)
    PROVE  access \in Nat /\ (StaysCapped => Capped /\ access <= ceiling)
BY PowersAre DEF Watched, StaysCapped, Capped

LEMMA WatchedIsRemembered ==
    ASSUME TypeOK, NEW by, Watched(by)
    PROVE  Remembered /\ (StaysCapped => Capped)
BY Zenon DEF TypeOK, Watched, Remembered, StaysCapped, Capped

(* A change of one account's password leaves the levels and the other      *)
(* accounts as they are.                                                   *)
LEMMA RepasswordedIs ==
    ASSUME NEW ops \in Lists, NEW name, NEW pass \in Passwords \cup {NoPassword}, NEW c
    PROVE  /\ SetPassword(ops, name, pass) \in Lists
           /\ Within(ops, c) => Within(SetPassword(ops, name, pass), c)
           /\ \A other : other # name =>
                 Kept(SetPassword(ops, name, pass), other) = Kept(ops, other)
<1> DEFINE new == SetPassword(ops, name, pass)
<1>1. ops \in Seq(Entries) /\ \A k \in DOMAIN ops : ops[k] \in Entries
  BY ListsAre DEF Lists
<1>2. /\ new \in Seq(Entries) /\ DOMAIN new = DOMAIN ops
      /\ \A k \in DOMAIN ops : new[k] =
            IF ops[k].name = name THEN OpEntry(name, pass, ops[k].access) ELSE ops[k]
  BY <1>1, SetPasswordSets
<1> HIDE DEF new
<1>3. ASSUME NEW k \in DOMAIN ops
      PROVE  /\ new[k].name = ops[k].name /\ new[k].access = ops[k].access
             /\ ops[k].name # name => new[k] = ops[k]
  <2>1. ops[k].name \in Names \cup {DefaultName} /\ ops[k].access \in Nat
    BY <1>1, EntriesAre
  <2>2. CASE ops[k].name = name
    <3>1. new[k] = OpEntry(ops[k].name, pass, ops[k].access)
      BY <1>2, <2>2
    <3>2. /\ OpEntry(ops[k].name, pass, ops[k].access).name = ops[k].name
          /\ OpEntry(ops[k].name, pass, ops[k].access).access = ops[k].access
      <4> DEFINE n == ops[k].name
                 a == ops[k].access
      <4>1. n \in Names \cup {DefaultName} /\ a \in Nat /\ pass \in Passwords \cup {NoPassword}
        BY <2>1
      <4> HIDE DEF n, a
      <4>2. OpEntry(n, pass, a).name = n /\ OpEntry(n, pass, a).access = a
        BY <4>1, EntriesAre
      <4> QED
        BY <4>2 DEF n, a
    <3>3. new[k].name = ops[k].name /\ new[k].access = ops[k].access
      BY <3>1, <3>2
    <3> QED
      BY <2>2, <3>3
  <2>3. CASE ops[k].name # name
    BY <1>2, <2>3
  <2> QED
    BY <2>2, <2>3
<1>4. new \in Lists
  BY <1>2, <1>3, EditsKeepUnique
<1>5. Within(ops, c) => Within(new, c)
  BY <1>2, <1>3 DEF Within, Elements
<1>6. ASSUME NEW other, other # name PROVE Kept(new, other) = Kept(ops, other)
  BY <1>2, <1>3, <1>6 DEF Kept, Found
<1> QED
  BY <1>4, <1>5, <1>6 DEF new

(* A new account, and a password given to somebody: the names stay unique, *)
(* and the levels under a level that the new one is under.                 *)
LEMMA AddedIs ==
    ASSUME NEW ops \in Lists, NEW name \in Names, NEW level \in Nat, ~Listed(ops, name), NEW c
    PROVE  /\ AddOperator(ops, OpEntry(name, NoPassword, level)) \in Lists
           /\ Within(ops, c) /\ level <= c =>
                 Within(AddOperator(ops, OpEntry(name, NoPassword, level)), c)
<1> DEFINE op == OpEntry(name, NoPassword, level)
<1>1. op \in Entries /\ op.name = name /\ op.access = level
  BY EntriesAre
<1>2. ops \in Seq(Entries) /\ Unique(ops)
  BY DEF Lists
<1> HIDE DEF op
<1>3. AddOperator(ops, op) \in Lists /\ Elements(AddOperator(ops, op)) = Elements(ops) \cup {op}
  BY <1>1, <1>2, AddOperatorAdds DEF Lists
<1>4. Within(ops, c) /\ level <= c => Within(AddOperator(ops, op), c)
  BY <1>1, <1>3 DEF Within
<1> QED
  BY <1>3, <1>4 DEF op

(* An edit of one account leaves the others as they are.                   *)
LEMMA EditedIs ==
    ASSUME NEW ops \in Lists, NEW name, NEW level \in Nat,
           NEW pass \in Passwords \cup {NoPassword}, NEW c
    PROVE  /\ SetPassword(SetAccess(ops, name, level), name, pass) \in Lists
           /\ Within(ops, c) /\ level <= c =>
                 Within(SetPassword(SetAccess(ops, name, level), name, pass), c)
           /\ \A other : other # name =>
                 Kept(SetPassword(SetAccess(ops, name, level), name, pass), other)
                 = Kept(ops, other)
<1> DEFINE leveled == SetAccess(ops, name, level)
           new == SetPassword(leveled, name, pass)
<1>1. ops \in Seq(Entries) /\ \A k \in DOMAIN ops : ops[k] \in Entries
  BY ListsAre DEF Lists
<1>2. /\ leveled \in Seq(Entries) /\ DOMAIN leveled = DOMAIN ops
      /\ \A k \in DOMAIN ops : leveled[k] =
            IF ops[k].name = name THEN OpEntry(name, ops[k].pass, level) ELSE ops[k]
  BY <1>1, SetAccessSets
<1> HIDE DEF leveled
<1>3. /\ new \in Seq(Entries) /\ DOMAIN new = DOMAIN leveled
      /\ \A k \in DOMAIN leveled : new[k] =
            IF leveled[k].name = name THEN OpEntry(name, pass, leveled[k].access) ELSE leveled[k]
  BY <1>2, SetPasswordSets
<1> HIDE DEF new
<1>4. ASSUME NEW k \in DOMAIN ops
      PROVE  IF ops[k].name = name THEN new[k].name = name /\ new[k].access = level
                                   ELSE new[k] = ops[k]
  <2>1. /\ ops[k].name \in Names \cup {DefaultName}
        /\ ops[k].pass \in Passwords \cup {NoPassword}
    BY <1>1, EntriesAre
  <2>2. CASE ops[k].name = name
    <3>1. leveled[k] = OpEntry(name, ops[k].pass, level)
      BY <1>2, <2>2
    <3>2. leveled[k].name = name /\ leveled[k].access = level
      BY <2>1, <2>2, <3>1, EntriesAre
    <3>3. new[k] = OpEntry(name, pass, level)
      BY <1>2, <1>3, <3>2
    <3> QED
      BY <2>1, <2>2, <3>3, EntriesAre
  <2>3. CASE ops[k].name # name
    BY <1>2, <1>3, <2>3
  <2> QED
    BY <2>2, <2>3
<1>5. new \in Lists
  BY <1>2, <1>3, <1>4, EditsKeepUnique
<1>6. Within(ops, c) /\ level <= c => Within(new, c)
  BY <1>2, <1>3, <1>4 DEF Within, Elements
<1>7. ASSUME NEW other, other # name PROVE Kept(new, other) = Kept(ops, other)
  BY <1>2, <1>3, <1>4, <1>7 DEF Kept, Found
<1> QED
  BY <1>5, <1>6, <1>7 DEF new, leveled
-----------------------------------------------------------------------------
(* A list read anew from the file has its types, and is under the ceiling. *)
LEMMA LoadedIs ==
    ASSUME TypeOK, UnderCeiling, NEW ops \in Lists,
           Capped => Within(ops, ceiling)
    PROVE  /\ Loaded(ops, file) \in Lists
           /\ Capped => Within(Loaded(ops, file), ceiling)
<1>1. file \in Seq(Entries)
  BY TypeOKLists
<1> QED
  BY <1>1, LoadedSets, LoadedWithin DEF UnderCeiling

(* The first list is the file's.                                           *)
LEMMA InitEstablishes == Init => IInv
<1> SUFFICES ASSUME Init PROVE IInv
  OBVIOUS
<1>1. file \in Seq(Entries)
  <2> DEFINE Line == [name : Names, access : Nat, pass : Passwords \cup {NoPassword}]
  <2>1. file \in Seq(Line)
    BY OperatorsAssumption DEF Init
  <2>2. \A line \in Line : line \in Entries
    BY DEF Entries
  <2> HIDE DEF Line
  <2>3. \A k \in 1 .. Len(file) : file[k] \in Line
    BY <2>1
  <2> QED
    BY <2>1, <2>2, <2>3
<1>2. operators \in Lists
  BY <1>1, EmptyList, LoadedSets DEF Init
<1>3. ceiling \in Nat /\ \A k \in DOMAIN file : file[k].access <= ceiling
  <2>1. \A k \in DOMAIN file : file[k].access \in Nat
    BY <1>1, ListsAre, EntriesAre
  <2> QED
    BY <2>1 DEF Init, Limited
<1>4. TypeOK
  <2>1. lowestLevel \in Player .. Owner
    BY DEF Init, Player, Owner
  <2>2. DOMAIN players = {}
    BY DEF Init
  <2>3. changes \in 0 .. MaxChanges
    BY OperatorsAssumption DEF Init
  <2> QED
    BY <1>1, <1>2, <1>3, <2>1, <2>2, <2>3, TypeOKLists DEF Init
<1>5. UnderCeiling
  <2>1. Within(operators, ceiling)
    BY <1>1, <1>3, EmptyList, LoadedWithin DEF Init, Within
  <2>2. DOMAIN players = {}
    BY DEF Init
  <2> QED
    BY <1>3, <2>1, <2>2 DEF UnderCeiling, PlayersWithin
<1>6. SurvivesRestart
  BY DEF FoundAgain, Init, SurvivesRestart
<1> QED
  BY <1>4, <1>5, <1>6 DEF IInv

(* What a step leaves alone of the list and of the players.                *)
LEMMA ListUnchanged ==
    ASSUME IInv, UNCHANGED <<operators, operatorsUpdated, file, changes, loose, ceiling>>,
           billerOnline' \in BOOLEAN, lowestLevel' \in Player .. Owner,
           DOMAIN players' \subseteq Names, \A n \in DOMAIN players' : players'[n] \in Nat,
           Remembered, StaysCapped => PlayersWithin(players', ceiling)
    PROVE  IInv'
<1>1. TypeOK'
  BY DEF IInv, TypeOK, Remembered
<1>2. UnderCeiling'
  BY DEF IInv, UnderCeiling, Capped, StaysCapped, Remembered
<1>3. SurvivesRestart'
  BY DEF IInv, SurvivesRestart, FoundAgain
<1> QED
  BY <1>1, <1>2, <1>3 DEF IInv

(* A step that changes the list alone.                                     *)
LEMMA ListChanged ==
    ASSUME IInv, UNCHANGED <<file, players, lowestLevel, billerOnline, ceiling>>,
           operators' \in Lists, changes' \in 0 .. MaxChanges,
           operatorsUpdated' \in BOOLEAN, loose' \subseteq Names \cup {DefaultName},
           Remembered, StaysCapped => Within(operators', ceiling), SurvivesRestart'
    PROVE  IInv'
<1>1. TypeOK'
  BY DEF IInv, TypeOK, Lists, Unique, Remembered
<1>2. UnderCeiling'
  BY DEF IInv, UnderCeiling, Capped, StaysCapped, Remembered, PlayersWithin, Within
<1> QED
  BY <1>1, <1>2 DEF IInv

(* !addop: somebody with powers adds an account below him.                 *)
LEMMA AddOpKeeps ==
    ASSUME IInv, NEW by \in Names, NEW access \in Powers(by), AddOp(by, access),
           Watched(by)
    PROVE  IInv'
<1>1. PICK name \in Names, level \in {Moderator} \cup
               {Granted(access, asked) : asked \in AskedLevels},
           pass \in Passwords \cup {NoPassword} :
        LET added == AddOperator(operators, OpEntry(name, NoPassword, level))
            last  == added[Len(added)].name
        IN  /\ Ordered(by, access, SuperModerator)
            /\ ~Listed(operators, name)
            /\ level > Unknown => pass = NoPassword
            /\ Change(IF pass = NoPassword THEN added
                      ELSE SetPassword(added, last, pass))
            /\ operatorsUpdated' = TRUE
            /\ UNCHANGED loose
  BY DEF AddOp
<1> DEFINE added == AddOperator(operators, OpEntry(name, NoPassword, level))
           last == added[Len(added)].name
           new == IF pass = NoPassword THEN added ELSE SetPassword(added, last, pass)
<1>2. /\ access >= SuperModerator /\ ~Listed(operators, name) /\ operatorsUpdated' = TRUE
      /\ changes < MaxChanges /\ changes' = changes + 1 /\ operators' = new
      /\ UNCHANGED <<file, players, lowestLevel, billerOnline, ceiling, loose>>
  BY <1>1 DEF Ordered, Change
<1>3. TypeOK /\ UnderCeiling /\ operators \in Lists /\ ceiling \in Nat
  BY TypeOKLists DEF IInv
<1>4. access \in Nat /\ (StaysCapped => Capped /\ access <= ceiling)
  BY <1>3, CommandsPowers
<1>5. level \in Nat /\ (StaysCapped => level <= ceiling)
  <2>1. CASE level = Moderator
    BY <1>2, <1>3, <1>4, <2>1 DEF Moderator, SuperModerator
  <2>2. CASE level \in {Granted(access, asked) : asked \in AskedLevels}
    <3>1. PICK asked \in AskedLevels : level = Granted(access, asked)
      BY <2>2
    <3>2. asked \in Nat
      BY OperatorsAssumption
    <3> QED
      BY <1>2, <1>3, <1>4, <3>1, <3>2 DEF Granted, SuperModerator, Owner, StaysCapped
  <2> QED
    BY <2>1, <2>2
<1>6. added \in Lists /\ (Within(operators, ceiling) /\ level <= ceiling => Within(added, ceiling))
  BY <1>2, <1>3, <1>5, AddedIs
<1> HIDE DEF added, last
<1>7. new \in Lists /\ (Within(added, ceiling) => Within(new, ceiling))
  BY <1>6, RepasswordedIs
<1> HIDE DEF new
<1>8. SurvivesRestart'
  BY <1>2 DEF SurvivesRestart
<1>9. changes' \in 0 .. MaxChanges /\ loose' \subseteq Names \cup {DefaultName}
  BY <1>2, <1>3, OperatorsAssumption DEF TypeOK
<1>10. StaysCapped => Within(operators', ceiling)
  BY <1>2, <1>3, <1>4, <1>5, <1>6, <1>7 DEF UnderCeiling
<1> QED
  BY <1>2, <1>3, <1>7, <1>8, <1>9, <1>10, WatchedIsRemembered, ListChanged

(* An account that is edited without a mark is loose, and nobody else is   *)
(* concerned.                                                              *)
LEMMA UnmarkedKeeps ==
    ASSUME IInv, NEW name \in Names \cup {DefaultName}, Unmarked(name), UNCHANGED file,
           \A other : other # name => Kept(operators', other) = Kept(operators, other)
    PROVE  /\ SurvivesRestart'
           /\ operatorsUpdated' \in BOOLEAN /\ loose' \subseteq Names \cup {DefaultName}
<1>1. operatorsUpdated' \in BOOLEAN /\ loose' \subseteq Names \cup {DefaultName}
  BY DEF IInv, TypeOK, Unmarked
<1>2. ASSUME ~operatorsUpdated', NEW other \in Names \ (loose' \cup {DefaultName})
      PROVE  Kept(operators', other) = Kept(Loaded(<<>>, file'), other)
  <2>1. ~operatorsUpdated /\ other # name /\ other \in Names \ (loose \cup {DefaultName})
    BY <1>2 DEF Unmarked
  <2> QED
    BY <2>1 DEF IInv, SurvivesRestart, FoundAgain
<1> QED
  BY <1>1, <1>2 DEF SurvivesRestart, FoundAgain

(* !editop: somebody edits an account below him, and not above him.        *)
LEMMA EditOpKeeps ==
    ASSUME IInv, NEW by \in Names, NEW access \in Powers(by), EditOp(by, access),
           Watched(by)
    PROVE  IInv'
<1>1. PICK k \in DOMAIN operators :
         \E asked \in AskedLevels \cup {operators[k].access},
            pass \in Passwords \cup {NoPassword, operators[k].pass} :
              /\ MayEdit(access, operators[k], asked)
              /\ asked > Unknown => pass = operators[k].pass
              /\ Change(SetPassword(SetAccess(operators, operators[k].name, asked),
                                    operators[k].name, pass))
              /\ Unmarked(operators[k].name)
  BY DEF EditOp
<1> DEFINE op == operators[k]
<1>2. TypeOK /\ UnderCeiling /\ operators \in Lists /\ ceiling \in Nat
  BY TypeOKLists DEF IInv
<1>3. /\ op.name \in Names \cup {DefaultName} /\ op.access \in Nat
      /\ op.pass \in Passwords \cup {NoPassword}
  <2>1. op \in Entries
    BY <1>2, ListsAre DEF Lists
  <2> QED
    BY <2>1, EntriesAre
<1> HIDE DEF op
<1>4. PICK asked \in AskedLevels \cup {op.access}, pass \in Passwords \cup {NoPassword, op.pass} :
         /\ MayEdit(access, op, asked)
         /\ Change(SetPassword(SetAccess(operators, op.name, asked), op.name, pass))
         /\ Unmarked(op.name)
  BY <1>1 DEF op
<1>5. access \in Nat /\ (StaysCapped => Capped /\ access <= ceiling)
  BY <1>2, CommandsPowers
<1>6. /\ asked \in Nat /\ (StaysCapped => asked <= ceiling)
      /\ pass \in Passwords \cup {NoPassword}
  <2>1. asked \in Nat
    BY <1>3, OperatorsAssumption
  <2>2. StaysCapped => asked <= access
    BY <1>2, <1>4, <1>5 DEF MayEdit, Owner, StaysCapped
  <2> QED
    BY <1>2, <1>3, <1>5, <2>1, <2>2
<1> DEFINE new == SetPassword(SetAccess(operators, op.name, asked), op.name, pass)
<1>7. /\ changes < MaxChanges /\ changes' = changes + 1 /\ operators' = new
      /\ UNCHANGED <<file, players, lowestLevel, billerOnline, ceiling>>
  BY <1>4 DEF Change
<1>8. /\ new \in Lists
      /\ Within(operators, ceiling) /\ asked <= ceiling => Within(new, ceiling)
      /\ \A other : other # op.name => Kept(new, other) = Kept(operators, other)
  BY <1>2, <1>6, EditedIs
<1> HIDE DEF new
<1>9. /\ SurvivesRestart'
      /\ operatorsUpdated' \in BOOLEAN /\ loose' \subseteq Names \cup {DefaultName}
  BY <1>3, <1>4, <1>7, <1>8, UnmarkedKeeps
<1>10. changes' \in 0 .. MaxChanges
  BY <1>2, <1>7, OperatorsAssumption DEF TypeOK
<1>11. StaysCapped => Within(operators', ceiling)
  BY <1>2, <1>5, <1>6, <1>7, <1>8 DEF UnderCeiling
<1> QED
  BY <1>2, <1>7, <1>8, <1>9, <1>10, <1>11, WatchedIsRemembered, ListChanged

(* !deleteop                                                               *)
LEMMA DeleteOpKeeps ==
    ASSUME IInv, NEW by, NEW access, DeleteOp(by, access), Watched(by)
    PROVE  IInv'
<1>1. PICK k \in DOMAIN operators : Change(RemoveOperator(operators, operators[k].name))
  BY DEF DeleteOp
<1> DEFINE new == RemoveOperator(operators, operators[k].name)
<1>2. TypeOK /\ UnderCeiling /\ operators \in Lists
  BY TypeOKLists DEF IInv
<1>3. /\ changes < MaxChanges /\ changes' = changes + 1 /\ operators' = new
      /\ UNCHANGED <<file, players, lowestLevel, billerOnline, ceiling, loose>>
      /\ operatorsUpdated' = TRUE
  BY <1>1 DEF Change, DeleteOp
<1>4. new \in Lists /\ Elements(new) \subseteq Elements(operators)
  BY <1>2, RemoveOperatorRemoves
<1> HIDE DEF new
<1>5. SurvivesRestart'
  BY <1>3 DEF SurvivesRestart
<1>6. changes' \in 0 .. MaxChanges /\ loose' \subseteq Names \cup {DefaultName}
  BY <1>2, <1>3, OperatorsAssumption DEF TypeOK
<1>7. StaysCapped => Within(operators', ceiling)
  BY <1>2, <1>3, <1>4, WatchedIsRemembered DEF UnderCeiling, Within
<1> QED
  BY <1>2, <1>3, <1>4, <1>5, <1>6, <1>7, WatchedIsRemembered, ListChanged

(* A restart finds what the file says.                                     *)
LEMMA RestartKeeps == ASSUME IInv, Restart, Remembered PROVE IInv'
<1>1. TypeOK /\ UnderCeiling /\ \A c : Within(<<>>, c)
  BY EmptyList DEF IInv, Within
<1>2. /\ operators' \in Lists
      /\ Capped => Within(operators', ceiling)
  BY <1>1, EmptyList, LoadedIs DEF Restart
<1>3. DOMAIN players' = {} /\ lowestLevel' \in Player .. Owner
  BY DEF Restart, Player, Owner
<1>4. TypeOK'
  BY <1>1, <1>2, <1>3 DEF TypeOK, Restart, Lists, Unique, Remembered
<1>5. UnderCeiling'
  BY <1>1, <1>2, <1>3
    DEF UnderCeiling, Restart, Within, PlayersWithin, Capped, Remembered
<1>6. SurvivesRestart'
  BY DEF SurvivesRestart, FoundAgain, Restart
<1> QED
  BY <1>4, <1>5, <1>6 DEF IInv

(* !setlogin                                                               *)
LEMMA SetLoginKeeps ==
    ASSUME IInv, NEW by \in Names, NEW access, SetLogin(by, access), Watched(by)
    PROVE  IInv'
<1>1. CASE Listed(operators, by)
  <2>1. PICK pass \in Passwords \cup {NoPassword} : Change(SetPassword(operators, by, pass))
    BY <1>1 DEF SetLogin
  <2> DEFINE new == SetPassword(operators, by, pass)
  <2>2. TypeOK /\ UnderCeiling /\ operators \in Lists
    BY TypeOKLists DEF IInv
  <2>3. /\ changes < MaxChanges /\ changes' = changes + 1 /\ operators' = new
        /\ UNCHANGED <<file, players, lowestLevel, billerOnline, ceiling>>
        /\ Unmarked(by)
    BY <1>1, <2>1 DEF Change, SetLogin
  <2>4. /\ new \in Lists /\ (Within(operators, ceiling) => Within(new, ceiling))
        /\ \A other : other # by => Kept(new, other) = Kept(operators, other)
    BY <2>2, RepasswordedIs
  <2> HIDE DEF new
  <2>5. /\ SurvivesRestart'
        /\ operatorsUpdated' \in BOOLEAN /\ loose' \subseteq Names \cup {DefaultName}
    BY <2>3, <2>4, UnmarkedKeeps
  <2>6. changes' \in 0 .. MaxChanges
    BY <2>2, <2>3, OperatorsAssumption DEF TypeOK
  <2>7. StaysCapped => Within(operators', ceiling)
    BY <2>2, <2>3, <2>4, WatchedIsRemembered DEF UnderCeiling
  <2> QED
    BY <2>2, <2>3, <2>4, <2>5, <2>6, <2>7, WatchedIsRemembered, ListChanged
<1>2. CASE ~Listed(operators, by)
  BY <1>2, WatchedIsRemembered, RestartKeeps DEF SetLogin, IInv
<1> QED
  BY <1>1, <1>2

(* A file that holds the accounts gives them back, since it names each of  *)
(* them once.                                                              *)
LEMMA SavedIsLoaded ==
    ASSUME NEW ops \in Lists, NEW name, name # DefaultName
    PROVE  Kept(Loaded(<<>>, RemoveOperator(ops, DefaultName)), name) = Kept(ops, name)
<1> DEFINE lines == RemoveOperator(ops, DefaultName)
           new == Loaded(<<>>, lines)
<1>2. lines \in Lists /\ Elements(lines) = {e \in Elements(ops) : e.name # DefaultName}
  BY RemoveOperatorRemoves
<1> HIDE DEF lines
<1>3. lines \in Seq(Entries) /\ \A j, k \in DOMAIN lines : lines[j].name = lines[k].name => j = k
  BY <1>2 DEF Lists, Unique
<1>4. \A e : e.name = name => (e \in Elements(lines) <=> e \in Elements(ops))
  BY <1>2
<1>5. Kept(lines, name) = Kept(ops, name)
  BY <1>4, KeptElements
<1>6. CASE About(lines, name) = {}
  <2>1. \A e : e.name = name => e \notin Elements(new)
    BY <1>3, <1>6, LoadedSets, EmptyList
  <2>2. Kept(lines, name) = {}
    BY <1>6 DEF Kept, Found, About
  <2> HIDE DEF new
  <2>3. Kept(new, name) = {}
    BY <2>1, KeptElements
  <2> QED
    BY <1>5, <2>2, <2>3 DEF new, lines
<1>7. CASE About(lines, name) # {}
  <2>1. PICK k \in About(lines, name) :
           \A e : e.name = name => (e \in Elements(new) <=> e = AsRead(lines[k]))
    BY <1>3, <1>7, LoadedSets, EmptyList
  <2>2. k \in DOMAIN lines /\ lines[k].name = name /\ ValidLine(lines[k])
    BY <2>1 DEF About
  <2> HIDE DEF new
  <2> DEFINE read == AsRead(lines[k])
  <2>5. AsRead(read) = read /\ read.name = name /\ ValidLine(read)
    <3>1. lines[k] \in Entries
      BY <1>3, <2>2
    <3> QED
      BY <2>2, <3>1, AsReadIs
  <2>6. \A e : e.name = name => (e \in Elements(new) <=> e = read)
    BY <2>1
  <2>7. Kept(lines, name) = {read}
    BY <1>3, <2>2 DEF Kept, Found
  <2> HIDE DEF read
  <2>8. {e \in Elements(new) : e.name = name /\ ValidLine(e)} = {read}
    BY <2>5, <2>6
  <2>3. Kept(new, name) = {read}
    BY <2>5, <2>8, KeptElements
  <2> QED
    BY <1>5, <2>3, <2>7 DEF new, lines
<1> QED
  BY <1>6, <1>7

(* saveOperators()                                                         *)
LEMMA SaveOperatorsKeeps == ASSUME IInv, SaveOperators, Remembered PROVE IInv'
<1> DEFINE new == RemoveOperator(operators, DefaultName)
<1>1. TypeOK /\ UnderCeiling /\ operators \in Lists
  BY TypeOKLists DEF IInv
<1>2. /\ file' = new /\ operatorsUpdated' = FALSE /\ loose' = {}
      /\ UNCHANGED <<operators, players, lowestLevel, billerOnline, changes, ceiling>>
  BY DEF SaveOperators
<1>3. new \in Lists /\ Elements(new) = {e \in Elements(operators) : e.name # DefaultName}
  BY <1>1, RemoveOperatorRemoves
<1>4. \A name : name # DefaultName => Kept(Loaded(<<>>, new), name) = Kept(operators, name)
  BY <1>1, SavedIsLoaded
<1> HIDE DEF new
<1>5. TypeOK'
  BY <1>1, <1>2, <1>3 DEF TypeOK, Lists, Unique, Remembered
<1>6. UnderCeiling'
  <2>1. ASSUME Capped, NEW k \in DOMAIN new PROVE new[k].access <= ceiling
    <3>1. new[k] \in Elements(new)
      BY DEF Elements
    <3> QED
      BY <1>1, <1>3, <2>1, <3>1 DEF UnderCeiling, Within
  <2> QED
    BY <1>1, <1>2, <2>1 DEF UnderCeiling, PlayersWithin, Within, Capped, Remembered
<1>7. SurvivesRestart'
  BY <1>2, <1>4 DEF SurvivesRestart, FoundAgain
<1> QED
  BY <1>5, <1>6, <1>7 DEF IInv

(* !read makes the accounts what a new process would, but for those that   *)
(* the file does not speak of.                                             *)
LEMMA ReadKeeps ==
    ASSUME IInv, NEW by, NEW access, Read(by, access), Watched(by)
    PROVE  IInv'
<1> DEFINE new == Loaded(operators, file)
<1>1. TypeOK /\ UnderCeiling /\ operators \in Lists /\ file \in Seq(Entries)
  BY TypeOKLists DEF IInv
<1>2. /\ operators' = new /\ operatorsUpdated' = FALSE
      /\ loose' = {name \in Names \cup {DefaultName} :
                   /\ Listed(operators', name)
                   /\ \A k \in DOMAIN file :
                         file[k].name = name => ~ValidLine(file[k])}
      /\ UNCHANGED <<file, players, lowestLevel, billerOnline, changes, ceiling>>
  BY DEF Read
<1>3. new \in Lists /\ (Capped => Within(new, ceiling))
  BY <1>1, LoadedIs DEF UnderCeiling
<1>4. ASSUME NEW name \in Names \ (loose' \cup {DefaultName})
      PROVE  Kept(new, name) = Kept(Loaded(<<>>, file), name)
  <2>1. name # DefaultName
    BY <1>4
  <2>2. CASE About(file, name) = {}
    <3>1. ~Listed(new, name)
      BY <1>2, <1>4, <2>2 DEF About
    <3>2. Kept(new, name) = {}
      BY <3>1 DEF Listed, Kept
    <3> DEFINE read == Loaded(<<>>, file)
    <3>3. \A e : e.name = name => e \notin Elements(read)
      BY <1>1, <2>1, <2>2, LoadedSets, EmptyList
    <3> HIDE DEF read
    <3>4. Kept(read, name) = {}
      BY <3>3, KeptElements
    <3> QED
      BY <3>2, <3>4 DEF read
  <2>3. CASE About(file, name) # {}
    <3>1. PICK k \in About(file, name) :
            \A ops \in Lists : \A e : e.name = name =>
                           (e \in Elements(Loaded(ops, file)) <=> e = AsRead(file[k]))
      BY <1>1, <2>1, <2>3, LoadedSets
    <3>2. \A ops \in Lists : \A e : e.name = name =>
            (e \in Elements(Loaded(ops, file)) <=> e \in Elements(Loaded(<<>>, file)))
      BY <3>1, EmptyList
    <3>3. \A e : e.name = name => (e \in Elements(new) <=> e \in Elements(Loaded(<<>>, file)))
      BY <1>1, <3>2
    <3> HIDE DEF new
    <3> QED
      BY <3>3, KeptElements
  <2> QED
    BY <2>2, <2>3
<1> HIDE DEF new
<1>5. SurvivesRestart'
  BY <1>2, <1>4 DEF SurvivesRestart, FoundAgain
<1>6. changes' \in 0 .. MaxChanges /\ loose' \subseteq Names \cup {DefaultName}
  BY <1>1, <1>2 DEF TypeOK
<1> QED
  BY <1>1, <1>2, <1>3, <1>5, <1>6, WatchedIsRemembered, ListChanged

(* Every step.                                                             *)
LEMMA NextPreserves == IInv /\ [Next]_vars => IInv'
<1> SUFFICES ASSUME IInv, [Next]_vars PROVE IInv'
  OBVIOUS
<1>1. TypeOK /\ UnderCeiling
  BY DEF IInv
<1>2. ASSUME NEW by \in Names, NEW access \in Powers(by), Command(by, access), Watched(by)
      PROVE  IInv'
  <2>1. Remembered /\ (StaysCapped => Capped)
    BY <1>1, <1>2, WatchedIsRemembered
  <2>2. /\ AccountLevel(by) \in Nat
        /\ Capped /\ by # DefaultName => AccountLevel(by) <= ceiling
    BY <1>1, AccountLevelIs
  <2>3. CASE AddOp(by, access)
    BY <1>2, <2>3, AddOpKeeps
  <2>4. CASE EditOp(by, access)
    BY <1>2, <2>4, EditOpKeeps
  <2>5. CASE DeleteOp(by, access)
    BY <1>2, <2>5, DeleteOpKeeps
  <2>6. CASE SetLogin(by, access)
    BY <1>2, <2>6, SetLoginKeeps
  <2>7. CASE Login(by, access)
    <3>1. DOMAIN players' = DOMAIN players
      BY <2>7 DEF Login
    <3>2. \A n \in DOMAIN players' :
             players'[n] = players[n] \/ (n = by /\ players'[n] = AccountLevel(by))
      BY <2>7 DEF Login
    <3>3. StaysCapped => PlayersWithin(players', ceiling)
      BY <1>1, <2>1, <2>2, <3>1, <3>2 DEF PlayersWithin, UnderCeiling
    <3> QED
      BY <1>1, <2>1, <2>2, <2>7, <3>1, <3>2, <3>3, ListUnchanged DEF Login, UnchangedList, TypeOK
  <2>8. CASE Logout(by, access)
    <3>1. DOMAIN players' = DOMAIN players
      BY <2>8 DEF Logout
    <3>2. \A n \in DOMAIN players' : players'[n] \in {players[n], Player}
      BY <2>8 DEF Logout
    <3>3. StaysCapped => PlayersWithin(players', ceiling)
      BY <1>1, <2>1, <3>1, <3>2 DEF PlayersWithin, UnderCeiling, TypeOK, Player
    <3> QED
      BY <1>1, <2>1, <2>8, <3>1, <3>2, <3>3, ListUnchanged
        DEF Logout, UnchangedList, TypeOK, Player
  <2>9. CASE Limit(by, access)
    <3>1. lowestLevel' \in Player .. Owner
      BY <2>9, OperatorsAssumption DEF Limit, Player, Owner
    <3>2. StaysCapped => PlayersWithin(players', ceiling)
      BY <1>1, <2>1, <2>9 DEF UnderCeiling, Limit
    <3> QED
      BY <1>1, <2>1, <2>9, <3>1, <3>2, ListUnchanged DEF Limit, UnchangedList, TypeOK
  <2>10. CASE Save(by, access)
    BY <2>1, <2>10, SaveOperatorsKeeps DEF Save
  <2>11. CASE Read(by, access)
    BY <1>2, <2>11, ReadKeeps
  <2> QED
    BY <1>2, <2>3, <2>4, <2>5, <2>6, <2>7, <2>8, <2>9, <2>10, <2>11 DEF Command
<1>3. ASSUME UNCHANGED usurped PROVE Remembered /\ (StaysCapped => Capped)
  BY <1>1, <1>3, Zenon DEF TypeOK, Remembered, StaysCapped, Capped
<1>4. CASE SaveOperators /\ UNCHANGED usurped
  BY <1>3, <1>4, SaveOperatorsKeeps
<1>5. CASE Restart /\ UNCHANGED usurped
  BY <1>3, <1>5, RestartKeeps
<1>6. CASE Enter /\ UNCHANGED usurped
  <2>1. PICK name \in Names \ DOMAIN players :
          players' = [n \in DOMAIN players \cup {name} |->
                          CASE n # name -> players[n]
                            [] n = name /\ billerOnline -> AccountLevel(name)
                            [] n = name /\ ~billerOnline -> Player]
    BY <1>6 DEF Enter
  <2>2. /\ AccountLevel(name) \in Nat
        /\ Capped /\ name # DefaultName => AccountLevel(name) <= ceiling
    BY <1>1, AccountLevelIs
  <2>3. /\ DOMAIN players' = DOMAIN players \cup {name}
        /\ \A n \in DOMAIN players' :
              \/ n \in DOMAIN players /\ players'[n] = players[n]
              \/ n = name /\ players'[n] \in {AccountLevel(name), Player}
    BY <1>1, <2>1 DEF TypeOK
  <2>4. StaysCapped => PlayersWithin(players', ceiling)
    BY <1>1, <1>3, <1>6, <2>2, <2>3 DEF PlayersWithin, UnderCeiling, TypeOK, Player
  <2> QED
    BY <1>1, <1>3, <1>6, <2>2, <2>3, <2>4, ListUnchanged DEF Enter, UnchangedList, TypeOK, Player
<1>7. CASE Leave /\ UNCHANGED usurped
  <2>1. /\ DOMAIN players' \subseteq DOMAIN players
        /\ \A n \in DOMAIN players' : players'[n] = players[n]
    BY <1>7 DEF Leave
  <2>2. StaysCapped => PlayersWithin(players', ceiling)
    BY <1>1, <1>3, <1>7, <2>1 DEF PlayersWithin, UnderCeiling
  <2> QED
    BY <1>1, <1>3, <1>7, <2>1, <2>2, ListUnchanged DEF Leave, UnchangedList, TypeOK
<1>8. CASE NewSession /\ UNCHANGED usurped
  <2>1. DOMAIN players' = {}
    BY <1>8 DEF NewSession
  <2>2. StaysCapped => PlayersWithin(players', ceiling)
    BY <2>1 DEF PlayersWithin
  <2> QED
    BY <1>1, <1>3, <1>8, <2>1, <2>2, ListUnchanged DEF NewSession, UnchangedList, TypeOK
<1>9. CASE UNCHANGED vars
  <2>1. UNCHANGED usurped /\ UNCHANGED players
    BY <1>9 DEF vars
  <2>2. StaysCapped => PlayersWithin(players', ceiling)
    BY <1>1, <1>3, <2>1 DEF UnderCeiling
  <2> QED
    BY <1>1, <1>3, <1>9, <2>1, <2>2, ListUnchanged DEF vars, TypeOK
<1> QED
  BY <1>2, <1>4, <1>5, <1>6, <1>7, <1>8, <1>9 DEF Next, Watched

(* The invariant that the three below are parts of.                        *)
THEOREM Invariance == Spec => []IInv
<1> QED
  BY InitEstablishes, NextPreserves, PTL DEF Spec

(* However often the file is read, and whatever it contains, a name is     *)
(* listed once (gotOperator), so that findOperator() means one account.    *)
THEOREM TypeCorrect == Spec => []TypeOK
<1>1. IInv => TypeOK
  BY DEF IInv
<1> QED
  BY Invariance, <1>1, PTL

(* Operators who are no Owners raise nobody, themselves included, above    *)
(* the most senior of them (gotCommand for addop, editop, login; the file  *)
(* and a restart bring nothing higher back), until somebody with the name  *)
(* of the default entry, whom handlePlayerEntering() gives its level,      *)
(* gives a command.                                                        *)
THEOREM CeilingHolds == Spec => []Ceiling
<1>1. IInv => Ceiling
  <2> SUFFICES ASSUME IInv, ceiling < Owner, ~usurped
               PROVE  /\ \A k \in DOMAIN operators : \/ operators[k].name = DefaultName
                                                     \/ operators[k].access <= ceiling
                      /\ \A n \in DOMAIN players : n = DefaultName \/ players[n] <= ceiling
    BY DEF Ceiling
  <2> QED
    BY DEF IInv, UnderCeiling, Capped, PlayersWithin, Within, Elements
<1> QED
  BY Invariance, <1>1, PTL

(* What is not marked as to be written is in the file: a restart finds the *)
(* accounts (saveOperators, loadOperators), their passwords as far as a    *)
(* line of the file can hold them, but for the loose ones.                 *)
THEOREM RestartSurvived == Spec => []SurvivesRestart
<1>1. IInv => SurvivesRestart
  BY DEF IInv
<1> QED
  BY Invariance, <1>1, PTL
=============================================================================
