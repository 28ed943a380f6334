----------------------------- MODULE Operators -----------------------------
(***************************************************************************)
(* The operators database (Core/BotDb.cpp), the commands that change it    *)
(* (Core/CoreCmd.cpp) and the powers of the players of one Host.           *)
(*                                                                         *)
(* The list of operators is ordered by level when entries are added; the   *)
(* file is read at the start and by !read, and written by !save, and by    *)
(* the main program (external: on a timer, and when it ends).  Names stand *)
(* for names in lower case; "default unknown", the name of the default     *)
(* entry, is a name that a player may have.  A line of the file is an      *)
(* entry as it was written; of its password, reading leaves what Cut says. *)
(* Commands come from players of the arena, with the powers they have      *)
(* there, or in remote messages, with those of the sender's account        *)
(* (RemoteOperator is on, as it is by default).  Whom !login lets in is    *)
(* left to the player: he is refused or not.  The counters of logins are   *)
(* left out.                                                               *)
(***************************************************************************)
EXTENDS Integers, Sequences, FiniteSetsExt, Sublists

CONSTANTS
    Names,         \* of players
    DefaultName,   \* the name of the default entry
    Passwords,     \* other than the empty one
    Cut,           \* splitFirst(): a password up to its first colon, without
                   \* the white space around it
    AskedLevels,   \* the levels commands ask for
    InitialFiles,  \* what Operators.txt may contain at first
    RunSilent,     \* of the .ini file
    MaxChanges     \* bound on the changes of the list

NoPassword == "no password"
Player == 0  Limited == 1  Moderator == 2  SuperModerator == 3  SysOp == 4
Owner  == 5  God == 12     Unknown == 13

Entries == [name : Names \cup {DefaultName}, pass : Passwords \cup {NoPassword},
            access : Nat]
OpEntry(name, pass, access) == [name |-> name, pass |-> pass, access |-> access]

ASSUME OperatorsAssumption ==
    /\ NoPassword \notin Passwords
    /\ Cut \in [Passwords -> Passwords \cup {NoPassword}]
    /\ \A pass \in Passwords : Cut[pass] \in Passwords => Cut[Cut[pass]] = Cut[pass]
    /\ AskedLevels \subseteq Nat /\ MaxChanges \in Nat /\ RunSilent \in BOOLEAN
    /\ InitialFiles \subseteq Seq([name : Names, access : Nat,
                                   pass : Passwords \cup {NoPassword}])

VARIABLES
    operators,        \* the list
    operatorsUpdated, \* it is to be written
    file,             \* Operators.txt
    players,          \* the access of the players in the arena
    lowestLevel,      \* the limiter of the Host
    billerOnline,
    changes,          \* how often a command has changed the list
    ceiling,          \* history: the highest level there was to begin with
    loose,            \* history: the accounts changed without a mark, or whose
                      \* mark a reload took away
    usurped           \* history: somebody with the name of the default entry
                      \* has given a command

vars == <<operators, operatorsUpdated, file, players, lowestLevel, billerOnline,
          changes, ceiling, loose, usurped>>
-----------------------------------------------------------------------------
(* The list.                                                               *)
Found(ops, name) == {k \in DOMAIN ops : ops[k].name = name}
FindOperator(ops, name) == ops[CHOOSE k \in Found(ops, name) : TRUE]
Listed(ops, name) == Found(ops, name) # {}

(* addOperator(): before the first entry of a lower level.                 *)
AddOperator(ops, op) ==
    LET lower == {k \in DOMAIN ops : ops[k].access < op.access}
        place == Min(lower \cup {Len(ops) + 1})
    IN  SubSeq(ops, 1, place - 1) \o <<op>> \o SubSeq(ops, place, Len(ops))

RemoveOperator(ops, name) == Sublist(ops, DOMAIN ops \ Found(ops, name))

SetAccess(ops, name, access) ==
    [k \in DOMAIN ops |-> IF ops[k].name = name
                          THEN [ops[k] EXCEPT !.access = access] ELSE ops[k]]

SetPassword(ops, name, pass) ==
    [k \in DOMAIN ops |-> IF ops[k].name = name
                          THEN [ops[k] EXCEPT !.pass = pass] ELSE ops[k]]

ValidLine(line) == line.access \in Limited..God

WithDefault(ops) ==
    IF Listed(ops, DefaultName) THEN ops
    ELSE AddOperator(ops, OpEntry(DefaultName, NoPassword, Unknown))

(* The entry that a line is read as.                                       *)
AsRead(line) ==
    [line EXCEPT !.pass = IF @ = NoPassword THEN NoPassword ELSE Cut[@]]

(* Mutant of GotOperator: every line is a new entry.                       *)
GotOperator_Adds(ops, line) ==
    IF ValidLine(line) THEN WithDefault(AddOperator(ops, AsRead(line))) ELSE ops

GotOperator(ops, line) ==
    CASE ~ValidLine(line) -> ops
      [] ValidLine(line) /\ ~Listed(ops, line.name) ->
            WithDefault(AddOperator(ops, AsRead(line)))
      [] ValidLine(line) /\ Listed(ops, line.name) ->
            WithDefault(SetPassword(SetAccess(ops, line.name, line.access),
                                    line.name, AsRead(line).pass))

(* readDataLines() of the file: the list after each line.                  *)
LoadedUpTo(ops, lines) ==
    LET after[k \in 0..Len(lines)] ==
            IF k = 0 THEN ops ELSE GotOperator(after[k - 1], lines[k])
    IN  after

Loaded(ops, lines) == LoadedUpTo(ops, lines)[Len(lines)]
-----------------------------------------------------------------------------
(* Who gives a command, and with which powers: gotCommand() with its       *)
(* limiter, and gotRemoteCommand().                                        *)
AccountLevel(name) == IF Listed(operators, name)
                      THEN FindOperator(operators, name).access ELSE Player

PassesLimiter(name, access) == \/ access >= lowestLevel
                               \/ /\ Listed(operators, name)
                                  /\ AccountLevel(name) >= lowestLevel

(* The powers with which somebody's commands are carried out: those he has *)
(* in the arena, and those of a remote message.                            *)
Powers(name) ==
    {access \in {players[n] : n \in DOMAIN players \cap {name}} :
        PassesLimiter(name, access)}
    \cup {access \in {IF billerOnline THEN AccountLevel(name) ELSE Player} :
        access >= lowestLevel}

(* gotCommand() by somebody of at least this level.  Unknown, the level of *)
(* the default entry, is one of those that may do everything; the levels   *)
(* beyond it, which !addop and !editop grant too, may do nothing.          *)
Ordered(name, access, level) == access \in Powers(name) /\ access \in level..Unknown

Change(ops) == /\ changes < MaxChanges /\ changes' = changes + 1
               /\ operators' = ops
               /\ UNCHANGED <<file, players, lowestLevel, billerOnline, ceiling>>

(* A change that does not set operatorsUpdated.                            *)
Unmarked(name) ==
    /\ loose' = IF operatorsUpdated THEN loose ELSE loose \cup {name}
    /\ UNCHANGED operatorsUpdated

(* !addop <name> [-l <level>] [-p <password>]: the level is below the one  *)
(* of the operator, unless he is an Owner.  The password goes to the last  *)
(* entry of the list, which addOperator() returns; a level without a       *)
(* description ends the command before.                                    *)
Granted(access, asked) ==
    IF asked >= access /\ access < Owner THEN access - 1 ELSE asked

AddOp(by, access) ==
    \E name \in Names, level \in {Moderator} \cup
            {Granted(access, asked) : asked \in AskedLevels},
       pass \in Passwords \cup {NoPassword} :
        LET added == AddOperator(operators, OpEntry(name, NoPassword, level))
            last  == added[Len(added)].name
        IN  /\ Ordered(by, access, SuperModerator)
            /\ ~Listed(operators, name)
            /\ level > Unknown => pass = NoPassword
            /\ Change(IF pass = NoPassword THEN added
                      ELSE SetPassword(added, last, pass))
            /\ operatorsUpdated' = TRUE
            /\ UNCHANGED loose

(* Mutant of MayEdit: a SysOp promotes as he likes.                        *)
MayEdit_Promotes(access, op, asked) == op.access < access \/ access >= Owner

(* Neither peers nor seniors, nor above one's own level.                   *)
MayEdit(access, op, asked) == \/ op.access < access /\ asked <= access
                              \/ access >= Owner

(* !editop <name> [-l <level>] [-p [<password>]]                           *)
EditOp(by, access) ==
    /\ Ordered(by, access, SuperModerator)
    /\ \E k \in DOMAIN operators :
         LET op == operators[k]
         IN  \E asked \in AskedLevels \cup {op.access},
                pass \in Passwords \cup {NoPassword, op.pass} :
                /\ MayEdit(access, op, asked)
                /\ asked > Unknown => pass = op.pass
                /\ Change(SetPassword(SetAccess(operators, op.name, asked),
                                      op.name, pass))
                /\ Unmarked(op.name)

(* Mutant of DeleteOp: the change is not marked.                           *)
DeleteOp_Unmarked(by, access) ==
    /\ Ordered(by, access, SuperModerator)
    /\ \E k \in DOMAIN operators :
         /\ operators[k].access < access \/ access >= Owner
         /\ Change(RemoveOperator(operators, operators[k].name))
         /\ UNCHANGED <<operatorsUpdated, loose>>

(* !deleteop <name>: an Owner may delete his own account if his name is    *)
(* spelled otherwise in the list, as that of everybody else is by !addop.  *)
DeleteOp(by, access) ==
    /\ Ordered(by, access, SuperModerator)
    /\ \E k \in DOMAIN operators :
         /\ operators[k].access < access \/ access >= Owner
         /\ Change(RemoveOperator(operators, operators[k].name))
         /\ operatorsUpdated' = TRUE
         /\ UNCHANGED loose
-----------------------------------------------------------------------------
(* A new process: the list is read anew.                                   *)
Restart ==
    /\ operators' = Loaded(<<>>, file)
    /\ operatorsUpdated' = FALSE
    /\ players' = <<>> /\ billerOnline' = TRUE
    /\ lowestLevel' = IF RunSilent THEN Owner ELSE Player
    /\ loose' = {}
    /\ UNCHANGED <<file, changes, ceiling>>

(* !setlogin [<password>]: without an account, a write through null.       *)
SetLogin(by, access) ==
    /\ Ordered(by, access, Moderator)
    /\ IF Listed(operators, by)
       THEN /\ \E pass \in Passwords \cup {NoPassword} :
                  Change(SetPassword(operators, by, pass))
            /\ Unmarked(by)
       ELSE Restart

UnchangedList == UNCHANGED <<operators, operatorsUpdated, file, changes, loose>>

(* !login, by a player of the arena; refused while the biller is down.     *)
Login(by, access) ==
    /\ billerOnline
    /\ by \in DOMAIN players /\ access = players[by]
    /\ Ordered(by, access, Player) /\ Listed(operators, by)
    /\ players' = [players EXCEPT ![by] = AccountLevel(by)]
    /\ UnchangedList /\ UNCHANGED <<lowestLevel, billerOnline, ceiling>>

(* !logout                                                                 *)
Logout(by, access) ==
    /\ by \in DOMAIN players /\ access = players[by]
    /\ Ordered(by, access, Moderator)
    /\ players' = [players EXCEPT ![by] = Player]
    /\ UnchangedList /\ UNCHANGED <<lowestLevel, billerOnline, ceiling>>

(* !limit <level>                                                          *)
Limit(by, access) ==
    /\ Ordered(by, access, SuperModerator)
    /\ \E asked \in AskedLevels :
         /\ (IF asked > Owner THEN Owner ELSE asked) <= access
         /\ lowestLevel' = IF asked > Owner THEN Owner ELSE asked
    /\ UnchangedList /\ UNCHANGED <<players, billerOnline, ceiling>>

(* saveOperators().  The file may not be writable.                         *)
SaveOperators ==
    /\ operatorsUpdated
    /\ file' = RemoveOperator(operators, DefaultName)
    /\ operatorsUpdated' = FALSE
    /\ loose' = {}
    /\ UNCHANGED <<operators, players, lowestLevel, billerOnline, changes, ceiling>>

(* !save                                                                   *)
Save(by, access) == Ordered(by, access, Owner) /\ SaveOperators

(* !read: loadOperators() merges the file into the list.                   *)
Read(by, access) ==
    /\ Ordered(by, access, Owner)
    /\ operators' = Loaded(operators, file)
    /\ operatorsUpdated' = FALSE
    /\ loose' = {name \in Names \cup {DefaultName} :
                   /\ Listed(operators', name)
                   /\ \A k \in DOMAIN file :
                         file[k].name = name => ~ValidLine(file[k])}
    /\ UNCHANGED <<file, players, lowestLevel, billerOnline, changes, ceiling>>

(* handlePlayerEntering(): no powers while the biller is down.  A password *)
(* that is empty is valid for every account, the default entry included.   *)
Enter ==
    \E name \in Names \ DOMAIN players :
        /\ players' = [n \in DOMAIN players \cup {name} |->
                          CASE n # name -> players[n]
                            [] n = name /\ billerOnline -> AccountLevel(name)
                            [] n = name /\ ~billerOnline -> Player]
        /\ UnchangedList /\ UNCHANGED <<lowestLevel, billerOnline, ceiling>>

(* handlePlayerLeaving(), killPlayer()                                     *)
Leave ==
    \E name \in DOMAIN players :
        /\ players' = [n \in DOMAIN players \ {name} |-> players[n]]
        /\ UnchangedList /\ UNCHANGED <<lowestLevel, billerOnline, ceiling>>

(* resetSession(), resetArena(), and a login with the biller up or down.   *)
NewSession ==
    /\ players' = <<>> /\ billerOnline' \in BOOLEAN
    /\ UnchangedList /\ UNCHANGED <<lowestLevel, ceiling>>
-----------------------------------------------------------------------------
Init ==
    /\ file \in InitialFiles
    /\ operators = Loaded(<<>>, file) /\ operatorsUpdated = FALSE
    /\ players = <<>> /\ billerOnline = TRUE
    /\ lowestLevel = IF RunSilent THEN Owner ELSE Player
    /\ changes = 0 /\ loose = {} /\ usurped = FALSE
    /\ LET levels == {Limited} \cup {file[k].access : k \in DOMAIN file}
       IN  ceiling \in levels /\ \A level \in levels : level <= ceiling

Command(by, access) ==
    \/ AddOp(by, access) \/ EditOp(by, access) \/ DeleteOp(by, access)
    \/ SetLogin(by, access) \/ Login(by, access) \/ Logout(by, access)
    \/ Limit(by, access) \/ Save(by, access) \/ Read(by, access)

Next ==
    \/ \E by \in Names : \E access \in Powers(by) :
          Command(by, access) /\ usurped' = (usurped \/ by = DefaultName)
    \/ /\ SaveOperators \/ Restart \/ Enter \/ Leave \/ NewSession
       /\ UNCHANGED usurped

Spec == Init /\ [][Next]_vars
-----------------------------------------------------------------------------
(* Every variable has its type, and a name is listed once, however often   *)
(* the file is read and whatever it contains (findOperator finds one).     *)
TypeOK ==
    /\ operators \in Seq(Entries) /\ file \in Seq(Entries)
    /\ \A j, k \in DOMAIN operators : operators[j].name = operators[k].name => j = k
    /\ operatorsUpdated \in BOOLEAN /\ billerOnline \in BOOLEAN
    /\ DOMAIN players \subseteq Names /\ \A n \in DOMAIN players : players[n] \in Nat
    /\ lowestLevel \in Player..Owner
    /\ changes \in 0..MaxChanges /\ ceiling \in Nat
    /\ loose \subseteq Names \cup {DefaultName} /\ usurped \in BOOLEAN

(* As long as there is no Owner, no account and no player ever gets above  *)
(* the level of the most senior operator there was to begin with, whoever  *)
(* adds, promotes, demotes and deletes whom, in whatever order (addop,     *)
(* editop, login) - unless somebody with the name of the default entry,    *)
(* who is above everybody, gives a command.                                *)
Ceiling ==
    ceiling < Owner /\ ~usurped =>
        /\ \A k \in DOMAIN operators : \/ operators[k].name = DefaultName
                                       \/ operators[k].access <= ceiling
        /\ \A n \in DOMAIN players : n = DefaultName \/ players[n] <= ceiling

(* What a new process would read of an account, for a level that is read.  *)
Kept(ops, name) ==
    {AsRead(ops[k]) : k \in {i \in Found(ops, name) : ValidLine(ops[i])}}

(* A new process, started now, finds the account as it is, with what the   *)
(* file can hold of its password.                                          *)
FoundAgain(name) == Kept(operators, name) = Kept(Loaded(<<>>, file), name)

(* When nothing is marked as to be written, a new process finds the        *)
(* accounts as they are, added and deleted ones included (saveOperators,   *)
(* loadOperators, gotOperator) - but for those edited without a mark,      *)
(* those whose mark !read took away, and the default entry.                *)
SurvivesRestart ==
    ~operatorsUpdated =>
        \A name \in Names \ (loose \cup {DefaultName}) : FoundAgain(name)
=============================================================================
