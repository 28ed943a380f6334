------------------------------ MODULE Plugins ------------------------------
(***************************************************************************)
(* One Host and its plugins: the libraries that are loaded and unloaded    *)
(* while the bot runs (Core/BotStore.cpp), the events the Host raises for  *)
(* them (Interface/Observable.ixx, SpawnBase.ixx), and the relays of the   *)
(* Discord plugin that live on these events.                               *)
(*                                                                         *)
(* An event goes to every handler that was ever registered with the Host:  *)
(* none is taken back.  So each Init reaches the plugins that had one, and *)
(* a library that is really freed leaves handlers behind, whose call takes *)
(* the process down.  It is really freed when no slot and no other Host of *)
(* the process has it loaded (shared: another Host has).  Other plugins    *)
(* are external; they handle events and keep to themselves.                *)
(***************************************************************************)
EXTENDS Relay, FiniteSets

CONSTANTS
    Discord,          \* the library of the Discord plugin
    Others,           \* other plugins
    Missing,          \* a file name for which there is no library
    DllMaxLoaded,
    InitialLibraries, \* the lists of libraries a Host may start with
    MaxRelays,        \* bound on the relays
    MaxAsked          \* bound on the arena logins under way

Libraries == {Discord} \cup Others
Empty     == "empty"
Nowhere   == "nowhere"
Slots     == 1..DllMaxLoaded

(* A line of libraries names at least one file, if it is empty a Missing   *)
(* one.                                                                    *)
ASSUME PluginsAssumption ==
    /\ DllMaxLoaded \in Nat /\ MaxRelays \in Nat /\ MaxAsked \in Nat
    /\ Missing \notin Libraries /\ Empty \notin Libraries
    /\ InitialLibraries \subseteq Seq({Missing} \cup Libraries) \ {<<>>}

VARIABLES
    host,    \* the Host with its BotStore and its spawns
    shared   \* another Host of the process has the same libraries loaded

vars == <<host, shared>>

Hosts ==
    [state   : {"up", "removed", "crashed"},
     killMe  : BOOLEAN,
     inArena : BOOLEAN,
     arena   : Arenas \cup {Nowhere}, \* where the server has the bot
     goal    : Arenas,                \* botInfo.initialArena
     asked   : Seq(Arenas),           \* arena logins posted and not answered
     slots   : [Slots -> Libraries \cup {Empty}],
     spawned : SUBSET Libraries,      \* their SpawnList has this Host's spawn
     freed   : SUBSET Libraries,      \* freed, with handlers left behind
     blocked : BOOLEAN,               \* tick counter blockListmodsReply
     relays  : Seq(Relays)]           \* the TransferSToD of getModules()
-----------------------------------------------------------------------------
(* Raising an event: what it does to the host if all its handlers still    *)
(* exist.                                                                  *)
Raised(h, handled) ==
    CASE h.state # "up" -> h
      [] h.state = "up" /\ h.freed # {} -> [h EXCEPT !.state = "crashed"]
      [] h.state = "up" /\ h.freed = {} -> handled

(* Init: every spawn of the Discord plugin creates its modules.            *)
RaiseInit(h) ==
    Raised(h, [h EXCEPT !.relays =
                   IF Discord \in h.spawned THEN Append(@, NewRelay) ELSE @])

RaiseArenaEnter(h) ==
    Raised(h, [h EXCEPT !.relays = [k \in DOMAIN @ |->
                                       HandleArenaEnter(@[k], h.goal)],
                        !.blocked = h.relays # <<>>])

RaiseArenaLeave(h) == Raised(h, h)

(* Leaving an arena the bot is in.                                         *)
Leave(h) == IF h.inArena THEN RaiseArenaLeave(h) ELSE h

(* Mutant of RaiseTerm: the modules do not send what they have.            *)
RaiseTerm_KeepsLines(h) == Raised(h, h)

(* Term: handleBotEventTerm closes all modules.                            *)
RaiseTerm(h) ==
    Raised(h, [h EXCEPT !.relays = [k \in DOMAIN @ |->
                                       FlushArenaMessages(@[k])]])

(* importLibrary(), for one name.                                          *)
ImportOne(h, lib) ==
    LET open == {s \in Slots : h.slots[s] = Empty}
        slot == CHOOSE s \in open : \A t \in open : s <= t
        load == [h EXCEPT !.slots[slot] = lib]
        init == RaiseInit([load EXCEPT !.spawned = @ \cup {lib}])
    IN  CASE h.state # "up" -> h
          [] h.state = "up" /\ open = {} -> [h EXCEPT !.killMe = TRUE]
          [] h.state = "up" /\ open # {} /\ lib = Missing ->
                [h EXCEPT !.state = "crashed"]   \* a call of createSpawn = null
          [] h.state = "up" /\ open # {} /\ lib \in h.spawned ->
                [load EXCEPT !.killMe = TRUE]    \* SpawnList::create throws
          [] h.state = "up" /\ open # {} /\ lib \in Libraries \ h.spawned ->
                IF h.inArena THEN RaiseArenaEnter(init) ELSE init

(* importLibrary(): the names behind the first are imported before it,     *)
(* unless they are just that name again.                                   *)
ImportLibrary(h, names) ==
    LET all  == Len(names)
        last == IF all > 1 /\ names[all - 1] = names[all] THEN all - 1 ELSE all
        after[k \in 0..last] ==
            IF k = 0 THEN h ELSE ImportOne(after[k - 1], names[last + 1 - k])
    IN  after[last]

(* clearImport(): FreeLibrary frees the code when nobody else has it.      *)
ClearImport(h, slot) ==
    LET t    == RaiseTerm(h)
        lib  == h.slots[slot]
        gone == IF shared \/ \E s \in Slots \ {slot} : h.slots[s] = lib
                THEN {} ELSE {lib}
    IN  IF lib = Empty \/ t.state # "up" THEN t
        ELSE [t EXCEPT !.slots[slot] = Empty, !.freed = @ \cup gone,
                       !.spawned = @ \ gone]

ClearImports(h) ==
    LET after[s \in 0..DllMaxLoaded] ==
            IF s = 0 THEN h ELSE LET t == after[s - 1] IN
               IF t.slots[s] = Empty THEN t ELSE ClearImport(t, s)
    IN  after[DllMaxLoaded]
-----------------------------------------------------------------------------
(* The steps.  Every one is taken by a Host that is up and not marked for  *)
(* removal, but for the removal itself.                                    *)
Step(h) == /\ host.state = "up" /\ ~host.killMe
           /\ host' = h
           /\ UNCHANGED shared

(* !load <names>                                                           *)
Load ==
    \E names \in [1..1 -> Libraries \cup {Missing}] :
        /\ Len(host.relays) < MaxRelays
        /\ Step(ImportLibrary(host, names))

(* !unload <slot>, !unload all                                             *)
Unload ==
    \/ \E slot \in Slots : /\ host.slots[slot] # Empty
                           /\ Step(ClearImport(host, slot))
    \/ Step(ClearImports(host))

(* !go <arena>, or the event ChangeArena of a plugin.                      *)
ChangeArena ==
    \E a \in Arenas :
        /\ host.arena # Nowhere /\ Len(host.asked) < MaxAsked
        /\ Step([Leave(host) EXCEPT !.inArena = FALSE, !.goal = a,
                                    !.asked = Append(@, a)])

(* The server lets the bot in.  The event names the arena that was asked   *)
(* for last, which need not be this one.                                   *)
EnterArena ==
    /\ host.asked # <<>>
    /\ Step(RaiseArenaEnter([host EXCEPT !.arena = Head(host.asked),
                                         !.asked = Tail(@)]))

(* The synchronization packet may be one of the arena before.              *)
Synchronize ==
    /\ host.arena # Nowhere /\ ~host.inArena
    /\ Step([host EXCEPT !.inArena = TRUE])

(* gotDisconnect(), or the silence timeout: no event is raised.  The login *)
(* of the next session asks for the arena again.                           *)
Lost(h) == [h EXCEPT !.inArena = FALSE, !.arena = Nowhere, !.asked = <<h.goal>>]

LoseSession == host.arena # Nowhere /\ Step(Lost(host))

(* restartAll(), by !restart.                                              *)
RestartAll == Step(Lost(Leave(host)))

(* The arenas the bot is in or has asked for.                              *)
Near(h) == {h.arena} \cup {h.asked[i] : i \in DOMAIN h.asked}

(* A line of chat arrives: the event Chat.                                 *)
Say(mode, kind) ==
    /\ host.arena # Nowhere
    /\ mode = "chat" => kind \in {"text", "blank"}
    /\ \A k \in DOMAIN host.relays : Taken(host.relays[k]) < MaxLines
    /\ Step(Raised(host, [host EXCEPT !.relays = [k \in DOMAIN @ |->
               HandleChat(@[k], mode, kind, host.blocked, Near(host))]]))

(* doEvents(), once a second: the event Tick, first for the tick counters, *)
(* then for the modules.                                                   *)
Tick ==
    Step(Raised(host, [host EXCEPT !.blocked = FALSE,
             !.relays = [k \in DOMAIN @ |-> TryFlush(@[k])]]))

(* disconnect(), by !close or the event Exit of a plugin.                  *)
Close == Step([Leave(host) EXCEPT !.killMe = TRUE])

Exit == Step([host EXCEPT !.killMe = TRUE])

(* HostList::doEvents(): shutdown() of a host that is marked.  The Host    *)
(* sends its farewell only if it was not marked, so ArenaLeave is raised   *)
(* by Close alone.                                                         *)
Remove ==
    LET h == ClearImports(host)
    IN  /\ host.state = "up" /\ host.killMe
        /\ host' = IF h.state = "up" THEN [h EXCEPT !.state = "removed"] ELSE h
        /\ UNCHANGED shared
-----------------------------------------------------------------------------
Init ==
    /\ shared \in BOOLEAN
    /\ \E names \in InitialLibraries, a \in Arenas :
          host = ImportLibrary(
                    [state |-> "up", killMe |-> FALSE, inArena |-> FALSE,
                     arena |-> Nowhere, goal |-> a, asked |-> <<a>>,
                     slots |-> [s \in Slots |-> Empty], spawned |-> {},
                     freed |-> {}, blocked |-> FALSE, relays |-> <<>>],
                    names)

Next ==
    \/ Load \/ Unload \/ ChangeArena \/ EnterArena \/ Synchronize
    \/ LoseSession \/ RestartAll \/ Tick \/ Close \/ Exit \/ Remove
    \/ \E mode \in Modes, kind \in Kinds : Say(mode, kind)

Spec == Init /\ [][Next]_vars

(* doEvents() comes again and again, raises Tick every second, and         *)
(* HostList::doEvents() removes what is marked.                            *)
Fairness == WF_vars(Tick) /\ WF_vars(Remove)

FairSpec == Spec /\ Fairness
-----------------------------------------------------------------------------
TypeOK == host \in Hosts /\ shared \in BOOLEAN

(* A relay of the host, seen as an OrderedRelay: it is held while a table  *)
(* is being received (tryFlushArenaMessages), and when nobody can drive it *)
(* any more.                                                               *)
TheRelay(n) == IF n \in DOMAIN host.relays THEN host.relays[n] ELSE NewRelay

First == INSTANCE OrderedRelay WITH
    taken    <- Taken(TheRelay(1)),
    released <- TheRelay(1).released,
    held     <- TheRelay(1).started \/ host.state # "up"

Second == INSTANCE OrderedRelay WITH
    taken    <- Taken(TheRelay(2)),
    released <- TheRelay(2).released,
    held     <- TheRelay(2).started \/ host.state # "up"

(* Every line a relay takes leaves it once and in order - arena messages   *)
(* collected for a table are not overtaken by public ones - and no later   *)
(* than the end of the table, a tick, or the end of the plugin             *)
(* (sendMessage, processArenaMessages, flushArenaMessages).  Each relay    *)
(* does so for itself: where there are two, a line leaves twice.           *)
RelaysInOrder == First!FairSpec /\ Second!FairSpec

(* A line leaves for the channel of an arena the bot was in or had asked   *)
(* for when it was said, or has entered while it waited, and is dropped    *)
(* only if one of these has none; the channel of an arena that the bot had *)
(* left before is never used (setArenaStatus, flushArenaMessages).  It may *)
(* not be the channel of the arena it was said in: setArenaStatus() does   *)
(* not send the lines that wait.                                           *)
ChannelAround ==
    \A k \in DOMAIN host.relays :
        LET r == host.relays[k]
        IN  \A i \in DOMAIN r.released :
               \E arena \in r.around[r.released[i]] : r.shown[i] = ChannelOf(arena)

(* A host that is removed with the plugin loaded leaves no line behind     *)
(* (shutdown, clearImport, closeModules), whatever made it go.             *)
NothingLeftBehind ==
    [][ host.state = "up" /\ host'.state = "removed"
        /\ (\E s \in Slots : host.slots[s] = Discord)
        => \A k \in DOMAIN host'.relays : host'.relays[k].buffer = <<>> ]_vars
=============================================================================
