# MERVBot 2.0: verification of the host core

MERVBot is a program that plays a SubSpace/Continuum client: one process hosts
several bots, each a `Host` object that speaks the UDP game protocol with a
server, keeps a picture of its arena (players, flags, bricks, map), takes
commands by chat and raises events to plugins. This directory holds TLA+
modules of that core, the TLC configurations that check them on small
instances, and proofs that hold for every instance: about the reliable message
layer, the splitting and joining of messages, sessions, outgoing chat, the players, the
flags and the playfield of the arena, the operators and the plugins.

Paths below are relative to `src/source/`; `Host.cpp` is
`MERVBot20Lib/source/Core/Host.cpp`, `ClientProt.ixx` and `SpecialProt.ixx` are
in `.../Client/`, `CoreCmd.cpp`, `BotDb.cpp` and `BotStore.cpp` in `.../Core/`.

## 1. The system

One thread runs `HostList::doEvents`, which calls `Host::doEvents` of each host
in turn; a host polls its socket, runs the handlers of what has arrived, and
then acts on its timers. There are no locks and no two handlers run at once.
What is hard is elsewhere: datagrams are lost, repeated and reordered; handlers
call one another in the middle of a list walk (a reliable message runs its
handler inside `checkReceived`, a chat command may end the session there);
idents are used again; a picture of the arena is kept from announcements of
differing reliability; and what a session leaves behind meets the next one.

| Component | State it keeps | Operations | What makes it correct | Module |
|---|---|---|---|---|
| Reliable messages (Host.cpp 154-413, 1834-1857) | `localStep`, `localSent`, `remoteStep`, lists `sent`, `queued`, `received` | `post(.., true)`, `queue`, `checkSent`, `sendNext`, `sendQueued`, `gotReliable`, `checkReceived`, `sendACK` | every message handled once and in order; nothing acknowledged is forgotten; the window is bounded and never idle while messages wait | `Reliable`, `FifoDelivery`; `ReliableProofs` |
| Clusters, chunks, transfers (Host.cpp 123-278, 1921-2003, Chunk.ixx) | `clustering`, `clustered`, two `ChunkBuffer`s, `ftLength` | `post`, `beginCluster`, `endCluster`, `sendClustered`, `gotCluster`, `gotChunkBody/Tail`, `gotBigChunk`, `gotCancelDownload` | what is split, shared or interleaved comes out whole and in order; datagrams fit | `Transport`; `ReliableProofs` |
| Sessions and login (Host.cpp 1118-1281, 1499-1546, 1722-1765, 1912-2058) | message routers, `connecting`, `killMe`, `inArena`, `numTries` | `connect`, `gotEncryptResponse`, `handlePasswordResponse`, `changeArena`, `handleSynchronization`, `gotDisconnect`, `resetSession`, silence timeout, retry, `!restart`, `!close`, `!go` | one login attempt at a time; no game messages before the login; no session survives into the next; the bot gets back into the arena or gives up | `Session`; `SessionProofs` |
| Outgoing chat (Host.cpp 429-450, 1077-1115) | `chatLog`, `lastChatSend`, `countChatSend`, `hasSysOp` | `tryChat`, `sendNextLoggedChat`, `doChatLog` | no line lost, repeated or overtaken; no flood | `ChatQueue`; `ChatQueueProofs` |
| Players (Host.cpp 911-1061, ClientProt.ixx) | `players`, `playerIds`, `follow`, `limitedOwnerId`, turrets, who is a spectator | entering, leaving, turrets, team and ship changes, position packets, `!own`, `!give`, `!ownbot`, `!follow`, `!login`, `!logout`, `spectateNext` | the picture matches the arena; nothing that named a player who left names his successor; the tracked owner has the powers | `Players`; `PlayersProofs` |
| Flags (Host.cpp 659-702, ClientProt.ixx) | `flags`, `flagCount` and team of each player | seven handlers from claim to victory | listed and counted flags together are those of the arena | `Flags`; `FlagsProofs` |
| Playfield (Playfield.ixx, Host.cpp 573-745, 893-908) | `playfieldTiles`, `gotMap`, `gotTurf`, `loadedFlags`, turf flags, goals, bricks, `balls` | map messages, downloads, turf status, claims, `handleBrickDrop`, `doBrickEvents`, `handleBallPosition`, `doBallEvents`, `resetArena` | turf flags have the right team; a brick stands once, for its time; a ball that is not heard of goes; the map stays as it was read | `Playfield`; `FlagsProofs` |
| Goals, prizes, KoTH, scores | counters | single messages set them | nothing that a test of one message would miss | not modelled |
| Operators and spawns (BotDb.cpp, BotDb.ixx, CoreCmd.cpp 839-1028, 1380, 1522-1600) | ordered list of accounts, `operatorsUpdated`, Operators.txt, limiter | load, merge, add, edit, remove, save; `!login`, `!limit`, `!setlogin` | a name is listed once; nobody but who uses the powers of the default entry rises above the most senior operator; what is marked as changed, and can be written, survives a restart | `Operators`; `OperatorsProofs` |
| Commands (CoreCmd.cpp, Command.ixx) | none of their own | parsing, access check, replies | no command runs below its level | in `Operators`, `Players`, `Session`, `Plugins` with the state they change |
| Plugin interface (BotStore.cpp, SpawnBase.ixx, BotEvent.ixx) | slots of libraries, spawns, handlers | import, clear, events in both directions | a plugin hears of every arena it is in; unloading leaves nothing behind | `Plugins`; `PluginsProofs` |
| Discord plugin (DiscordBot/) | arena message buffer, table state, `m_isInArena`, channel | tick, arena entry, chat, init, term | each relay sends every arena line once, in order, to the channel of an arena around it, and does not hold it for ever (not promised, and not so: to the channel of its own arena, and by one relay only) | `Relay`, `OrderedRelay`, composed in `Plugins` |
| Event loop, clock synchronisation (Host.cpp 1499-1673, 1865-2075) | `timeDiff`, `syncPing`, timers | `doEvents`, `syncClocks`, `gotSyncResponse` | ticks and clocks advance whatever answers are lost | the steps of `doEvents` are actions of the modules above; the clock arithmetic is not modelled |

## 2. The modules

Every module names, in its header and before its definitions, the code it
stands for. Where the code keeps a list in the order of its messages and
nothing depends on the order, the module has a set; histories (what was posted,
what was handled) are marked as such. The server is external everywhere: it is
modelled from the messages the handlers expect. Definitions named
`X_Something` before a definition `X` are mutants: what `X` would be after a
plausible mistake. They show that each property depends on the code.

**Reliable.** One direction of one session. `Post` is `post()` with `queue()`;
`GotACK` with `SendNext` is `gotACK`, `checkSent` and `sendNext`; `SendQueued`
resends any set of overdue messages; `GotReliable` with `CheckReceived` is
`gotReliable` (acknowledge first) and the processing, buffering or dropping.
The network is a set from which copies may be taken any number of times, in any
order, or lost. `Fifo` is an instance of **FifoDelivery**, the promise to the
code above: what was posted is handed over once and in order, perhaps several
messages in a step.

**Transport.** Sender and receiver with the limits of the code (496, 255, 1000,
520 bytes). A message is a number and a length; `Joined` says which message, if
any, the parts in a buffer make. Loss and resending are taken from `Reliable`
in the large: a stamped message that is lost is under way again, by itself.
The two buffers are taken to have room (`LittleLimit`, `LargeLimit`; 1 MB and
5 MB in the code), and the lengths that are too long once they are stamped are
left out (see the end of section 3).

**Session.** The host is one record and every handler a function from hosts to
hosts, because handlers call one another: `GotCluster` composes
`GotSpecialMessage`, that calls `CheckReceived`, that runs `GotMessage`, that
may call `ResetSession`. `ReceiveDatagram` is one turn of the poll in
`doEvents`. What the host is left with is one of `Outcomes`, as
`HostList::doEvents` removes a host with `killMe`, and as the list iterator of
`checkReceived` dangles after a reset in its loop (undefined behaviour: the
host goes on, or the process ends). The
datagrams of an old session do not decrypt in the new one, except for the two
kinds that are not encrypted.

**ChatQueue, Players, Flags, Playfield.** In `Players` and `Flags` a server
changes the arena and announces the change; `inbox` holds what the bot has not
yet handled; `HandleNext` is the dispatch to one handler, whole. In `Players`,
`players` is a map with the code's habits: looking up an unknown ident creates
an unassigned entry, `emplace` does nothing when the key exists, `killPlayer`
erases the ident held by the entry. `SpectateNext` goes round the list of
idents as `spectateNext` does, past the spectators. `heir` is a history: whom
`!give` was given to last. The bot enters an arena where others may already be
and ride on one another (`Populated`): their entering is announced in any
order, each with the turretee (`Entering`), and newcomers ride on nobody.
`crowded` is a history: the idents whose several riders the server has taken
off at once, of which `killTurret` takes off the first. In `Playfield` the bytes of the array are
kept apart from its elements, because `convertFileToMatrix` writes one byte a
tile into an array of four-byte enumerators; one row of four tiles is enough to
have an element overlap four tiles. `DoItemEvents` is the end of `doEvents`:
bricks, then balls. `Erased` follows the iterator of `doBallEvents`, which passes
over the ball behind an erased one; behind the last one it goes past the end of
the list (undefined behaviour; the list is circular and the loop begins anew,
which is another `Pass`, and a build with checked iterators stops).

**Operators.** The list is a sequence, as its order is part of `addOperator`;
the file is what was last written of it. A command is an action with a giver
and the powers he has: those of his entry in the arena, or, by remote message,
those of his account (`Powers`). Demotion and deletion of an account leave the
powers in the arena as they are, so both are state. `loose` is a history: the
accounts that were changed without setting `operatorsUpdated`, or whose mark
`!read` took away; `ceiling` is the highest level at the start. The name of the
default entry, "default unknown", is a name a player may have, and then he has
its powers when he enters, by `!login` and in remote messages; `usurped` is the
history of whether somebody with that name has given a command. The file holds
the lines as they were written, and `AsRead` is what splitting a line at its
colons makes of it: of a password, the part before the first colon without the
white space around it (`Cut`). `Kept` compares accounts by what would be read. The main
program, which saves on a timer and at its end, is not in the repository:
`SaveOperators` may happen at any time, and `Restart` loses what is not saved.
`!setlogin` of somebody without an account writes through a null pointer and is
a `Restart`.

**Relay, OrderedRelay, Plugins.** `Relay` is the Discord plugin's
`TransferSToD`: a record, and one function for each handler. A line is its
number, and its kind is what `processArenaMessages` recognises. `Plugins`
composes relays with the host: `ImportLibrary` and `ClearImport` follow
BotStore.cpp slot by slot, events go to every handler ever registered
(`Raised`; after the code of a library is gone the next event ends the
process), and `Leave`, `Lost`, `RestartAll`, `Close`, `Exit` and `Remove` are
the ways in which a session or a host ends, each with the events it raises and
those it does not. Each line has two histories in its relay: the arenas
`around` it (the one the bot was in and those it had asked for when the line
was said, and those it has entered while the line waited), and for which channel
it left (`released`, `shown`), which is the relay's channel at that moment. `OrderedRelay` is what
a relay promises, each for itself: every line leaves it once, in order, and not
later than it may be held. `First` and `Second` map the first two relays of the
host to it, and in `PluginsProofs` `Nth(n)` any other one.

**Sublists, ListProofs, the `...Proofs` modules.** `Sublists` says what is left
of a list when the elements at some positions are removed (`std::list::remove`
and `erase`); `ChatQueue`, `Players`, `Operators` and `Relay` use it.
`ListProofs` has what the proofs share: that every position of a list is
reached by induction, what a recursive function computes, what `Sublist` picks
and where an insertion moves the elements. Each other module of proofs extends
the one it is about. Two extend a second one as well: `ReliableProofs` is also
about `Transport`, `FlagsProofs` about `Playfield`. What would have the same
name in both has a name of its own in `Transport` (`NetInit`, `NetSpec`,
`PostReliable`, `GotStamped`, `nextStamp` for `localStep`, ...) and in
`Playfield` (`FieldInit`, `FieldSpec`, `turfFlags` for `flags`, `ClaimTurfFlag`
for `claimFlag`, ...).

## 3. What the runs show

| Run | Bounds | Shows |
|---|---|---|
| `reliable` | 2 bodies, window of 2, 3 posts | FIFO delivery, window, no stalled queue, nothing acknowledged and forgotten; all messages delivered and acknowledged in the end |
| `transport` | lengths 249, 250, 1000; transfers 1001, 1488; 3 messages | messages come out whole and in order, also around a cancelled transfer; every datagram fits, with one-byte lengths; nothing is stuck |
| `session` | 2 tries, clusters of 2, `!go` and `!close`, 4 stamps | dropped stamps were processed, acknowledged ones accounted for, game only after login, one attempt at a time; once the network behaves the host gets in or gives up |
| `chat_queue` | 3 texts, one of them starred, pause of 2 ticks, 5 calls, 6 ticks | no text lost, order kept, at most four lines in a pause |
| `players` | 2 idents, 2 people, 1 operator, 2 changes announced, all commands | players, ships, list, ownership and following match the arena, whoever was there first |
| `players_turrets` | 3 idents, 3 people, 2 riders on one, 2 changes announced | who rides is known to ride on that one, also if he did before the bot came; who rides on nobody is at most left on one whose two riders were shaken off |
| `flags` | 3 players, 2 flags, 2 teams, inbox of 2 | listed and counted flags match the arena, from any situation the bot may enter in; never a flag in two places |
| `playfield` | row of 4 tiles, 3 maps (two cached), 2 bricks, 2 balls, 2 ticks | turf teams, each brick once, standing for its time and falling; silent balls go |
| `operators` | 3 people, one with the name of the default entry; 1 file, 3 changes, levels 0, 4, 5; no password, or one that begins with a colon | a name listed once; nobody above the ceiling until somebody with the name of the default entry gives a command; marked changes survive a restart as far as a line can hold them |
| `plugins` | 2 slots, the Discord plugin and another, 2 relays, 1 arena, 4 lines | each relay lets every line out once and in order, nothing left behind; `Plugins` implements `OrderedRelay`, once for each of the two relays |
| `plugins_arenas` | as `plugins`, 2 arenas, one of them with a channel, 2 lines | a line leaves only for the channel of an arena around it |
| `map_erased` | as `playfield` | **violated**: see section 4 |

Why the bounds are enough. `reliable`: three posts with two slots are the least
that has a message queued, an ACK that frees a slot, one message overtaken by
another and both buffered; a window of one would hide the hand-over.
`transport`: 249 and 250 with their stamp are just within and just beyond
what shares a datagram, 1000 is the longest chunked message (its tail is
exactly full), 1001 the shortest transfer, 1488 one of exactly three full parts. `session`: two
tries reach both the refusal and the return of the counter; two messages in a
cluster are the least where one follows another that ended the session.
`players`: two idents and two people are enough for each to come back under
the ident the other had, while an announcement is under way. `players_turrets`:
two on one are the least of whom one is not taken off, and the three may be
there when the bot comes, announced in any of six orders; without commands and
operators the names are alike, and TLC may take them for symmetric. `flags`: a kill needs two
players, and a third one sees the flags of both change hands.
`playfield`: one element (four tiles); a map with a flag, one with a
flag and a goal that must be downloaded, and one for balls, with no room for
bricks, so that the two do not multiply; two balls are the least of which one
may be passed over. `operators`: two people of different levels can each raise
the other, with a third of the default entry's name among them; three changes
are an addition, a promotion and a deletion. One file
lists a name twice and a junior before a senior. `plugins`: two slots hold the
plugin twice or with another; four lines are a table's borders and what follows
it, and where a line goes does not depend on the relay's table, so two lines are
enough for a second arena. `chat_queue`: five calls
are one more than the burst the throttle allows.

The constants and histories also mark where the system's promises end; changing
one shows each of these:

- `checkReceived` increments `remoteStep` after the handler returns, also when
  the handler was a `!restart` that has just set it to 0. The first reliable
  message of the new session is acknowledged and dropped as one "we've already
  processed" (Host.cpp:354-362). With `"restart"` among the `Commands` of
  `Session`, `IgnoredWasProcessed` fails.
- A position packet that is early or late creates an unassigned entry under its
  ident. When a player with that ident enters, `killPlayer` erases the ident the
  entry holds (0xFFFF) and `emplace` does nothing: the player stays unknown
  (ClientProt.ixx:1700, Host.cpp:957). With `Overtaking` in `Players`,
  `PlayersMatch` fails.
- `killTurret` leaves its loop at the first rider (Host.cpp:936), against
  "Shaking off turrets" (Host.ixx:491). The others stay on the ident of who
  shook them off or left, also when a newcomer gets it. Without `crowded`,
  `TurretsMatch` fails; with it, it says that nothing else goes wrong.
- `setArenaStatus` changes the channel without flushing the lines that wait, and
  nobody registers `handleBotEventArenaLeave` (TransferSToD.cpp:374-389, 318).
  The lines of one arena are shown in the channel of the next, or dropped if
  that has none: a line need not go to the channel of the arena it was said in,
  and `ChannelAround` says how far it may get.
- Loading any plugin raises Init to all of them (BotStore.cpp:129), and the
  Discord plugin answers each with another relay. Every relay lets every line
  out once (`RelaysInOrder`), so two relays show it twice.
- The default entry is in the list by the name "default unknown", with an access
  above an Owner's, and `handlePlayerEntering` finds it for a player of that
  name (BotDb.cpp:134, ClientProt.ixx:1719). `Ceiling` holds until he gives a
  command; without `usurped` it fails.
- `!editop` and `!setlogin` do not set `operatorsUpdated`, and `!read` clears
  it, so what they have changed is not written at the end (BotDb.cpp:145, 151).
  `SurvivesRestart` is about everything else, and without `loose` it fails; that
  a password is cut at a colon is in `AsRead`.
- A reliable body of 503 to 508 bytes, excluded by the assumption of
  `Transport`, is posted whole, but with its stamp it is too long for `post()`
  when sent again: it is split into new reliable chunks, which wait for ever
  behind the stamp that never comes.
- `!give` sets the new owner's access but not `limitedOwnerId`, so that somebody
  else may `!own` the bot as well. Without `heir`, `OwnerTracked` fails.
- Equal lines in `chatLog` are removed together; `SentInOrder` says that the
  text is sent, not each copy of it. `BurstBound` is about one session: the
  history of sent lines begins anew at a reset, as `countChatSend` does, so the
  lines just before a reset are not counted with those just after it.

## 4. A disagreement found

`map_erased`: when a brick's time is over, an element of four bytes is emptied,
and with it four tiles of the map; the security checksum is taken from those
bytes (Host.cpp:590, Playfield.ixx:20). The same array is why `loadTurfFlags`
(Host.cpp:896) does not find the flags of the map; and `handleMapFile` never
loads turf flags when the map had to be downloaded after them.

## 5. Fairness

- `Reliable!Fairness`: `doEvents` calls `sendQueued` in every iteration (weak
  fairness of resending a message with no copy under way); a network that loses
  the same datagram for ever is excluded (strong fairness of receiving).
- `Session!Fairness` is weak: the event loop keeps running, so timeouts that
  stay due are acted on; the server answers, and resends what is not
  acknowledged. `CalmDown` ends loss, terminations and chat commands at an
  arbitrary moment; `Recovers` speaks of what follows. It is not assumed that
  it ever happens.
- `Playfield!FairSpec`: `doBrickEvents` and `doBallEvents` run in every
  iteration and the clock advances.
- `Plugins!Fairness`: `doEvents` raises Tick once a second as long as the host
  is up, and `HostList::doEvents` removes a host that is marked (weak fairness
  of both). `OrderedRelay` promises progress only while the relay is not held.

No fairness is assumed of users, operators or plugins.

## 6. What is proved

The theorems are about `Spec` (`NetSpec`, `FieldSpec`), for every value of the
constants that their module's `ConstantsAssumption` (`NetAssumption`,
`FieldAssumption`) admits; where one assumes more, it says so here.
Each module of proofs has an inductive invariant `IInv` (in `PlayersProofs`,
`Orderly` and `InStep`; in `FlagsProofs`, `InStep` and `FieldInv`; of
`Transport`, `NetInv`) of which the listed properties are consequences; TLC
checks the same properties on the instances of section 3.

**ReliableProofs**: `TypeCorrect`, `DeliveryInOrder` (`InOrder`),
`WindowIsUsed` (`WindowBound` and `NoStall`), `NothingForgotten`
(`AckedIsKept`), and `Refinement`: the reliable layer implements
`FifoDelivery`. `InOrder` is not inductive: a message under way might carry any
body. `IInv` adds that every copy of a message, wherever it is, has the body
posted under its stamp (`BodiesMatch`); that the counters are the lengths of
the histories (`CountersMatch`); that stamps below `localSent` have been sent
and all others wait in `queued` (`SentOrQueued`), without which the slot of an
acknowledged message could be handed to nobody while others wait; and that an
ACK under way names a message that was processed or buffered (`AcksAreTrue`),
without which the sender could forget a message nobody has. The proof has one
lemma per action on two lemmas about data: appending to the history keeps it
(`AppendKeeps`), and the run of messages that one arrival releases is the next
piece of what was posted (`RunIsPosted`). `StepSimulation` then maps each step
to a post, a delivery of the next messages, or a stutter.

**ReliableProofs, of Transport**: `NetTypes` (`NetTypeOK`),
`MessagesComeWholeInOrder` (`WholeInOrder`), `DatagramsFitPackets`
(`DatagramsFit`), `NothingIsStuck` (`AllArrive`). The assumption on the
constants is what lets the code work: what shares a datagram has a length of
one byte, a part fits into a packet with its headers, and a message that may
not be posted whole fits into the buffers. None of the three properties is
inductive: what a chunk will become depends on what lies in the buffer, and on
what arrives before it. `NetInvariance` says that there is a story: the log of
all messages that were given a stamp, and for each of its positions the receiver
that has handled them up to there, one by one (`v`). Three things are said of it:
everything under way, waiting in a cluster or kept ahead is what the log has
under its stamp, no stamp that is not handled is missing, and the receiver is
`v` at its step (`UnderWay`, with `Hears`); what `v` has handled is at each
position a prefix of `due`, and all of it at the end (`Heard`); and what is
left of a transfer is what the large buffer lacks at the end of the story, so
that posting it, or cancelling it, leaves nothing behind (`UploadFits`). A step
of the sender continues the story, and nothing else it does matters; a step of
the receiver moves along it, over as many positions as `checkReceived`
releases messages. How a long message is cut and joined is told once, as what
the parts `Split` makes do to a receiver in whose small buffer nothing lies. `AllArrive` is the
story's end: with nothing under way, no stamp can be unhandled.

**SessionProofs**: `TypeCorrect`, `GameAfterLogin` (`GameOnlyWhenAccepted`),
`OneAttemptAtATime` (`OneAttempt`), `IgnoredIsProcessed` (`IgnoredWasProcessed`)
and `AcknowledgedIsAccounted` (`AckedIsAccounted`). The last two assume that
`!restart` is not among the commands: with it the first is false (section 3).
Handlers call one another, so the invariant is one of hosts (`Sound`) and holds
between the handlers of one datagram, also after a reset in the middle of
`checkReceived` (`renewed`), where nothing is known of what the server has sent
to the session that has just ended. The game router needs an accepted login
among the stamps processed; that a host about to connect faces a server that
has not answered it keeps an old answer from being counted for the new
session; and no two passwords are under way because the passwords posted and
the unanswered responses together are one at most (`AtMostOne`), which `Sound`
has in place of the cardinalities of `OneAttempt`. The loop of `checkReceived`
is followed by induction over the number of messages it releases.

**ChatQueueProofs**: `TypeCorrect`, `OrderKept` (`SentInOrder`),
`BurstsBounded` (`BurstBound`). `SentInOrder` needs that `chatLog` itself is in
the order of the calls; `BurstBound` needs where the last four lines lie
relative to `lastChatSend` and `countChatSend`. `doChatLog` sends two lines in
one step: both invariants are kept by each.

**PlayersProofs**, first part, with early and late packets or without:
`TypeCorrect`, `OwnersAreTracked` (`OwnerTracked`), `FollowedIsThere`
(`FollowsSomebody`). The invariant (`Tidy`) is that every entry of the map is
of the player under whose ident it is, or of nobody and then without powers,
name or turretee; that the list, the followed player and the owner are in the
map; and that an operator's powers are those of an account. Without the second
the entry of nobody that `getPlayer` makes could be owned, and `FollowsSomebody`
would not survive `spectateNext`. Each handler is described by what it does to
the entries (`Like`, `Quiet`, `Watched`, `Gone`), and none of the proofs looks
into a handler again.

Second part, without early and late packets (`~Overtaking`; with them the first
is false, see section 3): `PlayersAreThoseOfTheArena` (`PlayersMatch`) and
`RidersAreWhereTheyRide` (`TurretsMatch`), for any number of riders. Both speak
of the moment when the inbox is empty and are far from inductive. `InStep` says
that there are views of the arena, one before each message under way and one
after the last, so that the bot sees the first (`Seen`), the last is the arena
(`Told`), and each message can be sent in one view and leads to the next
(`Fits`, `Effect`). A view takes off the rider that `killTurret` takes off, so
that the bot agrees with it exactly; it is `Told` that allows for the rest: who
rides is shown where he rides, who does not may be shown on one in `crowded`.
That this is inductive rests on `ShakenOff`: a rider whom the view keeps when
the server takes him off had another one beside him, or one that had been left
there before, and either way the ident is in `crowded`. What a handler does and
what the server did then only have to agree with `Effect`: `HandleSeen` has a
lemma per message for the first, the `...Tells` lemmas for the second. At the
start the views are the announcements of who is there already, one by one
(`InitIsInStep`).

**FlagsProofs**: `TypeCorrect`, `FlagsAreThoseOfTheArena` (`FlagsMatch`) and
`NoFlagIsTwice` (`NoFlagTwice`). The invariant `InStep` is built like that of
the players: the messages under way are a path of views from what the bot sees
to the arena. A view may have a flag neither on the ground nor in anybody's
hands, because the server tells of one drop in several messages (the death or
the departure, then where each flag lies); of the arena itself no flag is
missing. `LeadsToSound` and `HandleSeen` follow one message, `PathsJoin`,
`PlayersTold` and `FlagsTold` several, whatever order `SetToSeq` gives them.
`FlagsMatch` is the path of length 0. `NoFlagTwice` holds in every view, not
only in the last: the counts that `FoldSet` adds up are those of disjoint sets
of flags (`Countable`, `CountedOnce`), disjoint from the flags listed too.

**FlagsProofs, of Playfield**: `FieldTypes` (`FieldTypeOK`),
`TurfTeamsAreTheServers` (`TurfTeams`), `BricksAreListedOnce` (`BrickOnce`),
`BricksStayUntilTheirTime` (the action property `BricksStand`), for any row,
set of maps, cached files and limits of `FieldAssumption`. The invariant
`FieldInv` has a part for the arena (`ArenaFits`), the files and the map
(`FilesFit`), the turf flags (`FlagsAreOwned`), the bricks and the balls
(`BallsFit`). `BrickOnce` is not inductive: that a brick is listed at all says
nothing of its other tiles, and of the time they carry. `BricksAreWhole` says
that what is listed are tiles of bricks the server has dropped, with the time of
the drop, and that of each of these bricks all tiles are listed or none is; as
the tiles of a brick have the same time, `doBrickEvents` takes them all or
none. `SilentBallsAreForgotten` is the step that
`ItemsGo` rests on: a turn of `doBallEvents` forgets no ball that is carried or
was heard of, and at least one of those that are silent, though its iterator
passes over others.

**OperatorsProofs**: `TypeCorrect` (which says that no name is listed twice),
`CeilingHolds` (`Ceiling`), `RestartSurvived` (`SurvivesRestart`). `addOperator`
inserts by seniority, so the order of the list is not known to any proof: all
three follow from what each operation makes of the elements of the list,
wherever they end up. `CeilingHolds` admits players with the name of the
default entry: until one of them gives a command, nobody else can get what he
has. `RestartSurvived` reads the file through `Cut`, of which it assumes that
cutting twice is cutting once.

**PluginsProofs**: `TypeCorrect`, `ChannelsAreRight` (`ChannelAround`),
`NothingLeft` (the action property `NothingLeftBehind`), and `Refinement`: each
relay that any load of the plugin ever creates, the n-th for every n, implements
`OrderedRelay`. The invariant says of every relay that the lines in its buffer
are just those it has taken and not handed over, in order, and of the host that
the arena it was asked to enter last is the one it is after: the plugin takes
its channel from that one, not from the arena entered. `ChannelsAreRight` needs
that the channel of a relay that is in an arena is that of an arena around every
line it still holds. `Refinement` is of each relay by itself: two relays let a
line out twice.

What is not proved:

- liveness (`EventuallyDelivered`, `EventuallyAcknowledged`, `Recovers`, `ItemsGo`, and the fairness of
  `RelaysInOrder`, whose safety part `Refinement` proves): temporal reasoning
  under fairness is outside the prover, and stays with TLC;
- the run in which a property is violated (section 4);
- that `Transport` and `Session` may take the order of reliable messages from
  `Reliable`: this composition is an argument in their headers, not a theorem.

## 7. Not modelled

- Vendored headers (`src/include`: Discord, JSON, formatting, MySQL and zlib
  libraries) are 71 500 of the repository's 77 000 lines in `.cpp`, `.h` and
  `.hpp` files. They are third-party code, and the host's protocol handlers,
  `Player`, `Playfield` and the plugin interface, which the modules do
  translate, are in `.ixx` files: a share of mapped lines taken over `.cpp` and
  headers says little about this repository.
- Clock synchronisation (`syncClocks`, `gotSyncResponse`): its rules are taken
  from SubSpace, and how far a clock may be off depends on delays the repository
  says nothing about. Times in the modules are those of one clock.
- Encryption, checksums and random numbers: arithmetic on bytes whose
  reference, the game client, is not in the repository. Sockets, configuration
  files, logging, data layouts, unit conversions.
- Scores, prizes, King of the Hill, banners, bounty, positions and the aim of
  the auto-turret; the regions of goal modes: counters and geometry that single
  messages set.
- The registration form and the news of a login; spawns started from a file;
  the parameters of the .ini file; commands that only reply.
- Tick counters of a spawn and the copies `SpawnBase` keeps of the arena; the
  Discord library; `TransferDToS`, which the plugin never creates; the test
  commands of `TestHelper`; the main program, which is not in the repository.
- The lifetime of C++ references. Where a handler may keep a reference into a
  container that another clears, PROJECT.json lists the hazard; only the list
  iterators of `checkReceived` and `doBallEvents` are modelled.
- A private line that waits in `chatLog` for somebody who has left goes to the
  newcomer with his ident (Host.cpp:456): `ChatQueue` does not know the arena.

Every safety property that a passing run checks is also proved. What would say
more is a module that composes `Reliable` with `Transport` and `Session`, and
the clock synchronisation.

## 8. Running

    tlc -config MCReliable.cfg MCReliable
    tlc -config MCPlugins.cfg MCPlugins
    tlapm ReliableProofs.tla
    tlapm PlayersProofs.tla

`CHECK_DEADLOCK FALSE` is given for `Session`, where a host that has been
removed leaves nothing to do, for `Plugins` for the same reason, and for
`ChatQueue`, whose clock and calls are bounded. A run's module is the `MC`
module that its configuration is named after; `PROJECT.json` lists them, with
the source lines of each definition and the hazards the properties are for.
