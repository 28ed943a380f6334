------------------------------- MODULE Relay -------------------------------
(***************************************************************************)
(* The module of the Discord plugin that carries the chat of an arena to a *)
(* Discord channel (Modules/TransferSToD.cpp).  Arena messages are         *)
(* collected and sent together, so that a table of statistics arrives in   *)
(* one box; public and team messages are sent at once.  A relay is a       *)
(* record and a handler a function from relays to relays: Plugins says     *)
(* when they are called.                                                   *)
(*                                                                         *)
(* A line is its number; what it says is abstracted to its kind, the form  *)
(* by which processArenaMessages tells the parts of a table.  A line that  *)
(* filterMessage empties is "blank": it is queued as an empty string and   *)
(* join leaves it out, so here it is not queued.  An arena stands for its  *)
(* channel.  A line leaves the relay for the channel that the relay has at *)
(* that moment, and is dropped if it has none; the arenas around a line    *)
(* and the channel it went to are kept as history.  That Discord cuts a message off at   *)
(* 1970 characters is left out.                                            *)
(***************************************************************************)
EXTENDS Naturals, Sequences, Sublists

CONSTANTS
    Arenas,   \* names of arenas
    Linked,   \* the arenas with an entry in Discord:ChatChannelIds
    MaxLines  \* bound on the lines a relay takes

ASSUME RelayAssumption == Linked \subseteq Arenas /\ MaxLines \in Nat

Modes == {"arena", "chat"}
Kinds == {"border",  \* "+---"
          "header",  \* "| F "
          "score",   \* "Final Score :"
          "last",    \* "LVP: "
          "text", "blank"}

Separator == 0
Unlinked  == "unlinked"  \* channel 0

ChannelOf(arena) == IF arena \in Linked THEN arena ELSE Unlinked
Channels         == Linked \cup {Unlinked}

Relays ==
    [inArena  : BOOLEAN,
     channel  : Channels,
     buffer   : Seq(0..MaxLines),
     started  : BOOLEAN,   \* m_isTableStarted, ...HeaderPrinted, ...BodyPrinted
     header   : BOOLEAN,
     body     : BOOLEAN,
     around   : {q \in Seq(SUBSET Arenas) : Len(q) <= MaxLines},
                    \* history: of each line taken, the arenas the bot was in
                    \* or had asked for when it was said, and those it has
                    \* entered while the line waited
     released : Seq(1..MaxLines),  \* history: those that have left, in order
     shown    : Seq(Channels)]     \* history: the channels they have left for

NewRelay == [inArena |-> FALSE, channel |-> Unlinked, buffer |-> <<>>,
             started |-> FALSE, header |-> FALSE, body |-> FALSE,
             around |-> <<>>, released |-> <<>>, shown |-> <<>>]
-----------------------------------------------------------------------------
Taken(r) == Len(r.around)

(* The separators that were added are no lines.                            *)
Lines(buffer) == Sublist(buffer, {k \in DOMAIN buffer : buffer[k] # Separator})

(* sendMessage() to the channel.                                           *)
SendMessage(r, buffer) ==
    [r EXCEPT !.released = @ \o Lines(buffer),
              !.shown = @ \o [k \in DOMAIN Lines(buffer) |-> r.channel]]

FlushArenaMessages(r) == [SendMessage(r, r.buffer) EXCEPT !.buffer = <<>>]

TryFlush(r) == IF r.inArena /\ ~r.started THEN FlushArenaMessages(r) ELSE r

(* processArenaMessages(), before the line is queued: what it tells of the *)
(* table, and whether it pushes out the lines before it.                   *)
Layout(r, kind) ==
    CASE ~r.started /\ kind = "score" -> FlushArenaMessages(r)
      [] ~r.started /\ kind = "border" ->
            FlushArenaMessages([r EXCEPT !.started = TRUE])
      [] r.started /\ kind = "border" ->
            IF r.header THEN [r EXCEPT !.body = TRUE]
            ELSE [r EXCEPT !.header = TRUE, !.body = FALSE]
      [] r.started /\ kind = "header" ->
            [IF r.body
             THEN [FlushArenaMessages(r) EXCEPT !.buffer = <<Separator>>]
             ELSE r  EXCEPT !.header = FALSE]
      [] r.started /\ kind \notin {"border", "header"} /\ r.header /\ r.body ->
            FlushArenaMessages([r EXCEPT !.header = FALSE, !.body = FALSE,
                                         !.started = FALSE])
      [] OTHER -> r

TakeLine(r, near) == [r EXCEPT !.around = Append(@, near)]

ProcessArenaMessages(r, kind, near) ==
    LET laidOut == Layout(r, kind)
        queued  == [TakeLine(laidOut, near) EXCEPT !.buffer = Append(@, Taken(r) + 1)]
    IN  CASE kind = "blank" -> laidOut
          [] kind = "last" /\ ~r.started -> FlushArenaMessages(queued)
          [] OTHER -> queued

(* Mutant of HandleChat: a public message does not push out the others.    *)
HandleChat_NoFlush(r, mode, kind, blocked, near) ==
    CASE ~r.inArena \/ (mode = "arena" /\ blocked) -> r
      [] r.inArena /\ mode = "arena" /\ ~blocked -> ProcessArenaMessages(r, kind, near)
      [] r.inArena /\ mode = "chat" ->
            IF kind = "blank" THEN r
            ELSE SendMessage(TakeLine(r, near), <<Taken(r) + 1>>)

(* handleBotEventChat(), sendMessage(); blocked: the tick counter          *)
(* blockListmodsReply runs; near: the arenas the bot is in or has asked    *)
(* for.                                                                    *)
HandleChat(r, mode, kind, blocked, near) ==
    LET flushed == FlushArenaMessages(r)
    IN  CASE ~r.inArena \/ (mode = "arena" /\ blocked) -> r
          [] r.inArena /\ mode = "arena" /\ ~blocked ->
                ProcessArenaMessages(r, kind, near)
          [] r.inArena /\ mode = "chat" ->
                IF kind = "blank" THEN flushed
                ELSE SendMessage(TakeLine(flushed, near), <<Taken(r) + 1>>)

(* The bot is told that it has entered an arena, while lines wait.         *)
Entered(r, arena) ==
    LET Waits(line) == \E k \in DOMAIN r.buffer : r.buffer[k] = line
    IN  [r EXCEPT !.inArena = TRUE,
                  !.around = [line \in DOMAIN @ |->
                                 @[line] \cup IF Waits(line) THEN {arena} ELSE {}]]

(* Mutant of HandleArenaEnter: the channel of the arena before is kept.    *)
HandleArenaEnter_KeepsChannel(r, arena) ==
    [Entered(r, arena) EXCEPT !.channel = IF arena \in Linked THEN arena ELSE @]

(* Mutant of HandleArenaEnter: an arena without an entry is not told from  *)
(* the others.                                                             *)
HandleArenaEnter_NoLookup(r, arena) == [Entered(r, arena) EXCEPT !.channel = arena]

(* handleBotEventArenaEnter(), setArenaStatus(true).  The lines that wait  *)
(* are not sent before.                                                    *)
HandleArenaEnter(r, arena) == [Entered(r, arena) EXCEPT !.channel = ChannelOf(arena)]
=============================================================================
