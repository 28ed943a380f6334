------------------------------ MODULE Session ------------------------------
(***************************************************************************)
(* The sessions of one Host with its server: the connection handshake, the *)
(* login with its limited number of tries, entering the arena, and the     *)
(* ways a session ends (Core/Host.cpp, Client/ClientProt.ixx).             *)
(*                                                                         *)
(* The host is a record, and a message handler is a function from hosts to *)
(* hosts, because the handlers call one another: a reliable message runs   *)
(* its handler inside checkReceived, a chat command may end the session    *)
(* there, and a cluster runs several handlers in one call.                 *)
(*                                                                         *)
(* The server is external.  It answers a connection request with 00 02,    *)
(* each password with a login response, an arena login with a              *)
(* synchronization packet, and may send chat, synchronize again, or end    *)
(* the session, at any time.  Its reliable messages are the sequence out;  *)
(* each may arrive early, late and more than once.  What the host posts    *)
(* arrives in order (Reliable shows this for the reliable messages).       *)
(* Datagrams of an earlier session are ignored after decryption with the   *)
(* new key, except for the two kinds that are not encrypted: 00 02 and     *)
(* 00 07.                                                                  *)
(***************************************************************************)
EXTENDS Integers, Sequences, FiniteSets

CONSTANTS
    MaxTries,    \* Misc:MaxConnectionTries of the configuration
    Commands,    \* the commands the bot is given by chat
    MaxCluster,  \* most messages in one datagram
    MaxStamps    \* bound on the reliable messages of a session

ASSUME ConstantsAssumption ==
    /\ MaxTries \in Nat \ {0}
    /\ Commands \subseteq {"restart", "close", "go"}
    /\ MaxCluster \in {1, 2}
    /\ MaxStamps \in Nat

VARIABLES
    host,  \* the Host object
    srv,   \* the server: "none", "stale" (it knows an earlier session only),
           \* "connected", "authed" or "arena"
    out,   \* the reliable messages the server sent in this session
    net,   \* the other datagrams on their way to the host
    calm   \* the network and the server have become well-behaved for good

vars == <<host, srv, out, net, calm>>

MinTries == -1   \* stands for all numbers of tries below 0

Responses == {"accept", "again", "refuse"}
Body      == Responses \cup {"sync"} \cup Commands
Request   == {"password", "arena"}

EncOk      == [kind |-> "encOk", id |-> 0]       \* 00 02, key of this session
EncStale   == [kind |-> "encStale", id |-> 0]    \* 00 02, any other key
Bye        == [kind |-> "disconnect", id |-> 0]  \* 00 07
Stamped(i) == [kind |-> "reliable", id |-> i]    \* 00 03, out[i + 1]

Host ==
    [listed     : BOOLEAN,              \* in the HostList
     router     : {"handshake", "login", "game"},
     connecting : BOOLEAN,
     killMe     : BOOLEAN,
     inArena    : BOOLEAN,
     numTries   : MinTries..MaxTries,
     remoteStep : 0..(MaxStamps + 1),
     received   : SUBSET (0..MaxStamps),  \* stamps waiting for a lost message
     dial       : BOOLEAN,              \* a connection request is under way
     posted     : Seq(Request),         \* posted and not seen by the server
     processed  : SUBSET (0..MaxStamps),  \* history: stamps of this session
     acked      : SUBSET (0..MaxStamps),  \*   whose handler ran / acknowledged
     renewed    : BOOLEAN,              \* this call has begun a new session
     dangling   : BOOLEAN]              \* this call used an erased list node
-----------------------------------------------------------------------------
(* The handlers.                                                           *)

(* Mutants of ResetSession: the stamp, or the routers, are left as they    *)
(* are.                                                                    *)
ResetSession_KeepsStamp(h) ==
    [h EXCEPT !.router = "handshake", !.connecting = FALSE, !.killMe = FALSE,
              !.inArena = FALSE, !.received = {}, !.posted = <<>>,
              !.processed = {}, !.acked = {}, !.renewed = TRUE]

ResetSession_KeepsRouter(h) ==
    [h EXCEPT !.connecting = FALSE, !.killMe = FALSE, !.inArena = FALSE,
              !.remoteStep = 0, !.received = {}, !.posted = <<>>,
              !.processed = {}, !.acked = {}, !.renewed = TRUE]

(* resetSession(): the routers, flags, stamps and queues start afresh; the *)
(* number of tries does not.                                               *)
ResetSession(h) ==
    [h EXCEPT !.router = "handshake", !.connecting = FALSE, !.killMe = FALSE,
              !.inArena = FALSE, !.remoteStep = 0, !.received = {},
              !.posted = <<>>, !.processed = {}, !.acked = {},
              !.renewed = TRUE]

Connect(h) == [h EXCEPT !.connecting = TRUE, !.dial = TRUE]

GotDisconnect(h) == Connect(ResetSession(h))

Disconnect(h) == [h EXCEPT !.killMe = TRUE]

ChangeArena(h) ==
    [h EXCEPT !.inArena = FALSE, !.posted = Append(@, "arena")]

(* Mutant of GotEncryptResponse: every router knows 00 02.                 *)
GotEncryptResponse_AnyRouter(h, valid) ==
    [h EXCEPT !.connecting = FALSE,
              !.router = IF valid THEN "login" ELSE @,
              !.posted = IF valid THEN Append(@, "password") ELSE @]

(* gotEncryptResponse(): only the handshake router knows 00 02.            *)
GotEncryptResponse(h, valid) ==
    IF h.router # "handshake" THEN h
    ELSE [h EXCEPT !.connecting = FALSE,
                   !.router = IF valid THEN "login" ELSE @,
                   !.posted = IF valid THEN Append(@, "password") ELSE @]

(* Mutant of HandlePasswordResponse: a try is given back.                  *)
HandlePasswordResponse_Refunds(h, meaning) ==
    IF h.router = "login" /\ meaning = "again"
    THEN [h EXCEPT !.numTries = @ + 1, !.posted = Append(@, "password")]
    ELSE h

(* handlePasswordResponse(): "accept" stands for Continue, SpectateOnly    *)
(* and BillerDown, "again" for NewUser, FullArena, NoNewConnections and    *)
(* BusyProcessing, "refuse" for the others.                                *)
HandlePasswordResponse(h, meaning) ==
    LET tried == [h EXCEPT !.numTries = IF @ = MinTries THEN @ ELSE @ - 1]
    IN  CASE h.router # "login" -> h
          [] h.router = "login" /\ meaning = "accept" ->
                [ChangeArena([tried EXCEPT !.router = "game"])
                    EXCEPT !.numTries = MaxTries]
          [] h.router = "login" /\ meaning = "again" ->
                IF tried.numTries <= 0 THEN Disconnect(tried)
                ELSE [tried EXCEPT !.posted = Append(@, "password")]
          [] h.router = "login" /\ meaning = "refuse" -> Disconnect(tried)

HandleSynchronization(h) ==
    IF h.router = "game" THEN [h EXCEPT !.inArena = TRUE] ELSE h

(* restartAll(), for this host.                                            *)
RestartHost(h) == [GotDisconnect(Disconnect(h)) EXCEPT !.killMe = FALSE]

(* handleChat() and gotCommand(), for the commands that end the session or *)
(* the stay in the arena.  Other spawns are connected, so that !close is   *)
(* not refused.                                                            *)
HandleChat(h, command) ==
    CASE h.router # "game" -> h
      [] h.router = "game" /\ command = "restart" -> RestartHost(h)
      [] h.router = "game" /\ command = "close"   -> Disconnect(h)
      [] h.router = "game" /\ command = "go"      -> ChangeArena(h)

GotMessage(h, body) ==
    CASE body \in Responses -> HandlePasswordResponse(h, body)
      [] body = "sync"      -> HandleSynchronization(h)
      [] body \in Commands  -> HandleChat(h, body)

(* The handler of stamp id runs, then ++remoteStep.                        *)
Process(h, id) ==
    LET g == GotMessage(h, out[id + 1])
    IN  [g EXCEPT !.remoteStep = @ + 1,
                  !.processed = IF g.renewed THEN @ ELSE @ \cup {id}]

(* One turn of the loop of checkReceived: a handler that resets the        *)
(* session clears the list the loop is about to erase from.                *)
DrainOne(h) ==
    LET id == h.remoteStep
        g  == Process(h, id)
    IN  IF h.renewed \/ id \notin h.received THEN h
        ELSE [g EXCEPT !.received = @ \ {id}, !.dangling = g.renewed]

Drain(h) ==
    LET after[n \in 0..MaxStamps] ==
            IF n = 0 THEN h ELSE DrainOne(after[n - 1])
    IN  after[MaxStamps]

(* Mutant of CheckReceived: an early message is dropped.                   *)
CheckReceived_DropsEarly(h, id) ==
    IF id = h.remoteStep THEN Process(h, id) ELSE h

CheckReceived(h, id) ==
    CASE id < h.remoteStep -> h
      [] id = h.remoteStep -> Drain(Process(h, id))
      [] id > h.remoteStep -> [h EXCEPT !.received = @ \cup {id}]

(* gotReliable(): only the routers of a connected host know 00 03.         *)
GotReliable(h, id) ==
    IF h.router = "handshake" THEN h
    ELSE CheckReceived([h EXCEPT !.acked = @ \cup {id}], id)

GotSpecialMessage(h, m) ==
    CASE m.kind = "encOk"      -> GotEncryptResponse(h, ~h.renewed)
      [] m.kind = "encStale"   -> GotEncryptResponse(h, FALSE)
      [] m.kind = "disconnect" -> GotDisconnect(h)
      [] m.kind = "reliable"   -> GotReliable(h, m.id)

(* gotCluster(): every message in turn, whatever the earlier ones did.     *)
GotCluster(h, ms) ==
    IF Len(ms) = 1 THEN GotSpecialMessage(h, ms[1])
                   ELSE GotSpecialMessage(GotSpecialMessage(h, ms[1]), ms[2])
-----------------------------------------------------------------------------
(* The steps of the host.                                                  *)

(* HostList::doEvents removes a host that asks for it; a host that has     *)
(* written through a dangling iterator may go on or take the process down. *)
Outcomes(h) ==
    LET kept == [h EXCEPT !.renewed = FALSE, !.dangling = FALSE]
    IN  (IF h.killMe \/ h.dangling THEN {[kept EXCEPT !.listed = FALSE]} ELSE {})
        \cup (IF h.killMe THEN {} ELSE {kept})

(* The datagrams of a session mean nothing to the next one.                *)
BecomeStale(renewed) ==
    IF renewed
    THEN /\ out' = <<>>
         /\ srv' = IF srv = "none" THEN "none" ELSE "stale"
    ELSE UNCHANGED <<out, srv>>

Outdated(ms) == {IF m = EncOk THEN EncStale ELSE m : m \in ms}

Deliverable == net \cup {Stamped(i) : i \in 0..(Len(out) - 1)}

(* doEvents() polls a datagram: gotPacket().                               *)
ReceiveDatagram(ms) ==
    LET h    == GotCluster(host, ms)
        rest == net \ {ms[k] : k \in DOMAIN ms}
    IN  /\ host.listed
        /\ host' \in Outcomes(h)
        /\ BecomeStale(h.renewed)
        /\ net' = IF h.renewed THEN Outdated(rest) ELSE rest
        /\ UNCHANGED calm

Unacknowledged == {i \in 0..(Len(out) - 1) : i \notin host.acked}

(* Nothing more will come from the server unless the host acts.            *)
Quiet ==
    /\ net = {} /\ ~host.dial /\ srv # "arena"
    /\ Unacknowledged = {}
    /\ host.posted # <<>> => srv \in {"none", "stale"}

(* Mutant of SilenceTimeout: the session is not reset.                     *)
SilenceTimeout_NoReset ==
    /\ host.listed
    /\ calm => Quiet
    /\ host' \in Outcomes(Connect(host))
    /\ UNCHANGED <<srv, out, net, calm>>

(* doEvents(): no datagram for PacketSilenceLimit ticks.                   *)
SilenceTimeout ==
    /\ host.listed
    /\ calm => Quiet
    /\ host' \in Outcomes(Connect(ResetSession(host)))
    /\ BecomeStale(TRUE)
    /\ net' = Outdated(net)
    /\ UNCHANGED calm

(* doEvents(): 00 01 is sent again, after a 00 07 that makes the server    *)
(* forget what it knows of this address.                                   *)
RetryConnection ==
    /\ host.listed /\ host.connecting
    /\ host' = Connect(host)
    /\ UNCHANGED <<srv, out, net, calm>>

(* The owner gives !restart to another spawn of the same process.          *)
RestartAll ==
    /\ host.listed /\ ~calm
    /\ host' \in Outcomes(RestartHost(host))
    /\ BecomeStale(TRUE)
    /\ net' = Outdated(net)
    /\ UNCHANGED calm
-----------------------------------------------------------------------------
(* The server and the network.                                             *)

AcceptConnection ==
    /\ host.dial
    /\ host' = [host EXCEPT !.dial = FALSE]
    /\ srv' = "connected" /\ out' = <<>>
    /\ net' = net \cup {EncOk}
    /\ UNCHANGED calm

(* The server takes the next request of this session and replies.          *)
Reply(request, body, next) ==
    /\ ~host.dial /\ Len(out) < MaxStamps
    /\ host.posted # <<>> /\ Head(host.posted) = request
    /\ host' = [host EXCEPT !.posted = Tail(@)]
    /\ out' = Append(out, body)
    /\ srv' = next
    /\ UNCHANGED <<net, calm>>

AnswerPassword ==
    /\ srv = "connected"
    /\ \/ Reply("password", "accept", "authed")
       \/ \E body \in {"again", "refuse"} : Reply("password", body, "connected")

AnswerArenaLogin ==
    /\ srv \in {"authed", "arena"}
    /\ Reply("arena", "sync", "arena")

(* The answers that are still to come: MaxStamps must not cut them off.    *)
Owed == Cardinality({i \in 0..(Len(out) - 1) :
                        out[i + 1] = "go" /\ i \notin host.processed})
        + Cardinality({k \in DOMAIN host.posted : host.posted[k] = "arena"})

SendGameMessage ==
    /\ srv = "arena"
    /\ \E body \in {"sync"} \cup Commands :
          /\ Len(out) + Owed + (IF body = "go" THEN 1 ELSE 0) < MaxStamps
          /\ calm => body = "sync"
          /\ out' = Append(out, body)
    /\ UNCHANGED <<host, srv, net, calm>>

EndSession ==
    /\ srv # "none" /\ ~calm
    /\ srv' = "none"
    /\ net' = net \cup {Bye}
    /\ UNCHANGED <<host, out, calm>>

Lose ==
    /\ ~calm
    /\ \/ \E m \in net : net' = net \ {m} /\ UNCHANGED host
       \/ /\ host.dial
          /\ host' = [host EXCEPT !.dial = FALSE]
          /\ UNCHANGED net
    /\ UNCHANGED <<srv, out, calm>>

CalmDown ==
    /\ calm' = TRUE
    /\ UNCHANGED <<host, srv, out, net>>
-----------------------------------------------------------------------------
(* The Host constructor and connectHost().                                 *)
Init ==
    /\ host = [listed |-> TRUE, router |-> "handshake", connecting |-> TRUE,
               killMe |-> FALSE, inArena |-> FALSE, numTries |-> MaxTries,
               remoteStep |-> 0, received |-> {}, dial |-> TRUE,
               posted |-> <<>>, processed |-> {}, acked |-> {},
               renewed |-> FALSE, dangling |-> FALSE]
    /\ srv = "none" /\ out = <<>> /\ net = {} /\ calm = FALSE

Datagrams ==
    {<<m>> : m \in Deliverable}
    \cup IF MaxCluster = 1 THEN {}
         ELSE {<<m1, m2>> : m1 \in Deliverable, m2 \in Deliverable}

Next ==
    \/ \E ms \in Datagrams : ReceiveDatagram(ms)
    \/ SilenceTimeout \/ RetryConnection \/ RestartAll
    \/ AcceptConnection \/ AnswerPassword \/ AnswerArenaLogin
    \/ SendGameMessage \/ EndSession \/ Lose \/ CalmDown

Spec == Init /\ [][Next]_vars

(* doEvents runs again and again: it polls the socket, and acts on its     *)
(* timeouts when they are due.  The server answers what it receives, and   *)
(* sends a reliable message again until it is acknowledged.                *)
Fairness ==
    /\ WF_vars(SilenceTimeout) /\ WF_vars(RetryConnection)
    /\ WF_vars(AcceptConnection)
    /\ WF_vars(AnswerPassword) /\ WF_vars(AnswerArenaLogin)
    /\ WF_vars(\E m \in net \cup {Stamped(i) : i \in Unacknowledged} :
                   ReceiveDatagram(<<m>>))

FairSpec == Spec /\ Fairness
-----------------------------------------------------------------------------
TypeOK ==
    /\ host \in Host
    /\ srv \in {"none", "stale", "connected", "authed", "arena"}
    /\ out \in Seq(Body) /\ Len(out) <= MaxStamps
    /\ net \subseteq {EncOk, EncStale, Bye}
    /\ calm \in BOOLEAN

(* checkReceived drops a message "if we've already processed it": every    *)
(* stamp it will drop is one whose handler ran in this session.            *)
IgnoredWasProcessed ==
    \A id \in 0..(host.remoteStep - 1) : id \in host.processed

(* Whatever the host has acknowledged was processed or is kept for later:  *)
(* the server will not send it again.                                      *)
AckedIsAccounted == host.acked \subseteq host.processed \cup host.received

(* The game protocol is active only in a session whose login the server    *)
(* has accepted (activateGameProtocol, resetSession).                      *)
GameOnlyWhenAccepted ==
    host.router = "game" =>
        \E i \in host.processed : i < Len(out) /\ out[i + 1] = "accept"

(* One login attempt at a time: a password is posted only when every       *)
(* earlier one of the session has been answered (gotEncryptResponse,       *)
(* handlePasswordResponse).                                                *)
OneAttempt ==
    Cardinality({k \in DOMAIN host.posted : host.posted[k] = "password"})
    + Cardinality({i \in 0..(Len(out) - 1) :
                      out[i + 1] \in Responses /\ i \notin host.processed}) <= 1

(* Once the network and the server behave, the host gets into the arena,   *)
(* or gives up, from any situation it may be in.                           *)
Recovers == calm ~> host.inArena \/ ~host.listed
=============================================================================
