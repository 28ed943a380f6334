--------------------------- MODULE SessionProofs ---------------------------
(***************************************************************************)
(* Proofs about Session, for every number of tries, set of commands and    *)
(* length of a session: its types, and what the handlers may do to the     *)
(* stamps, the login and the routers, however they call one another.       *)
(*                                                                         *)
(* A handler is a function from hosts to hosts, so that the invariant is   *)
(* one of hosts: it holds of the host before every handler, of the hosts   *)
(* between the handlers of one call, and of the one the call leaves.       *)
(***************************************************************************)
EXTENDS Session, ListProofs, FiniteSetTheorems

(* What the server may be when the host has not logged in.                 *)
New == {"none", "stale", "connected"}

Passwords(h) == {k \in DOMAIN h.posted : h.posted[k] = "password"}

Pending(h) == {i \in 0 .. Len(out) - 1 : out[i + 1] \in Responses /\ i \notin h.processed}

(* P and R have one element at most together.                              *)
AtMostOne(P, R) == \/ P = {} /\ \A i, j \in R : i = j
                   \/ R = {} /\ \A i, j \in P : i = j

(* A session that no request has been posted in.                           *)
Blank(h) == /\ h.received = {} /\ h.processed = {} /\ h.acked = {}
            /\ h.posted = <<>>

(* The session of the server, out, is that of h as long as h has not begun *)
(* a new one in this call.                                                 *)
Sound(h) ==
    /\ h \in Host
    /\ h.connecting \/ h.renewed => h.router = "handshake"
    /\ h.router = "handshake" => Blank(h)
    /\ h.router = "handshake" \/ h.dial => h.renewed \/ (srv \in New /\ out = <<>>)
    /\ h.received \cup h.processed \cup h.acked \subseteq 0 .. Len(out) - 1
    /\ h.processed \subseteq 0 .. h.remoteStep - 1
    /\ h.router = "game" => \E i \in h.processed : out[i + 1] = "accept"
    /\ h.renewed \/ AtMostOne(Passwords(h), Pending(h))
    /\ "restart" \notin Commands => 0 .. h.remoteStep - 1 \subseteq h.processed

Accounted(h) == "restart" \notin Commands => h.acked \subseteq h.processed \cup h.received

IInv == TypeOK /\ Sound(host) /\ Accounted(host) /\ ~host.renewed /\ ~host.dangling

(* What a host consists of.                                                *)
LEMMA HostIs ==
    ASSUME NEW h \in Host
    PROVE  /\ h.listed \in BOOLEAN /\ h.router \in {"handshake", "login", "game"}
           /\ h.connecting \in BOOLEAN /\ h.killMe \in BOOLEAN /\ h.inArena \in BOOLEAN
           /\ h.numTries \in MinTries .. MaxTries
           /\ h.remoteStep \in 0 .. MaxStamps + 1
           /\ h.received \subseteq 0 .. MaxStamps /\ h.dial \in BOOLEAN
           /\ h.posted \in Seq(Request) /\ h.processed \subseteq 0 .. MaxStamps
           /\ h.acked \subseteq 0 .. MaxStamps
           /\ h.renewed \in BOOLEAN /\ h.dangling \in BOOLEAN
BY DEF Host

(* resetSession() and connectHost(), whatever the host was.                *)
LEMMA RenewedIs ==
    ASSUME NEW h \in Host
    PROVE  /\ Sound(Connect(ResetSession(h))) /\ Accounted(Connect(ResetSession(h)))
           /\ Connect(ResetSession(h)).renewed
           /\ Connect(ResetSession(h)).remoteStep = 0
           /\ Connect(ResetSession(h)).posted = <<>>
           /\ Connect(ResetSession(h)).router = "handshake"
<1> DEFINE r == Connect(ResetSession(h))
<1>1. /\ r.connecting = TRUE /\ r.renewed = TRUE /\ r.router = "handshake"
      /\ r.received = {} /\ r.processed = {} /\ r.acked = {} /\ r.posted = <<>>
      /\ r.remoteStep = 0
  BY DEF Connect, ResetSession, Host
<1>2. r \in Host
  <2>1. <<>> \in Seq(Request)
    OBVIOUS
  <2>2. 0 \in 0 .. MaxStamps + 1
    BY ConstantsAssumption
  <2> QED
    BY <2>1, <2>2 DEF Connect, ResetSession, Host
<1> HIDE DEF r
<1>3. Sound(r) /\ Accounted(r)
  <2>1. 0 .. r.remoteStep - 1 = {}
    BY <1>1
  <2>2. r.router # "game"
    BY <1>1
  <2> QED
    BY <1>1, <1>2, <2>1, <2>2 DEF Sound, Blank, Accounted
<1> QED
  BY <1>1, <1>3 DEF r

(* Appending a request that is no password, or the first password.         *)
LEMMA PostedIs ==
    ASSUME NEW posted \in Seq(Request), NEW request \in Request
    PROVE  /\ Append(posted, request) \in Seq(Request)
           /\ {k \in DOMAIN Append(posted, request) : Append(posted, request)[k] = "password"}
              = {k \in DOMAIN posted : posted[k] = "password"}
                \cup IF request = "password" THEN {Len(posted) + 1} ELSE {}
<1> DEFINE new == Append(posted, request)
<1>1. /\ new \in Seq(Request) /\ Len(new) = Len(posted) + 1
      /\ \A k \in 1 .. Len(posted) : new[k] = posted[k]
      /\ new[Len(posted) + 1] = request
  BY AppendProperties
<1> HIDE DEF new
<1>2. /\ DOMAIN new = 1 .. Len(posted) + 1 /\ DOMAIN posted = 1 .. Len(posted)
      /\ Len(posted) \in Nat
  BY <1>1
<1>3. {k \in DOMAIN new : new[k] = "password"}
      = {k \in DOMAIN posted : posted[k] = "password"}
        \cup IF request = "password" THEN {Len(posted) + 1} ELSE {}
  BY <1>1, <1>2
<1> QED
  BY <1>1, <1>3 DEF new

(* gotEncryptResponse(): the one password of a login is posted when the    *)
(* host leaves the handshake.                                              *)
LEMMA GotEncryptResponseKeeps ==
    ASSUME NEW h, Sound(h), Accounted(h), NEW valid \in BOOLEAN, valid => ~h.renewed
    PROVE  /\ Sound(GotEncryptResponse(h, valid)) /\ Accounted(GotEncryptResponse(h, valid))
           /\ GotEncryptResponse(h, valid).renewed = h.renewed
<1> DEFINE g == GotEncryptResponse(h, valid)
<1>1. CASE h.router # "handshake"
  BY <1>1 DEF GotEncryptResponse
<1>2. CASE h.router = "handshake"
  <2>1. h \in Host /\ Blank(h)
    BY <1>2 DEF Sound
  <2>2. /\ g.connecting = FALSE /\ g.dial = h.dial /\ g.renewed = h.renewed
        /\ g.received = {} /\ g.processed = {} /\ g.acked = {} /\ g.remoteStep = h.remoteStep
        /\ g.router = IF valid THEN "login" ELSE "handshake"
        /\ g.posted = IF valid THEN Append(<<>>, "password") ELSE <<>>
    BY <1>2, <2>1 DEF GotEncryptResponse, Host, Blank
  <2>3. g \in Host
    <3>1. Append(<<>>, "password") \in Seq(Request)
      BY DEF Request
    <3> QED
      BY <1>2, <2>1, <3>1 DEF GotEncryptResponse, Host, Blank
  <2> HIDE DEF g
  <2>4. g.renewed \/ AtMostOne(Passwords(g), Pending(g))
    <3>1. CASE valid
      <4>1. out = <<>>
        BY <1>2, <3>1 DEF Sound
      <4>2. Pending(g) = {}
        BY <4>1 DEF Pending
      <4>3. \A k \in DOMAIN g.posted : k = 1
        BY <2>2, <3>1
      <4> QED
        BY <4>2, <4>3 DEF AtMostOne, Passwords
    <3>2. CASE ~valid
      BY <2>1, <2>2, <3>2 DEF Sound, Passwords, Pending, Blank
    <3> QED
      BY <3>1, <3>2
  <2>5. g.router = "handshake" => Blank(g)
    BY <2>2 DEF Blank
  <2>6. g.router # "game"
    BY <2>2
  <2>7. /\ g.connecting \/ g.renewed => g.router = "handshake"
        /\ g.router = "handshake" \/ g.dial => g.renewed \/ (srv \in New /\ out = <<>>)
        /\ g.received \cup g.processed \cup g.acked \subseteq 0 .. Len(out) - 1
        /\ g.processed \subseteq 0 .. g.remoteStep - 1
        /\ "restart" \notin Commands => 0 .. g.remoteStep - 1 \subseteq g.processed
    BY <1>2, <2>1, <2>2 DEF Sound, Blank
  <2>8. Sound(g)
    BY <2>3, <2>4, <2>5, <2>6, <2>7 DEF Sound
  <2> QED
    BY <2>2, <2>8 DEF Accounted, g
<1> QED
  BY <1>1, <1>2

(* A handler of reliable messages that begins no new session leaves the    *)
(* stamps alone.                                                           *)
SameStamps(g, h) ==
    /\ g.connecting = h.connecting /\ g.dial = h.dial /\ g.renewed = h.renewed
    /\ g.remoteStep = h.remoteStep /\ g.received = h.received
    /\ g.processed = h.processed /\ g.acked = h.acked

(* The requests of h, and another one.                                     *)
Posts(g, h, request) == g.posted = Append(h.posted, request)

(* What the handler of a message may do.                                   *)
LEMMA GotMessageIs ==
    ASSUME NEW h \in Host, NEW body \in Body
    PROVE  LET g == GotMessage(h, body)
           IN  /\ g \in Host
               /\ \/ /\ body = "restart" /\ h.router = "game"
                     /\ Sound(g) /\ Accounted(g) /\ g.renewed /\ g.remoteStep = 0
                  \/ /\ SameStamps(g, h)
                     /\ \/ g.router = h.router /\ g.posted = h.posted
                        \/ h.router = "login" /\ body = "accept" /\ g.router = "game"
                           /\ Posts(g, h, "arena")
                        \/ h.router = "login" /\ body = "again" /\ g.router = "login"
                           /\ Posts(g, h, "password")
                        \/ h.router = "game" /\ body = "go" /\ g.router = "game"
                           /\ Posts(g, h, "arena")
<1> DEFINE g == GotMessage(h, body)
           Effect(x) ==
               /\ x \in Host
               /\ \/ /\ body = "restart" /\ h.router = "game"
                     /\ Sound(x) /\ Accounted(x) /\ x.renewed /\ x.remoteStep = 0
                  \/ /\ SameStamps(x, h)
                     /\ \/ x.router = h.router /\ x.posted = h.posted
                        \/ h.router = "login" /\ body = "accept" /\ x.router = "game"
                           /\ Posts(x, h, "arena")
                        \/ h.router = "login" /\ body = "again" /\ x.router = "login"
                           /\ Posts(x, h, "password")
                        \/ h.router = "game" /\ body = "go" /\ x.router = "game"
                           /\ Posts(x, h, "arena")
<1> SUFFICES Effect(g)
  BY Zenon
<1>1. /\ Append(h.posted, "arena") \in Seq(Request)
      /\ Append(h.posted, "password") \in Seq(Request)
  BY HostIs, PostedIs DEF Request
<1>2. \A x \in Host : x.router = h.router /\ x.posted = h.posted /\ SameStamps(x, h) => Effect(x)
  OBVIOUS
<1>3. Effect(h)
  BY DEF SameStamps
<1>4. Effect(Disconnect(h))
  <2>1. Disconnect(h) \in Host /\ Disconnect(h).router = h.router
        /\ Disconnect(h).posted = h.posted /\ SameStamps(Disconnect(h), h)
    BY DEF Disconnect, Host, SameStamps
  <2> QED
    BY <1>2, <2>1
<1>5. CASE body \in Responses
  <2> DEFINE tried == [h EXCEPT !.numTries = IF @ = MinTries THEN @ ELSE @ - 1]
  <2>1. g = HandlePasswordResponse(h, body)
    BY <1>5, ConstantsAssumption DEF GotMessage, Responses
  <2>2. MinTries .. MaxTries \subseteq Int /\ MaxTries \in MinTries .. MaxTries
    BY ConstantsAssumption DEF MinTries
  <2>3. /\ tried \in Host /\ tried.router = h.router /\ tried.posted = h.posted
        /\ SameStamps(tried, h)
    <3>1. (IF h.numTries = MinTries THEN h.numTries ELSE h.numTries - 1) \in MinTries .. MaxTries
      BY HostIs, ConstantsAssumption DEF MinTries
    <3> QED
      BY <3>1 DEF Host, SameStamps
  <2>4. CASE h.router # "login"
    BY <1>3, <2>1, <2>4 DEF HandlePasswordResponse
  <2>5. CASE h.router = "login" /\ body = "accept"
    <3> DEFINE x == [ChangeArena([tried EXCEPT !.router = "game"]) EXCEPT !.numTries = MaxTries]
    <3>1. g = x
      BY <2>1, <2>5 DEF HandlePasswordResponse
    <3> HIDE DEF tried
    <3>2. /\ x \in Host /\ SameStamps(x, h) /\ x.router = "game" /\ Posts(x, h, "arena")
      BY <1>1, <2>2, <2>3 DEF ChangeArena, Host, SameStamps, Posts
    <3> QED
      BY <2>5, <3>1, <3>2
  <2>6. CASE h.router = "login" /\ body = "again"
    <3> DEFINE x == [tried EXCEPT !.posted = Append(@, "password")]
    <3>1. g = IF tried.numTries <= 0 THEN Disconnect(tried) ELSE x
      BY <2>1, <2>6 DEF HandlePasswordResponse
    <3> HIDE DEF tried
    <3>2. x \in Host /\ SameStamps(x, h) /\ x.router = h.router /\ Posts(x, h, "password")
      BY <1>1, <2>3 DEF Host, SameStamps, Posts
    <3>3. Disconnect(tried) \in Host /\ Disconnect(tried).router = h.router
          /\ Disconnect(tried).posted = h.posted /\ SameStamps(Disconnect(tried), h)
      BY <2>3 DEF Disconnect, Host, SameStamps
    <3> QED
      BY <2>6, <3>1, <3>2, <3>3
  <2>7. CASE h.router = "login" /\ body = "refuse"
    <3>1. g = Disconnect(tried)
      BY <2>1, <2>7 DEF HandlePasswordResponse
    <3> HIDE DEF tried
    <3>2. Disconnect(tried) \in Host /\ Disconnect(tried).router = h.router
          /\ Disconnect(tried).posted = h.posted /\ SameStamps(Disconnect(tried), h)
      BY <2>3 DEF Disconnect, Host, SameStamps
    <3> QED
      BY <3>1, <3>2
  <2> QED
    BY <1>5, <2>4, <2>5, <2>6, <2>7 DEF Responses
<1>6. CASE body = "sync"
  <2>1. g = HandleSynchronization(h)
    BY <1>6, ConstantsAssumption DEF GotMessage, Responses
  <2>2. g \in Host /\ g.router = h.router /\ g.posted = h.posted /\ SameStamps(g, h)
    BY <2>1 DEF HandleSynchronization, Host, SameStamps
  <2> QED
    BY <2>2
<1>7. CASE body \in Commands
  <2>1. g = HandleChat(h, body)
    BY <1>7, ConstantsAssumption DEF GotMessage, Responses
  <2>2. CASE h.router # "game"
    BY <1>3, <2>1, <2>2 DEF HandleChat
  <2>3. CASE h.router = "game" /\ body = "restart"
    <3> DEFINE d == Disconnect(h)
               c == Connect(ResetSession(d))
    <3>1. g = [c EXCEPT !.killMe = FALSE]
      BY <2>1, <2>3 DEF HandleChat, RestartHost, GotDisconnect
    <3>2. d \in Host
      BY DEF Disconnect, Host
    <3> HIDE DEF d
    <3>3. Sound(c) /\ Accounted(c) /\ c.renewed /\ c.remoteStep = 0 /\ c.posted = <<>>
          /\ c.router = "handshake"
      BY <3>2, RenewedIs
    <3>4. c \in Host /\ Blank(c)
      BY <3>3 DEF Sound
    <3> HIDE DEF c
    <3>5. /\ g \in Host /\ SameStamps(g, c) /\ g.router = c.router /\ g.posted = c.posted
      BY <3>1, <3>4 DEF Host, SameStamps
    <3>6. Sound(g) /\ Accounted(g)
      BY <3>3, <3>4, <3>5
        DEF Sound, Accounted, SameStamps, Blank, Passwords, Pending
    <3>7. g.renewed /\ g.remoteStep = 0
      BY <3>3, <3>5 DEF SameStamps
    <3> QED
      BY <2>3, <3>5, <3>6, <3>7
  <2>4. CASE h.router = "game" /\ body = "close"
    BY <1>4, <2>1, <2>4 DEF HandleChat
  <2>5. CASE h.router = "game" /\ body = "go"
    <3>1. g = ChangeArena(h)
      BY <2>1, <2>5 DEF HandleChat
    <3>2. g \in Host /\ SameStamps(g, h) /\ g.router = h.router /\ Posts(g, h, "arena")
      BY <1>1, <3>1 DEF ChangeArena, Host, SameStamps, Posts
    <3> QED
      BY <2>5, <3>2
  <2> QED
    BY <1>7, <2>2, <2>3, <2>4, <2>5, ConstantsAssumption
<1> QED
  BY <1>5, <1>6, <1>7 DEF Body

(* The handler of the next stamp runs, once in a session: what it posts    *)
(* replaces the response that it is about.                                 *)
LEMMA ProcessKeeps ==
    ASSUME TypeOK, NEW h, Sound(h), ~h.renewed, h.router # "handshake",
           NEW id \in 0 .. Len(out) - 1, id = h.remoteStep,
           "restart" \notin Commands => h.acked \subseteq h.processed \cup h.received \cup {id}
    PROVE  LET p == Process(h, id)
           IN  /\ Sound(p) /\ Accounted(p)
               /\ p.renewed \/ id \in p.processed
<1> DEFINE body == out[id + 1]
           g == GotMessage(h, body)
           p == Process(h, id)
<1> SUFFICES /\ Sound(p) /\ Accounted(p) /\ (p.renewed \/ id \in p.processed)
  BY Zenon
<1>1. /\ h \in Host /\ body \in Body /\ Len(out) \in Nat /\ Len(out) <= MaxStamps
      /\ id \in 0 .. MaxStamps /\ id + 1 \in 0 .. MaxStamps + 1 /\ MaxStamps \in Nat
  BY ConstantsAssumption DEF Sound, TypeOK
<1>2. p = [g EXCEPT !.remoteStep = @ + 1,
                    !.processed = IF g.renewed THEN @ ELSE @ \cup {id}]
  BY DEF Process
<1> HIDE DEF body, g, p
<1>3. /\ g \in Host
      /\ \/ /\ body = "restart" /\ h.router = "game"
            /\ Sound(g) /\ Accounted(g) /\ g.renewed /\ g.remoteStep = 0
         \/ /\ SameStamps(g, h)
            /\ \/ g.router = h.router /\ g.posted = h.posted
               \/ h.router = "login" /\ body = "accept" /\ g.router = "game"
                  /\ Posts(g, h, "arena")
               \/ h.router = "login" /\ body = "again" /\ g.router = "login"
                  /\ Posts(g, h, "password")
               \/ h.router = "game" /\ body = "go" /\ g.router = "game"
                  /\ Posts(g, h, "arena")
  BY <1>1, GotMessageIs DEF g
<1>4. /\ p.remoteStep = g.remoteStep + 1
      /\ p.processed = IF g.renewed THEN g.processed ELSE g.processed \cup {id}
      /\ p.connecting = g.connecting /\ p.dial = g.dial /\ p.renewed = g.renewed
      /\ p.received = g.received /\ p.acked = g.acked
      /\ p.router = g.router /\ p.posted = g.posted
  BY <1>2, <1>3 DEF Host
<1>5. g.remoteStep + 1 \in 0 .. MaxStamps + 1 => p \in Host
  BY <1>1, <1>2, <1>3 DEF Host
<1>6. CASE /\ body = "restart" /\ h.router = "game"
           /\ Sound(g) /\ Accounted(g) /\ g.renewed /\ g.remoteStep = 0
  <2>1. "restart" \in Commands
    BY <1>1, <1>6 DEF Body, Responses
  <2>2. g.router = "handshake" /\ Blank(g)
    BY <1>6 DEF Sound
  <2>3. Blank(p) /\ p.router = "handshake" /\ p.renewed /\ p.remoteStep = 1 /\ p \in Host
    BY <1>1, <1>4, <1>5, <1>6, <2>2 DEF Blank
  <2>4. Sound(p) /\ Accounted(p)
    BY <2>1, <2>3 DEF Sound, Accounted, Blank
  <2> QED
    BY <2>3, <2>4
<1>7. CASE /\ SameStamps(g, h)
           /\ \/ g.router = h.router /\ g.posted = h.posted
              \/ h.router = "login" /\ body = "accept" /\ g.router = "game"
                 /\ Posts(g, h, "arena")
              \/ h.router = "login" /\ body = "again" /\ g.router = "login"
                 /\ Posts(g, h, "password")
              \/ h.router = "game" /\ body = "go" /\ g.router = "game"
                 /\ Posts(g, h, "arena")
  <2>1. /\ p.processed = h.processed \cup {id} /\ p.remoteStep = id + 1
        /\ p.received = h.received /\ p.acked = h.acked /\ p.connecting = h.connecting
        /\ p.dial = h.dial /\ ~p.renewed /\ p.router = g.router /\ p.posted = g.posted
    BY <1>4, <1>7 DEF SameStamps
  <2>2. p \in Host
    BY <1>1, <1>5, <1>7 DEF SameStamps
  <2>3. p.router # "handshake"
    BY <1>7, <2>1
  <2>4. id \notin h.processed
    BY <1>1 DEF Sound
  <2>5. Pending(p) = Pending(h) \ {id}
    BY <2>1 DEF Pending
  <2>6. \/ Passwords(p) = Passwords(h)
        \/ /\ body = "again"
           /\ Passwords(p) = Passwords(h) \cup {Len(h.posted) + 1}
    <3>1. h.posted \in Seq(Request)
      BY <1>1, HostIs
    <3> DEFINE of(q) == {k \in DOMAIN q : q[k] = "password"}
    <3>2. /\ of(Append(h.posted, "arena")) = of(h.posted)
          /\ of(Append(h.posted, "password")) = of(h.posted) \cup {Len(h.posted) + 1}
      <4>1. "arena" \in Request /\ "password" \in Request /\ "arena" # "password"
        BY DEF Request
      <4> QED
        BY <3>1, <4>1, PostedIs
    <3>3. Passwords(p) = of(p.posted) /\ Passwords(h) = of(h.posted)
      BY DEF Passwords
    <3> HIDE DEF of
    <3> QED
      BY <1>7, <2>1, <3>2, <3>3 DEF Posts
  <2>7. AtMostOne(Passwords(p), Pending(p))
    <3>1. AtMostOne(Passwords(h), Pending(h))
      BY DEF Sound
    <3>2. CASE Passwords(p) = Passwords(h)
      BY <2>5, <3>1, <3>2 DEF AtMostOne
    <3>3. CASE /\ body = "again"
               /\ Passwords(p) = Passwords(h) \cup {Len(h.posted) + 1}
      <4>1. id \in Pending(h)
        BY <2>4, <3>3 DEF Pending, Responses, body
      <4> QED
        BY <2>5, <3>1, <3>3, <4>1 DEF AtMostOne
    <3> QED
      BY <2>6, <3>2, <3>3
  <2>8. p.router = "game" => \E i \in p.processed : out[i + 1] = "accept"
    <3>1. h.router = "game" => \E i \in h.processed : out[i + 1] = "accept"
      BY DEF Sound
    <3> QED
      BY <1>7, <2>1, <3>1 DEF body
  <2>9. p.received \cup p.processed \cup p.acked \subseteq 0 .. Len(out) - 1
    BY <2>1 DEF Sound
  <2>10. p.processed \subseteq 0 .. p.remoteStep - 1
    BY <1>1, <2>1 DEF Sound
  <2>11. "restart" \notin Commands => 0 .. p.remoteStep - 1 \subseteq p.processed
    BY <1>1, <2>1 DEF Sound
  <2>12. Sound(p)
    BY <2>1, <2>2, <2>3, <2>7, <2>8, <2>9, <2>10, <2>11 DEF Sound
  <2>13. Accounted(p)
    BY <2>1 DEF Accounted
  <2> QED
    BY <2>1, <2>12, <2>13
<1> QED
  BY <1>3, <1>6, <1>7

SoundHosts == {h \in Host : Sound(h) /\ Accounted(h)}

(* One turn of the loop of checkReceived.                                  *)
LEMMA DrainOneKeeps ==
    ASSUME TypeOK, NEW h \in SoundHosts
    PROVE  DrainOne(h) \in SoundHosts
<1> DEFINE id == h.remoteStep
           p == Process(h, id)
           d == [p EXCEPT !.received = @ \ {id}, !.dangling = p.renewed]
<1>1. h \in Host /\ Sound(h) /\ Accounted(h)
  BY DEF SoundHosts
<1>2. CASE h.renewed \/ id \notin h.received
  BY <1>2 DEF DrainOne
<1>3. CASE ~h.renewed /\ id \in h.received
  <2>1. DrainOne(h) = d
    BY <1>3 DEF DrainOne
  <2>2. h.router # "handshake" /\ id \in 0 .. Len(out) - 1
    BY <1>1, <1>3 DEF Sound, Blank
  <2>3. Sound(p) /\ Accounted(p) /\ (p.renewed \/ id \in p.processed)
    <3>1. "restart" \notin Commands => h.acked \subseteq h.processed \cup h.received \cup {id}
      BY <1>1 DEF Accounted
    <3> QED
      BY <1>1, <1>3, <2>2, <3>1, ProcessKeeps
  <2> HIDE DEF p
  <2>4. p \in Host
    BY <2>3 DEF Sound
  <2>5. /\ d \in Host /\ d.received = p.received \ {id}
        /\ d.remoteStep = p.remoteStep /\ d.processed = p.processed
        /\ d.connecting = p.connecting /\ d.dial = p.dial /\ d.renewed = p.renewed
        /\ d.acked = p.acked /\ d.router = p.router /\ d.posted = p.posted
    BY <2>4 DEF Host
  <2> HIDE DEF d
  <2>6. Passwords(d) = Passwords(p) /\ Pending(d) = Pending(p) /\ (Blank(p) => Blank(d))
    BY <2>5 DEF Passwords, Pending, Blank
  <2>7. Sound(d)
    BY <2>3, <2>5, <2>6 DEF Sound
  <2>8. Accounted(d)
    <3>1. CASE p.renewed
      <4>1. d.acked = {}
        BY <2>3, <2>5, <3>1 DEF Sound, Blank
      <4> QED
        BY <4>1 DEF Accounted
    <3>2. CASE ~p.renewed
      BY <2>3, <2>5, <3>2 DEF Accounted
    <3> QED
      BY <3>1, <3>2
  <2> QED
    BY <2>1, <2>5, <2>7, <2>8 DEF SoundHosts
<1> QED
  BY <1>2, <1>3

(* The loop.                                                               *)
LEMMA DrainKeeps ==
    ASSUME TypeOK, NEW h \in SoundHosts
    PROVE  Drain(h) \in SoundHosts
<1> DEFINE N == MaxStamps
           All == SoundHosts
           Turn(q) == DrainOne(q)
           Def(f) == [n \in 0 .. N |-> IF n = 0 THEN h ELSE Turn(f[n - 1])]
           up == CHOOSE f : f = Def(f)
           step == [n \in 1 .. N |-> [q \in All |-> Turn(q)]]
<1>1. N \in Nat /\ h \in All /\ \A q \in All : Turn(q) \in All
  BY ConstantsAssumption, DrainOneKeeps
<1>2. Drain(h) = up[N]
  <2>1. Drain(h) = (CHOOSE f : f = [n \in 0 .. MaxStamps |->
                                      IF n = 0 THEN h ELSE DrainOne(f[n - 1])])[MaxStamps]
    BY Zenon DEF Drain
  <2> QED
    BY <2>1, Zenon
<1> HIDE DEF N, All, Turn
<1>3. step \in [1 .. N -> [All -> All]]
  BY <1>1
<1>4. PICK f \in [0 .. N -> All] : Iterates(f, N, h, step)
  <2> HIDE DEF step
  <2> QED
    BY <1>1, <1>3, Iteration
<1>5. f = Def(f)
  <2>1. ASSUME NEW n \in 1 .. N PROVE f[n] = Turn(f[n - 1])
    <3>1. f[n - 1] \in All
      BY <1>1
    <3> QED
      BY <1>4, <3>1 DEF Iterates
  <2>2. \A n \in 0 .. N : f[n] = IF n = 0 THEN h ELSE Turn(f[n - 1])
    BY <1>1, <1>4, <2>1 DEF Iterates
  <2> QED
    BY <2>2
<1>6. up = Def(up)
  <2> HIDE DEF Def
  <2> QED
    BY <1>5, Zenon
<1> HIDE DEF up
<1>7. up[0] = h /\ \A n \in 1 .. N : up[n] = Turn(up[n - 1])
  <2> DEFINE g == Def(up)
  <2>1. \A n \in 0 .. N : g[n] = IF n = 0 THEN h ELSE Turn(up[n - 1])
    OBVIOUS
  <2>2. 0 \in 0 .. N /\ \A n \in 1 .. N : n \in 0 .. N /\ n # 0
    BY <1>1
  <2> HIDE DEF g
  <2>3. up = g
    BY <1>6 DEF g
  <2> QED
    BY <2>1, <2>2, <2>3
<1>8. \A n \in 0 .. N : up[n] \in All
  <2> DEFINE T == {n \in 0 .. N : up[n] \in All}
  <2>1. 0 \in T
    BY <1>1, <1>7
  <2>2. ASSUME NEW n \in 0 .. N - 1, n \in T PROVE n + 1 \in T
    <3>1. n + 1 \in 1 .. N /\ (n + 1) - 1 = n
      BY <1>1
    <3>2. up[n + 1] = Turn(up[n])
      BY <1>7, <3>1
    <3> QED
      BY <1>1, <2>2, <3>1, <3>2
  <2>3. 0 .. N \subseteq T
    <3> HIDE DEF T
    <3> QED
      BY <1>1, <2>1, <2>2, InductionUpTo
  <2> QED
    BY <2>3
<1>9. up[N] \in All
  BY <1>1, <1>8
<1> QED
  BY <1>2, <1>9 DEF All

(* gotReliable(): what is acknowledged is handled, or kept.                *)
LEMMA GotReliableKeeps ==
    ASSUME TypeOK, NEW h \in SoundHosts, NEW id \in 0 .. Len(out) - 1
    PROVE  GotReliable(h, id) \in SoundHosts
<1> DEFINE a == [h EXCEPT !.acked = @ \cup {id}]
<1>1. h \in Host /\ Sound(h) /\ Accounted(h)
  BY DEF SoundHosts
<1>2. CASE h.router = "handshake"
  BY <1>2 DEF GotReliable
<1>3. CASE h.router # "handshake"
  <2>1. GotReliable(h, id) = CheckReceived(a, id)
    BY <1>3 DEF GotReliable
  <2>2. Len(out) \in Nat /\ Len(out) <= MaxStamps /\ MaxStamps \in Nat /\ id \in 0 .. MaxStamps
    BY ConstantsAssumption DEF TypeOK
  <2>3. /\ a \in Host /\ a.acked = h.acked \cup {id}
        /\ a.remoteStep = h.remoteStep /\ a.processed = h.processed /\ a.received = h.received
        /\ a.connecting = h.connecting /\ a.dial = h.dial /\ a.renewed = h.renewed
        /\ a.router = h.router /\ a.posted = h.posted
    BY <1>1, <2>2 DEF Host
  <2> HIDE DEF a
  <2>4. Passwords(a) = Passwords(h) /\ Pending(a) = Pending(h) /\ ~a.renewed
    BY <1>1, <1>3, <2>3 DEF Passwords, Pending, Sound
  <2>5. Sound(a)
    BY <1>1, <1>3, <2>3, <2>4 DEF Sound
  <2>6. "restart" \notin Commands => a.acked \subseteq a.processed \cup a.received \cup {id}
    BY <1>1, <2>3 DEF Accounted
  <2>7. a.remoteStep \in Nat
    BY <2>3, HostIs
  <2>8. CASE id < a.remoteStep
    <3>1. CheckReceived(a, id) = a
      BY <2>7, <2>8 DEF CheckReceived
    <3>2. "restart" \notin Commands => id \in a.processed
      BY <2>5, <2>7, <2>8 DEF Sound
    <3> QED
      BY <2>1, <2>3, <2>5, <2>6, <3>1, <3>2 DEF SoundHosts, Accounted
  <2>9. CASE id = a.remoteStep
    <3>1. CheckReceived(a, id) = Drain(Process(a, id))
      BY <2>7, <2>9 DEF CheckReceived
    <3>2. Sound(Process(a, id)) /\ Accounted(Process(a, id))
      BY <1>3, <2>3, <2>4, <2>5, <2>6, <2>9, ProcessKeeps
    <3>3. Process(a, id) \in SoundHosts
      BY <3>2 DEF SoundHosts, Sound
    <3> QED
      BY <2>1, <3>1, <3>3, DrainKeeps
  <2>10. CASE id > a.remoteStep
    <3> DEFINE b == [a EXCEPT !.received = @ \cup {id}]
    <3>1. CheckReceived(a, id) = b
      BY <2>7, <2>10 DEF CheckReceived
    <3>2. /\ b \in Host /\ b.received = a.received \cup {id}
          /\ b.remoteStep = a.remoteStep /\ b.processed = a.processed /\ b.acked = a.acked
          /\ b.connecting = a.connecting /\ b.dial = a.dial /\ b.renewed = a.renewed
          /\ b.router = a.router /\ b.posted = a.posted
      BY <2>2, <2>3 DEF Host
    <3> HIDE DEF b
    <3>3. Passwords(b) = Passwords(a) /\ Pending(b) = Pending(a)
      BY <3>2 DEF Passwords, Pending
    <3>4. Sound(b)
      BY <1>3, <2>3, <2>5, <3>2, <3>3 DEF Sound
    <3>5. Accounted(b)
      BY <2>6, <3>2 DEF Accounted
    <3> QED
      BY <2>1, <3>1, <3>2, <3>4, <3>5 DEF SoundHosts
  <2> QED
    BY <2>7, <2>8, <2>9, <2>10
<1> QED
  BY <1>2, <1>3

(* The messages a datagram may hold.                                       *)
LEMMA GotSpecialMessageKeeps ==
    ASSUME TypeOK, NEW h \in SoundHosts, NEW m \in Deliverable
    PROVE  GotSpecialMessage(h, m) \in SoundHosts
<1>1. h \in Host /\ Sound(h) /\ Accounted(h) /\ h.renewed \in BOOLEAN
  BY HostIs DEF SoundHosts
<1>2. m \in {EncOk, EncStale, Bye} \/ \E i \in 0 .. Len(out) - 1 : m = Stamped(i)
  BY DEF Deliverable, TypeOK
<1>3. CASE m \in {EncOk, EncStale}
  <2>1. GotSpecialMessage(h, m) \in {GotEncryptResponse(h, ~h.renewed), GotEncryptResponse(h, FALSE)}
    <3>1. CASE m = EncOk
      <4>1. m.kind = "encOk"
        BY <3>1 DEF EncOk
      <4> QED
        BY <4>1 DEF GotSpecialMessage
    <3>2. CASE m = EncStale
      <4>1. m.kind = "encStale"
        BY <3>2 DEF EncStale
      <4> QED
        BY <4>1 DEF GotSpecialMessage
    <3> QED
      BY <1>3, <3>1, <3>2
  <2>2. \A valid \in BOOLEAN : (valid => ~h.renewed) =>
            /\ Sound(GotEncryptResponse(h, valid)) /\ Accounted(GotEncryptResponse(h, valid))
    BY <1>1, GotEncryptResponseKeeps
  <2>3. /\ Sound(GotEncryptResponse(h, ~h.renewed)) /\ Accounted(GotEncryptResponse(h, ~h.renewed))
        /\ Sound(GotEncryptResponse(h, FALSE)) /\ Accounted(GotEncryptResponse(h, FALSE))
    BY <1>1, <2>2
  <2> QED
    BY <2>1, <2>3 DEF SoundHosts, Sound
<1>4. CASE m = Bye
  <2>1. GotSpecialMessage(h, m) = Connect(ResetSession(h))
    BY <1>4 DEF GotSpecialMessage, Bye, GotDisconnect
  <2> QED
    BY <1>1, <2>1, RenewedIs DEF SoundHosts, Sound
<1>5. ASSUME NEW i \in 0 .. Len(out) - 1, m = Stamped(i)
      PROVE  GotSpecialMessage(h, m) \in SoundHosts
  <2>1. GotSpecialMessage(h, m) = GotReliable(h, i)
    BY <1>5 DEF GotSpecialMessage, Stamped
  <2> QED
    BY <2>1, GotReliableKeeps
<1> QED
  BY <1>2, <1>3, <1>4, <1>5

(* A datagram, whatever its first message does.                            *)
LEMMA GotClusterKeeps ==
    ASSUME TypeOK, Sound(host), Accounted(host), NEW ms \in Datagrams
    PROVE  GotCluster(host, ms) \in SoundHosts
<1>1. host \in SoundHosts
  BY DEF SoundHosts, Sound
<1>2. \/ \E m \in Deliverable : ms = <<m>>
      \/ \E m1, m2 \in Deliverable : ms = <<m1, m2>>
  BY DEF Datagrams
<1>3. ASSUME NEW m \in Deliverable, ms = <<m>> PROVE GotCluster(host, ms) \in SoundHosts
  <2>1. Len(ms) = 1 /\ ms[1] = m
    BY <1>3
  <2> QED
    BY <1>1, <2>1, GotSpecialMessageKeeps DEF GotCluster
<1>4. ASSUME NEW m1 \in Deliverable, NEW m2 \in Deliverable, ms = <<m1, m2>>
      PROVE  GotCluster(host, ms) \in SoundHosts
  <2>1. Len(ms) = 2 /\ ms[1] = m1 /\ ms[2] = m2
    BY <1>4
  <2>2. GotSpecialMessage(host, m1) \in SoundHosts
    BY <1>1, GotSpecialMessageKeeps
  <2> QED
    BY <2>1, <2>2, GotSpecialMessageKeeps DEF GotCluster
<1> QED
  BY <1>2, <1>3, <1>4
-----------------------------------------------------------------------------
(* The end of a call: a new session makes the server's one an earlier one. *)
LEMMA OutcomeKeeps ==
    ASSUME IInv, NEW h \in SoundHosts, host' \in Outcomes(h), BecomeStale(h.renewed),
           net' \subseteq {EncOk, EncStale, Bye}, calm' \in BOOLEAN
    PROVE  IInv'
<1>1. h \in Host /\ Sound(h) /\ Accounted(h)
  BY DEF SoundHosts
<1>2. /\ host' \in Host /\ host'.renewed = FALSE /\ host'.dangling = FALSE
      /\ host'.received = h.received /\ host'.acked = h.acked
      /\ host'.remoteStep = h.remoteStep /\ host'.processed = h.processed
      /\ host'.connecting = h.connecting /\ host'.dial = h.dial
      /\ host'.router = h.router /\ host'.posted = h.posted
  <2> DEFINE kept == [h EXCEPT !.renewed = FALSE, !.dangling = FALSE]
  <2>1. host' = kept \/ host' = [kept EXCEPT !.listed = FALSE]
    BY DEF Outcomes
  <2> QED
    BY <1>1, <2>1 DEF Host
<1>3. TypeOK
  BY DEF IInv
<1>4. Accounted(host)'
  BY <1>1, <1>2 DEF Accounted
<1>5. CASE h.renewed
  <2>1. out' = <<>> /\ srv' \in New
    BY <1>5 DEF BecomeStale, New
  <2>2. h.router = "handshake" /\ Blank(h)
    BY <1>1, <1>5 DEF Sound
  <2>3. TypeOK'
    <3>1. <<>> \in Seq(Body) /\ Len(<<>>) <= MaxStamps
      BY ConstantsAssumption
    <3> QED
      BY <1>2, <2>1, <3>1 DEF TypeOK, New
  <2>4. AtMostOne(Passwords(host'), Pending(host)')
    <3>1. Passwords(host') = {}
      BY <1>2, <2>2 DEF Passwords, Blank
    <3>2. Pending(host)' = {}
      BY <2>1 DEF Pending
    <3> QED
      BY <3>1, <3>2 DEF AtMostOne
  <2>5. h.remoteStep \in Nat
    BY <1>1, HostIs
  <2>6. Sound(host)'
    BY <1>1, <1>2, <1>5, <2>1, <2>2, <2>4 DEF Sound, Blank, Passwords, AtMostOne
  <2> QED
    BY <1>2, <1>4, <2>3, <2>6 DEF IInv
<1>6. CASE ~h.renewed
  <2>1. out' = out /\ srv' = srv
    BY <1>6 DEF BecomeStale
  <2>2. TypeOK'
    BY <1>2, <1>3, <2>1 DEF TypeOK
  <2>3. Passwords(host') = Passwords(h) /\ Pending(host)' = Pending(h)
    BY <1>2, <2>1 DEF Passwords, Pending
  <2>4. Sound(host)'
    BY <1>1, <1>2, <1>6, <2>1, <2>3 DEF Sound, Blank, Passwords, AtMostOne
  <2> QED
    BY <1>2, <1>4, <2>2, <2>4 DEF IInv
<1> QED
  BY <1>5, <1>6

(* The host changes in what the invariant does not speak of, or in dial,   *)
(* at a time when it may.                                                  *)
LEMMA DialKeeps ==
    ASSUME IInv, NEW dial \in BOOLEAN, NEW connecting \in BOOLEAN,
           host' = [host EXCEPT !.dial = dial, !.connecting = connecting],
           connecting => host.connecting, dial => host.dial \/ host.connecting,
           out' = out, srv' = srv \/ (srv' \in New),
           net' \subseteq {EncOk, EncStale, Bye}, calm' \in BOOLEAN
    PROVE  IInv'
<1>1. TypeOK /\ Sound(host) /\ Accounted(host) /\ ~host.renewed /\ ~host.dangling /\ host \in Host
  BY DEF IInv, TypeOK
<1>2. /\ host' \in Host /\ host'.renewed = host.renewed /\ host'.dangling = host.dangling
      /\ host'.received = host.received /\ host'.acked = host.acked
      /\ host'.remoteStep = host.remoteStep /\ host'.processed = host.processed
      /\ host'.connecting = connecting /\ host'.dial = dial
      /\ host'.router = host.router /\ host'.posted = host.posted
  BY <1>1 DEF Host
<1>3. TypeOK'
  BY <1>1, <1>2 DEF TypeOK, New
<1>4. Passwords(host') = Passwords(host) /\ Pending(host)' = Pending(host)
  BY <1>2 DEF Passwords, Pending
<1>5. Sound(host)'
  BY <1>1, <1>2, <1>4 DEF Sound, Blank, Passwords, AtMostOne
<1>6. Accounted(host)'
  BY <1>1, <1>2 DEF Accounted
<1> QED
  BY <1>1, <1>2, <1>3, <1>5, <1>6 DEF IInv

(* What another message of the server adds to what is pending.             *)
LEMMA OutIs ==
    ASSUME TypeOK, Len(out) < MaxStamps, NEW body \in Body, NEW h, Sound(h),
           out' = Append(out, body)
    PROVE  /\ out' \in Seq(Body) /\ Len(out') <= MaxStamps /\ Len(out') = Len(out) + 1
           /\ Len(out) \in Nat
           /\ \A i \in 0 .. Len(out) - 1 : out'[i + 1] = out[i + 1]
           /\ {i \in 0 .. Len(out') - 1 : out'[i + 1] \in Responses /\ i \notin h.processed}
              = Pending(h) \cup IF body \in Responses THEN {Len(out)} ELSE {}
<1>1. /\ out \in Seq(Body) /\ Len(out) \in Nat /\ MaxStamps \in Nat
      /\ h.processed \subseteq 0 .. Len(out) - 1
  BY ConstantsAssumption DEF TypeOK, Sound
<1>2. /\ out' \in Seq(Body) /\ Len(out') = Len(out) + 1
      /\ \A k \in 1 .. Len(out) : out'[k] = out[k]
      /\ out'[Len(out) + 1] = body
  BY <1>1, AppendProperties
<1>3. \A i \in 0 .. Len(out) - 1 : out'[i + 1] = out[i + 1]
  BY <1>1, <1>2
<1>4. Len(out) \notin h.processed
  BY <1>1
<1>5. 0 .. Len(out') - 1 = (0 .. Len(out) - 1) \cup {Len(out)}
  BY <1>1, <1>2
<1> QED
  BY <1>1, <1>2, <1>3, <1>4, <1>5 DEF Pending

(* The server takes a request and answers it: a response for the password. *)
LEMMA ReplyKeeps ==
    ASSUME IInv, NEW request \in Request, NEW body \in Body,
           NEW next \in {"connected", "authed", "arena"},
           Reply(request, body, next), request = "password" <=> body \in Responses
    PROVE  IInv'
<1>1. /\ TypeOK /\ Sound(host) /\ Accounted(host) /\ ~host.renewed /\ ~host.dangling
      /\ host \in Host /\ host.posted \in Seq(Request) /\ Len(host.posted) \in Nat
  <2>1. TypeOK /\ Sound(host) /\ Accounted(host) /\ ~host.renewed /\ ~host.dangling
    BY DEF IInv
  <2>2. host \in Host
    BY <2>1 DEF TypeOK
  <2>3. host.posted \in Seq(Request)
    BY <2>2, HostIs
  <2> QED
    BY <2>1, <2>2, <2>3
<1>2. /\ ~host.dial /\ Len(out) < MaxStamps
      /\ host.posted # <<>> /\ Head(host.posted) = request
      /\ host' = [host EXCEPT !.posted = Tail(@)]
      /\ out' = Append(out, body)
      /\ srv' = next
      /\ UNCHANGED <<net, calm>>
  BY DEF Reply
<1> DEFINE rest == Tail(host.posted)
<1>3. /\ rest \in Seq(Request) /\ DOMAIN rest = 1 .. Len(host.posted) - 1
      /\ \A k \in DOMAIN rest : k + 1 \in DOMAIN host.posted /\ rest[k] = host.posted[k + 1]
      /\ 1 \in DOMAIN host.posted /\ host.posted[1] = request
  <2>1. /\ rest \in Seq(Request) /\ Len(rest) = Len(host.posted) - 1
        /\ \A k \in 1 .. Len(rest) : rest[k] = host.posted[k + 1]
    BY <1>1, <1>2, HeadTailProperties
  <2>2. Len(host.posted) >= 1 /\ DOMAIN host.posted = 1 .. Len(host.posted)
    BY <1>1, <1>2
  <2> HIDE DEF rest
  <2>3. DOMAIN rest = 1 .. Len(rest)
    BY <2>1
  <2> QED
    BY <1>1, <1>2, <2>1, <2>2, <2>3
<1> HIDE DEF rest
<1>4. /\ host' \in Host /\ host'.renewed = host.renewed /\ host'.dangling = host.dangling
      /\ host'.received = host.received /\ host'.acked = host.acked
      /\ host'.remoteStep = host.remoteStep /\ host'.processed = host.processed
      /\ host'.connecting = host.connecting /\ host'.dial = host.dial
      /\ host'.router = host.router /\ host'.posted = rest
  BY <1>1, <1>2, <1>3 DEF Host, rest
<1>5. /\ out' \in Seq(Body) /\ Len(out') <= MaxStamps /\ Len(out') = Len(out) + 1
      /\ Len(out) \in Nat
      /\ \A i \in 0 .. Len(out) - 1 : out'[i + 1] = out[i + 1]
      /\ {i \in 0 .. Len(out') - 1 : out'[i + 1] \in Responses /\ i \notin host.processed}
         = Pending(host) \cup IF body \in Responses THEN {Len(out)} ELSE {}
  BY <1>1, <1>2, OutIs
<1>6. Pending(host)' = Pending(host) \cup IF body \in Responses THEN {Len(out)} ELSE {}
  BY <1>4, <1>5 DEF Pending
<1>7. \A k \in Passwords(host') : k \in Nat \ {0} /\ k + 1 \in Passwords(host)
  BY <1>3, <1>4 DEF Passwords
<1>8. AtMostOne(Passwords(host'), Pending(host)')
  <2>1. AtMostOne(Passwords(host), Pending(host))
    BY <1>1 DEF Sound
  <2>2. CASE request = "password"
    <3>1. 1 \in Passwords(host)
      BY <1>3, <2>2 DEF Passwords
    <3>2. Passwords(host') = {}
      BY <1>7, <2>1, <3>1 DEF AtMostOne
    <3> QED
      BY <1>6, <2>1, <2>2, <3>1, <3>2 DEF AtMostOne
  <2>3. CASE request # "password"
    <3>1. Pending(host)' = Pending(host)
      BY <1>6, <2>3
    <3> QED
      BY <1>7, <2>1, <3>1 DEF AtMostOne
  <2> QED
    BY <2>2, <2>3
<1>9. host.router # "handshake"
  BY <1>1, <1>2 DEF Sound, Blank
<1>10. Sound(host)'
  <2>1. host'.received \cup host'.processed \cup host'.acked \subseteq 0 .. Len(out') - 1
    BY <1>1, <1>4, <1>5 DEF Sound
  <2>2. host'.router = "game" => \E i \in host'.processed : out'[i + 1] = "accept"
    BY <1>1, <1>4, <1>5 DEF Sound
  <2> QED
    BY <1>1, <1>2, <1>4, <1>8, <1>9, <2>1, <2>2 DEF Sound
<1>11. Accounted(host)'
  BY <1>1, <1>4 DEF Accounted
<1>12. TypeOK'
  BY <1>1, <1>2, <1>4, <1>5 DEF TypeOK
<1> QED
  BY <1>1, <1>4, <1>10, <1>11, <1>12 DEF IInv

(* The server sends a message that is no response.                         *)
LEMMA SendGameMessageKeeps == ASSUME IInv, SendGameMessage PROVE IInv'
<1>1. PICK body \in {"sync"} \cup Commands :
        /\ Len(out) + Owed + (IF body = "go" THEN 1 ELSE 0) < MaxStamps
        /\ out' = Append(out, body)
  BY DEF SendGameMessage
<1>2. srv = "arena" /\ UNCHANGED <<host, srv, net, calm>>
  BY DEF SendGameMessage
<1>3. body \in Body /\ body \notin Responses
  BY ConstantsAssumption DEF Body, Responses
<1>4. /\ TypeOK /\ Sound(host) /\ Accounted(host) /\ ~host.renewed /\ ~host.dangling
      /\ host \in Host /\ host.posted \in Seq(Request)
  <2>1. TypeOK /\ Sound(host) /\ Accounted(host) /\ ~host.renewed /\ ~host.dangling
    BY DEF IInv
  <2>2. host \in Host
    BY <2>1 DEF TypeOK
  <2> QED
    BY <2>1, <2>2, HostIs
<1>5. Len(out) < MaxStamps
  <2>1. Owed \in Nat
    <3> DEFINE G == {i \in 0 .. Len(out) - 1 : out[i + 1] = "go" /\ i \notin host.processed}
               A == {k \in DOMAIN host.posted : host.posted[k] = "arena"}
    <3>1. IsFiniteSet(G)
      <4>1. IsFiniteSet(0 .. Len(out) - 1)
        BY <1>4, FS_Interval DEF TypeOK
      <4> QED
        BY <4>1, FS_Subset
    <3>2. IsFiniteSet(A)
      <4>1. IsFiniteSet(DOMAIN host.posted)
        <5>1. DOMAIN host.posted = 1 .. Len(host.posted) /\ Len(host.posted) \in Nat
          BY <1>4
        <5> QED
          BY <5>1, FS_Interval
      <4> QED
        BY <4>1, FS_Subset
    <3> HIDE DEF G, A
    <3>3. Cardinality(G) \in Nat /\ Cardinality(A) \in Nat
      BY <3>1, <3>2, FS_CardinalityType
    <3> QED
      BY <3>3 DEF Owed, G, A
  <2>2. Len(out) \in Nat /\ MaxStamps \in Nat
    BY <1>4, ConstantsAssumption DEF TypeOK
  <2> QED
    BY <1>1, <2>1, <2>2
<1>6. /\ out' \in Seq(Body) /\ Len(out') <= MaxStamps /\ Len(out') = Len(out) + 1
      /\ Len(out) \in Nat
      /\ \A i \in 0 .. Len(out) - 1 : out'[i + 1] = out[i + 1]
      /\ {i \in 0 .. Len(out') - 1 : out'[i + 1] \in Responses /\ i \notin host.processed}
         = Pending(host)
  BY <1>1, <1>3, <1>4, <1>5, OutIs
<1>7. Pending(host)' = Pending(host)
  BY <1>2, <1>6 DEF Pending
<1>8. host.router # "handshake" /\ ~host.dial
  BY <1>2, <1>4 DEF Sound, New
<1>9. Sound(host)'
  <2>1. host'.received \cup host'.processed \cup host'.acked \subseteq 0 .. Len(out') - 1
    BY <1>2, <1>4, <1>6 DEF Sound
  <2>2. host'.router = "game" => \E i \in host'.processed : out'[i + 1] = "accept"
    BY <1>2, <1>4, <1>6 DEF Sound
  <2> QED
    BY <1>2, <1>4, <1>7, <1>8, <2>1, <2>2 DEF Sound, Passwords
<1>10. TypeOK'
  BY <1>2, <1>4, <1>6 DEF TypeOK
<1>11. Accounted(host)'
  BY <1>2, <1>4 DEF Accounted
<1> QED
  BY <1>2, <1>4, <1>9, <1>10, <1>11 DEF IInv

(* A new host is connecting.                                               *)
LEMMA InitEstablishes == Init => IInv
<1> SUFFICES ASSUME Init PROVE IInv
  OBVIOUS
<1>1. /\ host.connecting = TRUE /\ host.router = "handshake" /\ Blank(host)
      /\ host.remoteStep = 0 /\ host.renewed = FALSE /\ host.dangling = FALSE
      /\ srv = "none" /\ out = <<>> /\ net = {} /\ calm = FALSE
  BY DEF Init, Blank
<1>2. host \in Host
  <2>1. /\ MaxTries \in MinTries .. MaxTries /\ 0 \in 0 .. MaxStamps + 1
        /\ <<>> \in Seq(Request)
    BY ConstantsAssumption DEF MinTries
  <2> QED
    BY <2>1 DEF Init, Host
<1>3. TypeOK
  <2>1. <<>> \in Seq(Body) /\ Len(<<>>) <= MaxStamps
    BY ConstantsAssumption
  <2> QED
    BY <1>1, <1>2, <2>1 DEF TypeOK
<1>4. Passwords(host) = {} /\ Pending(host) = {}
  BY <1>1 DEF Passwords, Pending, Blank
<1>5. Sound(host) /\ Accounted(host)
  BY <1>1, <1>2, <1>4 DEF Sound, Accounted, Blank, New, AtMostOne
<1> QED
  BY <1>1, <1>3, <1>5 DEF IInv

(* Every step.                                                             *)
LEMMA NextPreserves == IInv /\ [Next]_vars => IInv'
<1> SUFFICES ASSUME IInv, [Next]_vars PROVE IInv'
  OBVIOUS
<1>1. TypeOK /\ Sound(host) /\ Accounted(host) /\ host \in Host
      /\ net \subseteq {EncOk, EncStale, Bye} /\ calm \in BOOLEAN
  BY DEF IInv, TypeOK
<1>2. \A ms \in SUBSET {EncOk, EncStale, Bye} : Outdated(ms) \subseteq {EncOk, EncStale, Bye}
  BY DEF Outdated
<1>3. /\ Connect(ResetSession(host)) \in SoundHosts
      /\ Connect(ResetSession(host)).renewed
  <2>1. Sound(Connect(ResetSession(host))) /\ Accounted(Connect(ResetSession(host)))
        /\ Connect(ResetSession(host)).renewed
    BY <1>1, RenewedIs
  <2> QED
    BY <2>1 DEF SoundHosts, Sound
<1>4. ASSUME NEW ms \in Datagrams, ReceiveDatagram(ms) PROVE IInv'
  <2> DEFINE h == GotCluster(host, ms)
             rest == net \ {ms[k] : k \in DOMAIN ms}
  <2>1. /\ host' \in Outcomes(h) /\ BecomeStale(h.renewed)
        /\ net' = IF h.renewed THEN Outdated(rest) ELSE rest
        /\ calm' = calm
    BY <1>4 DEF ReceiveDatagram
  <2>2. h \in SoundHosts
    BY <1>1, GotClusterKeeps
  <2>3. net' \subseteq {EncOk, EncStale, Bye}
    BY <1>1, <1>2, <2>1
  <2> HIDE DEF h
  <2> QED
    BY <1>1, <2>1, <2>2, <2>3, OutcomeKeeps
<1>5. CASE SilenceTimeout
  BY <1>1, <1>2, <1>3, <1>5, OutcomeKeeps DEF SilenceTimeout
<1>6. CASE RetryConnection
  <2>1. host' = [host EXCEPT !.dial = TRUE, !.connecting = TRUE]
    BY <1>1, <1>6 DEF RetryConnection, Connect, Host
  <2> QED
    BY <1>1, <1>6, <2>1, DialKeeps DEF RetryConnection
<1>7. CASE RestartAll
  <2> DEFINE c == Connect(ResetSession(Disconnect(host)))
             h == [c EXCEPT !.killMe = FALSE]
  <2>1. RestartHost(host) = h
    BY DEF RestartHost, GotDisconnect
  <2>2. Disconnect(host) \in Host
    BY <1>1 DEF Disconnect, Host
  <2>3. Sound(c) /\ Accounted(c) /\ c.renewed /\ c \in Host
    <3>1. Sound(c) /\ Accounted(c) /\ c.renewed
      BY <2>2, RenewedIs
    <3> HIDE DEF c
    <3> QED
      BY <3>1 DEF Sound
  <2> HIDE DEF c
  <2>4. /\ h \in Host /\ SameStamps(h, c) /\ h.router = c.router /\ h.posted = c.posted
    BY <2>3 DEF Host, SameStamps
  <2> HIDE DEF h
  <2>5. Sound(h) /\ Accounted(h) /\ h.renewed
    BY <2>3, <2>4 DEF Sound, Accounted, SameStamps, Blank, Passwords, Pending
  <2>6. h \in SoundHosts
    BY <2>4, <2>5 DEF SoundHosts
  <2> QED
    BY <1>1, <1>2, <1>7, <2>1, <2>5, <2>6, OutcomeKeeps DEF RestartAll
<1>8. CASE AcceptConnection
  <2>1. host' = [host EXCEPT !.dial = FALSE, !.connecting = host.connecting]
    BY <1>1, <1>8 DEF AcceptConnection, Host
  <2>2. out' = out
    BY <1>1, <1>8 DEF AcceptConnection, Sound, IInv
  <2>3. host.connecting \in BOOLEAN
    BY <1>1, HostIs
  <2> QED
    BY <1>1, <1>8, <2>1, <2>2, <2>3, DialKeeps DEF AcceptConnection, New
<1>9. CASE AnswerPassword
  <2>1. \/ Reply("password", "accept", "authed")
        \/ \E body \in {"again", "refuse"} : Reply("password", body, "connected")
    BY <1>9 DEF AnswerPassword
  <2> QED
    BY <2>1, ReplyKeeps DEF Request, Body, Responses
<1>10. CASE AnswerArenaLogin
  BY <1>10, ReplyKeeps DEF AnswerArenaLogin, Request, Body, Responses
<1>11. CASE SendGameMessage
  BY <1>11, SendGameMessageKeeps
<1>12. CASE EndSession
  <2>1. host' = [host EXCEPT !.dial = host.dial, !.connecting = host.connecting]
    BY <1>1, <1>12 DEF EndSession, Host
  <2>2. host.connecting \in BOOLEAN /\ host.dial \in BOOLEAN
    BY <1>1, HostIs
  <2> QED
    BY <1>1, <1>12, <2>1, <2>2, DialKeeps DEF EndSession, New
<1>13. CASE Lose
  <2>1. host.connecting \in BOOLEAN /\ host.dial \in BOOLEAN
    BY <1>1, HostIs
  <2>2. \/ host' = [host EXCEPT !.dial = host.dial, !.connecting = host.connecting]
        \/ host' = [host EXCEPT !.dial = FALSE, !.connecting = host.connecting]
    BY <1>1, <1>13 DEF Lose, Host
  <2>3. net' \subseteq net /\ out' = out /\ srv' = srv /\ calm' = calm
    BY <1>13 DEF Lose
  <2> QED
    BY <1>1, <2>1, <2>2, <2>3, DialKeeps
<1>14. CASE CalmDown
  <2>1. host' = [host EXCEPT !.dial = host.dial, !.connecting = host.connecting]
    BY <1>1, <1>14 DEF CalmDown, Host
  <2>2. host.connecting \in BOOLEAN /\ host.dial \in BOOLEAN
    BY <1>1, HostIs
  <2> QED
    BY <1>1, <1>14, <2>1, <2>2, DialKeeps DEF CalmDown
<1>15. CASE UNCHANGED vars
  <2>1. host' = [host EXCEPT !.dial = host.dial, !.connecting = host.connecting]
    BY <1>1, <1>15 DEF vars, Host
  <2>2. host.connecting \in BOOLEAN /\ host.dial \in BOOLEAN
    BY <1>1, HostIs
  <2> QED
    BY <1>1, <1>15, <2>1, <2>2, DialKeeps DEF vars
<1> QED
  BY <1>4, <1>5, <1>6, <1>7, <1>8, <1>9, <1>10, <1>11, <1>12, <1>13, <1>14, <1>15 DEF Next

(* The invariant that those below follow from.                             *)
THEOREM Invariance == Spec => []IInv
<1> QED
  BY InitEstablishes, NextPreserves, PTL DEF Spec

(* Every variable has its type; no stamp is out of the session's range,    *)
(* and no handler is left with tries that do not exist.                    *)
THEOREM TypeCorrect == Spec => []TypeOK
<1>1. IInv => TypeOK
  BY DEF IInv
<1> QED
  BY Invariance, <1>1, PTL

(* The game router is never active without an accepted login of this very  *)
(* session, !restart and resets in the midst of a datagram included.       *)
THEOREM GameAfterLogin == Spec => []GameOnlyWhenAccepted
<1>1. IInv => GameOnlyWhenAccepted
  <2> SUFFICES ASSUME IInv, host.router = "game"
               PROVE  \E i \in host.processed : i < Len(out) /\ out[i + 1] = "accept"
    BY DEF GameOnlyWhenAccepted
  <2>1. Sound(host) /\ Len(out) \in Nat
    BY DEF IInv, TypeOK
  <2>2. PICK i \in host.processed : out[i + 1] = "accept"
    BY <2>1 DEF Sound
  <2>3. i \in 0 .. Len(out) - 1
    BY <2>1 DEF Sound
  <2> QED
    BY <2>1, <2>2, <2>3
<1> QED
  BY Invariance, <1>1, PTL

(* No second password is under way in a session (gotEncryptResponse,       *)
(* handlePasswordResponse), however its messages are delayed, repeated or  *)
(* left from an earlier one.                                               *)
THEOREM OneAttemptAtATime == Spec => []OneAttempt
<1>1. IInv => OneAttempt
  <2> SUFFICES ASSUME IInv PROVE OneAttempt
    OBVIOUS
  <2> DEFINE P == Passwords(host)
             R == Pending(host)
  <2>1. AtMostOne(P, R)
    BY DEF IInv, Sound
  <2>2. OneAttempt <=> Cardinality(P) + Cardinality(R) <= 1
    BY DEF OneAttempt, Passwords, Pending
  <2> HIDE DEF P, R
  <2>3. \A S : (\A i, j \in S : i = j) => Cardinality(S) \in {0, 1}
    <3> SUFFICES ASSUME NEW S, \A i, j \in S : i = j PROVE Cardinality(S) \in {0, 1}
      OBVIOUS
    <3>1. CASE S = {}
      BY <3>1, FS_EmptySet
    <3>2. CASE S # {}
      <4>1. PICK i : S = {i}
        BY <3>2
      <4> QED
        BY <4>1, FS_Singleton
    <3> QED
      BY <3>1, <3>2
  <2>4. Cardinality({}) = 0
    BY FS_EmptySet
  <2> QED
    BY <2>1, <2>2, <2>3, <2>4 DEF AtMostOne
<1> QED
  BY Invariance, <1>1, PTL

(* Unless the bot is told to !restart by a message of the session itself,  *)
(* "already processed" is true of every stamp that checkReceived drops.    *)
THEOREM IgnoredIsProcessed ==
    ASSUME "restart" \notin Commands
    PROVE  Spec => []IgnoredWasProcessed
<1>1. IInv => IgnoredWasProcessed
  BY DEF IInv, Sound, IgnoredWasProcessed
<1> QED
  BY Invariance, <1>1, PTL

(* Nor is any stamp acknowledged, then, that is neither handled nor kept:  *)
(* the server would not send it again.                                     *)
THEOREM AcknowledgedIsAccounted ==
    ASSUME "restart" \notin Commands
    PROVE  Spec => []AckedIsAccounted
<1>1. IInv => AckedIsAccounted
  BY DEF IInv, Accounted, AckedIsAccounted
<1> QED
  BY Invariance, <1>1, PTL
=============================================================================
