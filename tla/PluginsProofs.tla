--------------------------- MODULE PluginsProofs ---------------------------
(***************************************************************************)
(* Proofs about Plugins, for every set of arenas, number of slots, list of *)
(* libraries to start with, and number of relays and lines.                *)
(*                                                                         *)
(* A relay is sound if the lines in its buffer are just those it has taken *)
(* and not handed over, in order, and it would hand each to a channel the  *)
(* line fits; a handler keeps it sound and hands over a part of them       *)
(* (Grown).  A host is good if its relays are sound, their channels are of *)
(* arenas it is in or has asked for (Tuned), and the last arena asked for  *)
(* is the one it is after (Bound): handleBotEventArenaEnter is told the    *)
(* latter, not the arena that was entered.  Handlers of events are         *)
(* functions from hosts to hosts, which the steps compose.                 *)
(***************************************************************************)
EXTENDS Plugins, ListProofs

(* The lines from the first up to n.                                       *)
Count(n) == [k \in 1 .. n |-> k]

(* What a relay waits with: perhaps a separator, then the lines from a + 1 *)
(* to b.                                                                   *)
Queue(s, a, b) == [k \in 1 .. s + (b - a) |-> IF k <= s THEN Separator ELSE a + (k - s)]

(* The lines from the first up to n are a list of n lines.                 *)
LEMMA CountIs ==
    ASSUME NEW n \in Nat
    PROVE  Count(n) \in Seq(1 .. n) /\ Len(Count(n)) = n /\ \A k \in 1 .. n : Count(n)[k] = k
<1>1. Count(n) \in [1 .. n -> 1 .. n]
  BY DEF Count
<1>2. Count(n) \in Seq(1 .. n) /\ DOMAIN Count(n) = 1 .. n
  BY <1>1
<1>3. Len(Count(n)) = n
  BY <1>2
<1> QED
  BY <1>2, <1>3 DEF Count

(* What a relay waits with is a list of lines, but for the separator.      *)
LEMMA QueueIs ==
    ASSUME NEW s \in 0 .. 1, NEW a \in Nat, NEW b \in Nat, a <= b
    PROVE  /\ Queue(s, a, b) \in Seq(0 .. b) /\ Len(Queue(s, a, b)) = s + (b - a)
           /\ \A k \in 1 .. s + (b - a) :
                 Queue(s, a, b)[k] = IF k <= s THEN Separator ELSE a + (k - s)
<1> DEFINE n == s + (b - a)
           q == Queue(s, a, b)
<1>1. n \in Nat /\ \A k \in 1 .. n : (IF k <= s THEN 0 ELSE a + (k - s)) \in 0 .. b
  OBVIOUS
<1>2. q = [k \in 1 .. n |-> IF k <= s THEN 0 ELSE a + (k - s)]
  BY DEF Queue, Separator
<1> HIDE DEF n, q
<1>3. q \in [1 .. n -> 0 .. b] /\ \A k \in 1 .. n : q[k] = IF k <= s THEN 0 ELSE a + (k - s)
  BY <1>1, <1>2
<1>4. q \in Seq(0 .. b) /\ DOMAIN q = 1 .. n
  BY <1>1, <1>3
<1>5. Len(q) = n
  BY <1>1, <1>4
<1> QED
  BY <1>3, <1>4, <1>5 DEF n, q, Separator

(* Whatever is sent leaves the separator out.                              *)
LEMMA QueueSends ==
    ASSUME NEW s \in 0 .. 1, NEW a \in Nat, NEW b \in Nat, a <= b
    PROVE  /\ Lines(Queue(s, a, b)) = [k \in 1 .. b - a |-> a + k]
           /\ Count(a) \o Lines(Queue(s, a, b)) = Count(b)
<1> DEFINE q == Queue(s, a, b)
           n == s + (b - a)
           K == {k \in DOMAIN q : q[k] # Separator}
           up == SublistUpTo(q, K)
           Part(j) == [k \in 1 .. j - s |-> a + k]
           T == {j \in 0 .. n : up[j] = Part(j)}
<1>1. /\ n \in Nat /\ q \in Seq(0 .. b) /\ Len(q) = n
      /\ \A k \in 1 .. n : q[k] = IF k <= s THEN 0 ELSE a + (k - s)
  <2>1. /\ q \in Seq(0 .. b) /\ Len(q) = n
        /\ \A k \in 1 .. n : q[k] = IF k <= s THEN Separator ELSE a + (k - s)
    BY QueueIs
  <2>2. n \in Nat
    OBVIOUS
  <2> HIDE DEF q, n
  <2> QED
    BY <2>1, <2>2 DEF Separator
<1>2. DOMAIN q = 1 .. n
  BY <1>1
<1> HIDE DEF q
<1>3. K = (s + 1) .. n
  BY <1>1, <1>2 DEF Separator
<1> HIDE DEF K
<1>4. /\ up \in [0 .. n -> Seq(0 .. b)] /\ up[0] = <<>>
      /\ \A k \in 1 .. n :
            up[k] = IF k \in K THEN Append(up[k - 1], q[k]) ELSE up[k - 1]
  <2> DEFINE S == 0 .. b
  <2>1. q \in Seq(S) /\ Len(q) = n
    BY <1>1
  <2> HIDE DEF S
  <2>2. /\ up \in [0 .. Len(q) -> Seq(S)] /\ up[0] = <<>>
        /\ \A k \in 1 .. Len(q) :
              up[k] = IF k \in K THEN Append(up[k - 1], q[k]) ELSE up[k - 1]
    BY <2>1, SublistUpToDef
  <2> QED
    BY <2>1, <2>2 DEF S
<1> HIDE DEF up
<1>5. 0 \in T
  <2>1. Part(0) = <<>>
    OBVIOUS
  <2> QED
    BY <1>1, <1>4, <2>1
<1>6. ASSUME NEW j \in 0 .. n - 1, j \in T PROVE j + 1 \in T
  <2>1. /\ j + 1 \in 1 .. n /\ (j + 1) - 1 = j
        /\ up[j] = Part(j)
    BY <1>1, <1>6
  <2>2. CASE j + 1 <= s
    <3>1. up[j + 1] = Part(j)
      BY <1>3, <1>4, <2>1, <2>2
    <3>2. 1 .. j - s = {} /\ 1 .. (j + 1) - s = {}
      BY <2>2
    <3>3. Part(j) = Part(j + 1)
      BY <3>2
    <3> QED
      BY <1>1, <2>1, <3>1, <3>3
  <2>3. CASE ~(j + 1 <= s)
    <3> DEFINE m == j - s
    <3>1. m \in Nat /\ q[j + 1] = a + (m + 1) /\ (j + 1) - s = m + 1
      BY <1>1, <2>1, <2>3
    <3>2. up[j + 1] = Append(Part(j), a + (m + 1))
      <4>1. up[j + 1] = Append(up[j], q[j + 1])
        <5>1. j + 1 \in K
          BY <1>1, <1>3, <2>1, <2>3
        <5> HIDE DEF Part
        <5> QED
          BY <1>4, <2>1, <5>1
      <4> QED
        BY <2>1, <3>1, <4>1
    <3>3. Append([k \in 1 .. m |-> a + k], a + (m + 1)) = [k \in 1 .. m + 1 |-> a + k]
      <4> HIDE DEF m
      <4>1. [k \in 1 .. m |-> a + k] \in Seq(Nat) /\ Len([k \in 1 .. m |-> a + k]) = m
        BY <3>1
      <4> QED
        BY <3>1, <4>1
    <3>4. up[j + 1] = Part(j + 1)
      BY <3>1, <3>2, <3>3
    <3> QED
      BY <1>1, <2>1, <3>4
  <2> QED
    BY <2>2, <2>3
<1>7. up[n] = [k \in 1 .. b - a |-> a + k]
  <2>1. n \in T
    <3>1. 0 .. n \subseteq T
      <4> HIDE DEF T
      <4> QED
        BY <1>1, <1>5, <1>6, InductionUpTo
    <3> QED
      BY <1>1, <3>1
  <2>2. n - s = b - a
    OBVIOUS
  <2> QED
    BY <2>1, <2>2
<1>8. Count(a) \o [k \in 1 .. b - a |-> a + k] = Count(b)
  <2> DEFINE c == Count(a)
             d == [k \in 1 .. b - a |-> a + k]
  <2>1. c \in Seq(Nat) /\ Len(c) = a /\ \A k \in 1 .. a : c[k] = k
    BY CountIs
  <2>2. d \in Seq(Nat) /\ Len(d) = b - a /\ \A k \in 1 .. b - a : d[k] = a + k
    OBVIOUS
  <2> HIDE DEF c, d
  <2>3. /\ c \o d \in Seq(Nat) /\ Len(c \o d) = b
        /\ \A k \in 1 .. b : (c \o d)[k] = k
    <3>1. /\ c \o d \in Seq(Nat) /\ Len(c \o d) = Len(c) + Len(d)
          /\ \A k \in 1 .. Len(c) + Len(d) :
                (c \o d)[k] = IF k <= Len(c) THEN c[k] ELSE d[k - Len(c)]
      BY <2>1, <2>2, ConcatProperties
    <3> DEFINE cd == c \o d
    <3> HIDE DEF cd
    <3>2. /\ cd \in Seq(Nat) /\ Len(cd) = b
          /\ \A k \in 1 .. b : cd[k] = IF k <= a THEN c[k] ELSE d[k - a]
      <4>1. Len(c) + Len(d) = b
        BY <2>1, <2>2
      <4> QED
        BY <2>1, <3>1, <4>1 DEF cd
    <3>3. \A k \in 1 .. b : cd[k] = k
      <4> SUFFICES ASSUME NEW k \in 1 .. b PROVE cd[k] = k
        OBVIOUS
      <4>1. CASE k <= a
        BY <2>1, <3>2, <4>1
      <4>2. CASE ~(k <= a)
        <5>1. k - a \in 1 .. b - a /\ a + (k - a) = k
          BY <4>2
        <5> QED
          BY <2>2, <3>2, <4>2, <5>1
      <4> QED
        BY <4>1, <4>2
    <3> QED
      BY <3>2, <3>3 DEF cd
  <2>4. Count(b) \in Seq(Nat) /\ Len(Count(b)) = b /\ \A k \in 1 .. b : Count(b)[k] = k
    BY CountIs
  <2>5. c \o d = Count(b)
    BY <2>3, <2>4, SeqEqual
  <2> QED
    BY <2>5 DEF c, d
<1>9. Sublist(q, K) = up[n]
  BY <1>1 DEF Sublist, up
<1> QED
  BY <1>7, <1>8, <1>9 DEF Lines, q, K
-----------------------------------------------------------------------------
(* A channel that a line may leave for that has these arenas around it.    *)
Fits(channel, arenas) == \E arena \in arenas : channel = ChannelOf(arena)

(* The lines a relay has taken have left it in order up to one of them,    *)
(* and it waits with the others.  Those that have left went where they     *)
(* might, and the others may go to the channel it has.                     *)
Sound(r) ==
    /\ r \in Relays
    /\ Len(r.released) <= Taken(r)
    /\ r.released = Count(Len(r.released))
    /\ \E s \in 0 .. 1 : r.buffer = Queue(s, Len(r.released), Taken(r))
    /\ Len(r.shown) = Len(r.released)
    /\ \A i \in 1 .. Len(r.released) : Fits(r.shown[i], r.around[i])
    /\ \A i \in Len(r.released) + 1 .. Taken(r) : Fits(r.channel, r.around[i])

(* r has become s: more lines have left it, and that many were taken.      *)
Grown(r, s, lines) ==
    /\ Sound(s)
    /\ Taken(s) = Taken(r) + lines
    /\ Len(r.released) <= Len(s.released)

(* What a sound relay consists of.                                         *)
LEMMA RelaysAre ==
    ASSUME NEW r \in Relays
    PROVE  /\ r.inArena \in BOOLEAN /\ r.channel \in Channels
           /\ r.buffer \in Seq(0 .. MaxLines) /\ r.started \in BOOLEAN
           /\ r.header \in BOOLEAN /\ r.body \in BOOLEAN
           /\ r.around \in Seq(SUBSET Arenas) /\ Taken(r) \in 0 .. MaxLines
           /\ r.released \in Seq(1 .. MaxLines) /\ r.shown \in Seq(Channels)
           /\ Len(r.released) \in Nat /\ Len(r.buffer) \in Nat
           /\ DOMAIN r.around = 1 .. Taken(r) /\ DOMAIN r.released = 1 .. Len(r.released)
<1>1. /\ r.inArena \in BOOLEAN /\ r.channel \in Channels
      /\ r.buffer \in Seq(0 .. MaxLines) /\ r.started \in BOOLEAN
      /\ r.header \in BOOLEAN /\ r.body \in BOOLEAN
      /\ r.around \in Seq(SUBSET Arenas) /\ Len(r.around) <= MaxLines
      /\ r.released \in Seq(1 .. MaxLines) /\ r.shown \in Seq(Channels)
  BY DEF Relays
<1>2. Len(r.released) \in Nat /\ Len(r.buffer) \in Nat /\ Len(r.around) \in Nat
      /\ DOMAIN r.around = 1 .. Len(r.around) /\ DOMAIN r.released = 1 .. Len(r.released)
  BY <1>1
<1> QED
  BY <1>1, <1>2, RelayAssumption DEF Taken

(* Lines that leave together leave for the same channel.                   *)
LEMMA SameChannel ==
    ASSUME NEW c \in Channels, NEW m \in Nat
    PROVE  /\ [k \in 1 .. m |-> c] \in Seq(Channels) /\ Len([k \in 1 .. m |-> c]) = m
           /\ \A k \in 1 .. m : [j \in 1 .. m |-> c][k] = c
<1> DEFINE d == [k \in 1 .. m |-> c]
<1>1. d \in [1 .. m -> Channels]
  OBVIOUS
<1>2. d \in Seq(Channels) /\ DOMAIN d = 1 .. m
  BY <1>1
<1>3. Len(d) = m
  BY <1>2
<1> QED
  BY <1>2, <1>3

(* They go behind those that have left before.                             *)
LEMMA ShownGrows ==
    ASSUME NEW p \in Seq(Channels), NEW d \in Seq(Channels)
    PROVE  /\ p \o d \in Seq(Channels) /\ Len(p \o d) = Len(p) + Len(d)
           /\ \A i \in 1 .. Len(p) : (p \o d)[i] = p[i]
           /\ \A i \in Len(p) + 1 .. Len(p) + Len(d) : (p \o d)[i] = d[i - Len(p)]
<1> DEFINE q == p \o d
<1>1. /\ q \in Seq(Channels) /\ Len(q) = Len(p) + Len(d)
      /\ \A k \in 1 .. Len(p) + Len(d) : q[k] = IF k <= Len(p) THEN p[k] ELSE d[k - Len(p)]
  BY ConcatProperties
<1>2. Len(p) \in Nat /\ Len(d) \in Nat
  OBVIOUS
<1> HIDE DEF q
<1>3. \A i \in 1 .. Len(p) : q[i] = p[i]
  BY <1>1, <1>2
<1>4. \A i \in Len(p) + 1 .. Len(p) + Len(d) : q[i] = d[i - Len(p)]
  BY <1>1, <1>2
<1> QED
  BY <1>1, <1>3, <1>4 DEF q

(* flushArenaMessages() hands over everything that was taken, to the       *)
(* channel the relay has.                                                  *)
LEMMA FlushIs ==
    ASSUME NEW r, Sound(r)
    PROVE  /\ FlushArenaMessages(r) =
                 [r EXCEPT !.released = Count(Taken(r)), !.buffer = <<>>,
                           !.shown = r.shown \o
                               [k \in 1 .. Taken(r) - Len(r.released) |-> r.channel]]
           /\ Grown(r, FlushArenaMessages(r), 0)
<1>1. PICK s \in 0 .. 1 : r.buffer = Queue(s, Len(r.released), Taken(r))
  BY DEF Sound
<1> DEFINE n == Taken(r)
           a == Len(r.released)
           q == r.buffer
           c == Count(n)
           seen == r.shown \o [k \in 1 .. n - a |-> r.channel]
           f == [r EXCEPT !.released = c, !.buffer = <<>>, !.shown = seen]
<1>2. /\ r \in Relays /\ a \in Nat /\ a <= n /\ n \in 0 .. MaxLines /\ n \in Nat
      /\ n - a \in Nat /\ a + (n - a) = n
  <2>1. r \in Relays /\ a <= n
    BY DEF Sound
  <2>2. a \in Nat /\ n \in 0 .. MaxLines
    BY <2>1, RelaysAre
  <2> HIDE DEF a, n
  <2> QED
    BY <2>1, <2>2, RelayAssumption
<1>3. Lines(q) = [k \in 1 .. n - a |-> a + k] /\ r.released \o Lines(q) = c
  <2>1. q = Queue(s, a, n) /\ r.released = Count(a)
    BY <1>1 DEF Sound
  <2> HIDE DEF a, n, q
  <2>2. /\ Lines(q) = [k \in 1 .. n - a |-> a + k]
        /\ Count(a) \o Lines(q) = Count(n)
    BY <1>2, <2>1, QueueSends
  <2> QED
    BY <2>1, <2>2
<1>4. DOMAIN Lines(q) = 1 .. n - a
  BY <1>3
<1>5. FlushArenaMessages(r) = f
  <2>1. r.shown \o [k \in DOMAIN Lines(q) |-> r.channel] = seen
    BY <1>4
  <2>2. FlushArenaMessages(r) =
            [r EXCEPT !.released = r.released \o Lines(q), !.buffer = <<>>,
                      !.shown = r.shown \o [k \in DOMAIN Lines(q) |-> r.channel]]
    BY <1>2 DEF FlushArenaMessages, SendMessage, Relays
  <2> QED
    BY <1>3, <2>1, <2>2
<1>6. c \in Seq(1 .. n) /\ Len(c) = n
  BY <1>2, CountIs
<1>7. Queue(0, n, n) = <<>>
  BY <1>2 DEF Queue
<1>8. c \in Seq(1 .. MaxLines) /\ <<>> \in Seq(0 .. MaxLines)
  <2>1. MaxLines \in Nat /\ n <= MaxLines
    BY <1>2, RelayAssumption
  <2>2. \A k \in 1 .. n : c[k] \in 1 .. MaxLines
    <3> HIDE DEF c, n
    <3> QED
      BY <1>2, <1>6, <2>1
  <2> HIDE DEF c, n
  <2> QED
    BY <1>6, <2>1, <2>2
<1>9. /\ seen \in Seq(Channels) /\ Len(seen) = n
      /\ \A i \in 1 .. a : seen[i] = r.shown[i]
      /\ \A i \in a + 1 .. n : seen[i] = r.channel
  <2> DEFINE p == r.shown
             ch == r.channel
             m == n - a
             d == [k \in 1 .. m |-> ch]
  <2>1. p \in Seq(Channels) /\ ch \in Channels /\ Len(p) = a /\ m \in Nat
    BY <1>2, RelaysAre DEF Sound
  <2>2. seen = p \o d
    OBVIOUS
  <2> HIDE DEF a, n, p, ch, seen
  <2>3. a + m = n
    BY <1>2
  <2> HIDE DEF m
  <2>5. d \in Seq(Channels) /\ Len(d) = m /\ \A k \in 1 .. m : d[k] = ch
    BY <2>1, SameChannel
  <2> HIDE DEF d
  <2>4. /\ seen \in Seq(Channels) /\ Len(seen) = Len(p) + m
        /\ \A i \in 1 .. Len(p) : seen[i] = p[i]
        /\ \A i \in Len(p) + 1 .. Len(p) + m : seen[i] = ch
    <3>1. /\ seen \in Seq(Channels) /\ Len(seen) = Len(p) + Len(d)
          /\ \A i \in 1 .. Len(p) : seen[i] = p[i]
          /\ \A i \in Len(p) + 1 .. Len(p) + Len(d) : seen[i] = d[i - Len(p)]
      BY <2>1, <2>2, <2>5, ShownGrows
    <3>2. \A i \in Len(p) + 1 .. Len(p) + m : i - Len(p) \in 1 .. m
      BY <2>1
    <3> QED
      BY <2>5, <3>1, <3>2
  <2> QED
    BY <2>1, <2>3, <2>4 DEF p, ch
<1>10. /\ \A i \in 1 .. a : Fits(r.shown[i], r.around[i])
       /\ \A i \in a + 1 .. n : Fits(r.channel, r.around[i])
  BY DEF Sound
<1> HIDE DEF c, seen
<1>11. /\ f \in Relays /\ f.around = r.around /\ f.released = c /\ f.buffer = <<>>
       /\ f.shown = seen /\ f.channel = r.channel /\ Taken(f) = n
  BY <1>2, <1>8, <1>9 DEF Relays, Taken
<1> HIDE DEF f, a, n
<1>12. \A i \in 1 .. n : Fits(f.shown[i], f.around[i])
  BY <1>2, <1>9, <1>10, <1>11
<1>13. Sound(f)
  <2>1. /\ f \in Relays /\ Len(f.released) <= Taken(f) /\ f.released = Count(Len(f.released))
        /\ Len(f.shown) = Len(f.released)
    BY <1>2, <1>6, <1>9, <1>11 DEF c
  <2>2. f.buffer = Queue(0, Len(f.released), Taken(f)) /\ 0 \in 0 .. 1
    BY <1>6, <1>7, <1>11
  <2>3. \A i \in 1 .. Len(f.released) : Fits(f.shown[i], f.around[i])
    BY <1>6, <1>11, <1>12
  <2>4. \A i \in Len(f.released) + 1 .. Taken(f) : Fits(f.channel, f.around[i])
    BY <1>2, <1>6, <1>11
  <2> QED
    BY <2>1, <2>2, <2>3, <2>4 DEF Sound
<1>14. Grown(r, f, 0)
  <2>1. Taken(f) = Taken(r) + 0 /\ Len(r.released) <= Len(f.released)
    BY <1>2, <1>6, <1>11 DEF a, n
  <2> QED
    BY <1>13, <2>1 DEF Grown
<1> QED
  BY <1>5, <1>14 DEF f, c, seen, a, n

(* What is put behind what a relay waits with waits in its turn.           *)
LEMMA QueueGrows ==
    ASSUME NEW s \in 0 .. 1, NEW a \in Nat, NEW b \in Nat, a <= b
    PROVE  Append(Queue(s, a, b), b + 1) = Queue(s, a, b + 1)
<1> DEFINE q == Queue(s, a, b)
           p == Queue(s, a, b + 1)
           n == s + (b - a)
<1>1. /\ n \in Nat /\ q \in Seq(Nat) /\ Len(q) = n
      /\ \A k \in 1 .. n : q[k] = IF k <= s THEN Separator ELSE a + (k - s)
  <2>1. /\ q \in Seq(0 .. b) /\ Len(q) = n
        /\ \A k \in 1 .. n : q[k] = IF k <= s THEN Separator ELSE a + (k - s)
    BY QueueIs
  <2>2. n \in Nat
    OBVIOUS
  <2> HIDE DEF q, n
  <2>3. q \in Seq(Nat)
    BY <2>1
  <2> QED
    BY <2>1, <2>2, <2>3
<1>2. /\ p \in Seq(Nat) /\ Len(p) = n + 1
      /\ \A k \in 1 .. n + 1 : p[k] = IF k <= s THEN Separator ELSE a + (k - s)
  <2> DEFINE c == b + 1
  <2>1. c \in Nat /\ a <= c /\ s + (c - a) = n + 1
    OBVIOUS
  <2> HIDE DEF c
  <2>2. /\ Queue(s, a, c) \in Seq(0 .. c) /\ Len(Queue(s, a, c)) = s + (c - a)
        /\ \A k \in 1 .. s + (c - a) :
              Queue(s, a, c)[k] = IF k <= s THEN Separator ELSE a + (k - s)
    BY <2>1, QueueIs
  <2>3. p = Queue(s, a, c)
    BY DEF c
  <2> HIDE DEF p, n
  <2>4. p \in Seq(Nat)
    BY <2>1, <2>2, <2>3
  <2> QED
    BY <2>1, <2>2, <2>3, <2>4
<1>3. n + 1 > s /\ a + ((n + 1) - s) = b + 1 /\ b + 1 \in Nat
  OBVIOUS
<1> HIDE DEF q, p, n
<1>4. /\ Append(q, b + 1) \in Seq(Nat) /\ Len(Append(q, b + 1)) = n + 1
      /\ Append(q, b + 1)[n + 1] = b + 1
      /\ \A k \in 1 .. n : Append(q, b + 1)[k] = q[k]
  BY <1>1, <1>3
<1> DEFINE r == Append(q, b + 1)
<1> HIDE DEF r
<1>5. \A k \in 1 .. n + 1 : r[k] = p[k]
  <2>1. r[n + 1] = p[n + 1]
    <3>1. n + 1 \in 1 .. n + 1 /\ ~(n + 1 <= s)
      BY <1>1, <1>3
    <3> QED
      BY <1>2, <1>3, <1>4, <3>1 DEF r
  <2>2. \A k \in 1 .. n : r[k] = p[k]
    BY <1>1, <1>2, <1>4 DEF r
  <2> QED
    BY <1>1, <2>1, <2>2
<1>6. r = p
  BY <1>2, <1>4, <1>5, SeqEqual DEF r
<1> QED
  BY <1>6 DEF r, q, p

(* Lines that have left a relay stay gone, and it stays sound, whatever    *)
(* becomes of the state of the table.                                      *)
LEMMA SoundStays ==
    ASSUME NEW r, Sound(r), NEW s \in Relays, s.around = r.around, s.released = r.released,
           s.buffer = r.buffer, s.shown = r.shown, s.channel = r.channel
    PROVE  Grown(r, s, 0)
<1>1. Taken(r) \in Nat /\ Len(r.released) \in Nat
  <2>1. r \in Relays
    BY DEF Sound
  <2> QED
    BY <2>1, RelaysAre, RelayAssumption
<1>2. Taken(s) = Taken(r)
  BY DEF Taken
<1>3. Sound(s)
  BY <1>2 DEF Sound
<1> QED
  BY <1>1, <1>2, <1>3 DEF Grown

(* A handler that leaves alone which arena the relay thinks it is in.      *)
Stays(r, s) == s.channel = r.channel /\ s.inArena = r.inArena

(* A relay that is handed two events one after the other.                  *)
LEMMA GrownTwice ==
    ASSUME NEW r \in Relays, NEW s, NEW t, NEW m \in Nat, NEW n \in Nat,
           Grown(r, s, m), Grown(s, t, n)
    PROVE  Grown(r, t, m + n)
<1>1. s \in Relays /\ t \in Relays
  BY DEF Grown, Sound
<1>2. /\ Taken(r) \in Nat /\ Len(r.released) \in Nat
      /\ Taken(s) \in Nat /\ Len(s.released) \in Nat
      /\ Taken(t) \in Nat /\ Len(t.released) \in Nat
  BY <1>1, RelaysAre, RelayAssumption
<1>3. /\ Taken(s) = Taken(r) + m /\ Taken(t) = Taken(s) + n /\ Sound(t)
      /\ Len(r.released) <= Len(s.released) /\ Len(s.released) <= Len(t.released)
  BY DEF Grown
<1>4. Taken(t) = Taken(r) + (m + n) /\ Len(r.released) <= Len(t.released)
  <2> DEFINE a == Taken(r)
             b == Taken(s)
             c == Taken(t)
             i == Len(r.released)
             j == Len(s.released)
             k == Len(t.released)
  <2>1. /\ a \in Nat /\ b \in Nat /\ c \in Nat /\ i \in Nat /\ j \in Nat /\ k \in Nat
        /\ b = a + m /\ c = b + n /\ i <= j /\ j <= k
    BY <1>2, <1>3
  <2> HIDE DEF a, b, c, i, j, k
  <2>2. c = a + (m + n) /\ i <= k
    BY <2>1
  <2> QED
    BY <2>2 DEF a, c, i, k
<1> QED
  BY <1>3, <1>4 DEF Grown

(* What is around the lines, when another is taken.                        *)
LEMMA AroundGrows ==
    ASSUME NEW r \in Relays, Taken(r) < MaxLines, NEW near \in SUBSET Arenas
    PROVE  /\ Append(r.around, near) \in {q \in Seq(SUBSET Arenas) : Len(q) <= MaxLines}
           /\ Len(Append(r.around, near)) = Taken(r) + 1
           /\ Append(r.around, near)[Taken(r) + 1] = near
           /\ \A i \in 1 .. Taken(r) : Append(r.around, near)[i] = r.around[i]
<1> DEFINE p == r.around
           n == Taken(r)
<1>1. p \in Seq(SUBSET Arenas) /\ Len(p) = n /\ n \in Nat /\ n + 1 <= MaxLines
  <2>1. p \in Seq(SUBSET Arenas) /\ n \in 0 .. MaxLines /\ Len(p) = n
    BY RelaysAre DEF Taken
  <2> QED
    BY <2>1, RelayAssumption
<1> HIDE DEF p, n
<1> DEFINE q == Append(p, near)
<1>2. q \in Seq(SUBSET Arenas) /\ Len(q) = n + 1 /\ q[n + 1] = near
      /\ \A i \in 1 .. n : q[i] = p[i]
  BY <1>1
<1> HIDE DEF q
<1>3. q \in {t \in Seq(SUBSET Arenas) : Len(t) <= MaxLines}
  BY <1>1, <1>2
<1> QED
  BY <1>2, <1>3 DEF q, p, n

(* A line is put behind the others, or sent when there are none.           *)
LEMMA TakenLine ==
    ASSUME NEW r, Sound(r), Taken(r) < MaxLines, NEW near \in SUBSET Arenas,
           Fits(r.channel, near)
    PROVE  /\ Grown(r, [TakeLine(r, near) EXCEPT !.buffer = Append(@, Taken(r) + 1)], 1)
           /\ Len(r.released) = Taken(r) /\ r.buffer = <<>> =>
                 Grown(r, SendMessage(TakeLine(r, near), <<Taken(r) + 1>>), 1)
<1> DEFINE n == Taken(r)
           a == Len(r.released)
           p == Append(r.around, near)
           m == n + 1
<1>1. /\ r \in Relays /\ n \in Nat /\ a \in Nat /\ a <= n /\ m \in 1 .. MaxLines
      /\ MaxLines \in Nat /\ m \in Nat
  <2>1. r \in Relays /\ a <= n
    BY DEF Sound
  <2> QED
    BY <2>1, RelaysAre, RelayAssumption
<1>2. PICK s \in 0 .. 1 : r.buffer = Queue(s, a, n)
  BY DEF Sound
<1>3. /\ r.released = Count(a) /\ Len(r.shown) = a
      /\ \A i \in 1 .. a : Fits(r.shown[i], r.around[i])
      /\ \A i \in a + 1 .. n : Fits(r.channel, r.around[i])
  BY DEF Sound
<1>4. /\ p \in {q \in Seq(SUBSET Arenas) : Len(q) <= MaxLines} /\ Len(p) = m /\ p[m] = near
      /\ \A i \in 1 .. n : p[i] = r.around[i]
  BY <1>1, AroundGrows
<1> HIDE DEF p
<1>5. /\ \A i \in 1 .. a : Fits(r.shown[i], p[i])
      /\ \A i \in a + 1 .. m : Fits(r.channel, p[i])
  <2> HIDE DEF a, n
  <2>1. \A i \in 1 .. a : i \in 1 .. n
    BY <1>1
  <2>2. \A i \in a + 1 .. m : (i \in a + 1 .. n /\ i \in 1 .. n) \/ i = m
    BY <1>1
  <2>3. ASSUME NEW i \in 1 .. a PROVE Fits(r.shown[i], p[i])
    <3>1. Fits(r.shown[i], r.around[i]) /\ p[i] = r.around[i]
      BY <1>3, <1>4, <2>1
    <3> QED
      BY <3>1
  <2>4. ASSUME NEW i \in a + 1 .. m PROVE Fits(r.channel, p[i])
    <3>1. CASE i = m
      BY <1>4, <3>1
    <3>2. CASE i \in a + 1 .. n /\ i \in 1 .. n
      <4>1. Fits(r.channel, r.around[i]) /\ p[i] = r.around[i]
        BY <1>3, <1>4, <3>2
      <4> QED
        BY <4>1
    <3> QED
      BY <2>2, <3>1, <3>2
  <2> QED
    BY <2>3, <2>4
<1>6. Grown(r, [TakeLine(r, near) EXCEPT !.buffer = Append(@, Taken(r) + 1)], 1)
  <2> DEFINE q == Append(r.buffer, m)
             f == [r EXCEPT !.around = p, !.buffer = q]
  <2>1. q = Queue(s, a, m)
    <3> HIDE DEF a, n
    <3> QED
      BY <1>1, <1>2, QueueGrows
  <2>2. q \in Seq(0 .. MaxLines)
    <3>1. r.buffer \in Seq(0 .. MaxLines) /\ m \in 0 .. MaxLines
      BY <1>1, RelaysAre
    <3> HIDE DEF m
    <3> QED
      BY <3>1
  <2> HIDE DEF q
  <2>3. [TakeLine(r, near) EXCEPT !.buffer = Append(@, Taken(r) + 1)] = f
    BY <1>1 DEF TakeLine, Relays, p, q
  <2>4. /\ f \in Relays /\ f.around = p /\ f.released = r.released /\ f.buffer = q
        /\ f.shown = r.shown /\ f.channel = r.channel /\ Taken(f) = m
    BY <1>1, <1>4, <2>2 DEF Relays, Taken
  <2> HIDE DEF f, m, n, a
  <2>5. Sound(f)
    <3>1. /\ Len(f.released) = a /\ Len(f.released) <= Taken(f)
      BY <1>1, <2>4 DEF a, m
    <3> QED
      BY <1>3, <1>5, <2>1, <2>4, <3>1 DEF Sound
  <2>6. Grown(r, f, 1)
    <3>1. Taken(f) = Taken(r) + 1 /\ Len(r.released) <= Len(f.released)
      BY <1>1, <2>4 DEF a, m, n
    <3> QED
      BY <2>5, <3>1 DEF Grown
  <2> QED
    BY <2>3, <2>6, Zenon
<1>7. ASSUME a = n, r.buffer = <<>>
      PROVE  Grown(r, SendMessage(TakeLine(r, near), <<Taken(r) + 1>>), 1)
  <2> DEFINE q == <<m>>
             c == Count(m)
             seen == r.shown \o [k \in 1 .. 1 |-> r.channel]
             f == [r EXCEPT !.around = p, !.released = c, !.shown = seen]
  <2>1. Queue(0, n, m) = q /\ Queue(0, m, m) = <<>>
    BY <1>1 DEF Queue
  <2>2. DOMAIN Lines(q) = 1 .. 1 /\ r.released \o Lines(q) = c
    <3>1. m - n = 1 /\ n <= m
      BY <1>1
    <3> DEFINE z == 0
    <3>2. q = Queue(z, n, m) /\ z \in 0 .. 1
      BY <2>1
    <3> HIDE DEF z, q, n, m
    <3>3. Lines(q) = [k \in 1 .. m - n |-> n + k] /\ Count(n) \o Lines(q) = Count(m)
      BY <1>1, <3>1, <3>2, QueueSends
    <3>4. DOMAIN Lines(q) = 1 .. 1
      BY <3>1, <3>3
    <3> QED
      BY <1>3, <1>7, <3>3, <3>4
  <2>3. SendMessage(TakeLine(r, near), <<Taken(r) + 1>>) = f
    <3>1. SendMessage(TakeLine(r, near), <<Taken(r) + 1>>)
              = [r EXCEPT !.around = p, !.released = r.released \o Lines(q),
                          !.shown = r.shown \o [k \in DOMAIN Lines(q) |-> r.channel]]
      BY <1>1 DEF SendMessage, TakeLine, Relays, p
    <3> QED
      BY <2>2, <3>1
  <2> HIDE DEF q
  <2>4. c \in Seq(1 .. MaxLines) /\ Len(c) = m
    <3> HIDE DEF m
    <3>1. Count(m) \in Seq(1 .. m) /\ Len(Count(m)) = m /\ \A k \in 1 .. m : Count(m)[k] = k
      BY <1>1, CountIs
    <3>2. m <= MaxLines
      BY <1>1
    <3>3. Count(m) \in Seq(1 .. MaxLines)
      BY <1>1, <3>1, <3>2
    <3> QED
      BY <3>1, <3>3
  <2>5. /\ seen \in Seq(Channels) /\ Len(seen) = m
        /\ \A i \in 1 .. a : seen[i] = r.shown[i]
        /\ seen[m] = r.channel
    <3> DEFINE d == [k \in 1 .. 1 |-> r.channel]
    <3>1. r.shown \in Seq(Channels) /\ r.channel \in Channels /\ 1 \in Nat
      BY <1>1, RelaysAre
    <3>4. d \in Seq(Channels) /\ Len(d) = 1 /\ \A k \in 1 .. 1 : d[k] = r.channel
      BY <3>1, SameChannel
    <3>5. seen = r.shown \o d
      OBVIOUS
    <3> HIDE DEF d, seen
    <3>2. /\ seen \in Seq(Channels) /\ Len(seen) = Len(r.shown) + 1
          /\ \A i \in 1 .. Len(r.shown) : seen[i] = r.shown[i]
          /\ \A i \in Len(r.shown) + 1 .. Len(r.shown) + 1 : seen[i] = r.channel
      <4>1. /\ seen \in Seq(Channels) /\ Len(seen) = Len(r.shown) + Len(d)
            /\ \A i \in 1 .. Len(r.shown) : seen[i] = r.shown[i]
            /\ \A i \in Len(r.shown) + 1 .. Len(r.shown) + Len(d) :
                  seen[i] = d[i - Len(r.shown)]
        BY <3>1, <3>4, <3>5, ShownGrows
      <4>2. \A i \in Len(r.shown) + 1 .. Len(r.shown) + 1 : i - Len(r.shown) \in 1 .. 1
        BY <3>1
      <4> QED
        BY <3>4, <4>1, <4>2
    <3>3. Len(r.shown) + 1 = m /\ m \in Len(r.shown) + 1 .. Len(r.shown) + 1
      BY <1>1, <1>3, <1>7
    <3> QED
      BY <1>3, <3>2, <3>3
  <2> HIDE DEF c, seen
  <2>6. /\ f \in Relays /\ f.around = p /\ f.released = c /\ f.buffer = <<>>
        /\ f.shown = seen /\ f.channel = r.channel /\ Taken(f) = m
    BY <1>1, <1>4, <1>7, <2>4, <2>5 DEF Relays, Taken
  <2> HIDE DEF f
  <2>7. \A i \in 1 .. m : Fits(f.shown[i], f.around[i])
    <3>1. \A i \in 1 .. m : i \in 1 .. a \/ i = m
      BY <1>1, <1>7
    <3>2. m \in a + 1 .. m
      BY <1>1, <1>7
    <3> HIDE DEF a, m
    <3> QED
      BY <1>5, <2>5, <2>6, <3>1, <3>2
  <2>8. Sound(f)
    <3>1. m + 1 .. m = {} /\ m <= m
      BY <1>1
    <3> HIDE DEF a, m, n
    <3>2. f.buffer = Queue(0, Len(f.released), Taken(f)) /\ 0 \in 0 .. 1
      BY <2>1, <2>4, <2>6
    <3>3. \A i \in Len(f.released) + 1 .. Taken(f) : Fits(f.channel, f.around[i])
      BY <2>4, <2>6, <3>1
    <3>4. \A i \in 1 .. Len(f.released) : Fits(f.shown[i], f.around[i])
      BY <2>4, <2>6, <2>7
    <3>5. /\ f \in Relays /\ Len(f.released) <= Taken(f)
          /\ f.released = Count(Len(f.released)) /\ Len(f.shown) = Len(f.released)
      BY <2>4, <2>5, <2>6, <3>1 DEF c
    <3> QED
      BY <3>2, <3>3, <3>4, <3>5 DEF Sound
  <2>9. Grown(r, f, 1)
    <3>1. Taken(f) = Taken(r) + 1 /\ Len(r.released) <= Len(f.released)
      BY <1>1, <2>4, <2>6
    <3> QED
      BY <2>8, <3>1 DEF Grown
  <2> QED
    BY <2>3, <2>9, Zenon
<1> QED
  BY <1>6, <1>7

(* A new relay has nothing to send.                                        *)
LEMMA NewRelayIs == Sound(NewRelay)
<1>1. Count(0) = <<>> /\ Queue(0, 0, 0) = <<>> /\ <<>> \in Seq(0 .. MaxLines)
      /\ <<>> \in Seq(1 .. MaxLines) /\ Len(<<>>) = 0
      /\ <<>> \in Seq(SUBSET Arenas) /\ <<>> \in Seq(Channels) /\ 0 <= MaxLines
  BY RelayAssumption DEF Count, Queue
<1>2. NewRelay \in Relays
  BY <1>1 DEF NewRelay, Relays, Channels
<1>3. /\ NewRelay.released = <<>> /\ NewRelay.buffer = <<>> /\ NewRelay.shown = <<>>
      /\ Taken(NewRelay) = 0
  BY <1>1 DEF NewRelay, Taken
<1>4. 1 .. 0 = {} /\ 0 + 1 .. 0 = {} /\ 0 <= 0 /\ 0 \in 0 .. 1
  OBVIOUS
<1> QED
  BY <1>1, <1>2, <1>3, <1>4 DEF Sound

(* setArenaStatus() leaves the lines that wait where they are: they may    *)
(* now go to the channel of the arena that was entered.                    *)
LEMMA HandleArenaEnterIs ==
    ASSUME NEW r, Sound(r), NEW arena \in Arenas
    PROVE  /\ Grown(r, HandleArenaEnter(r, arena), 0)
           /\ HandleArenaEnter(r, arena).channel = ChannelOf(arena)
<1> DEFINE n == Taken(r)
           a == Len(r.released)
           c == ChannelOf(arena)
           Waits(line) == \E k \in DOMAIN r.buffer : r.buffer[k] = line
           At(line) == r.around[line] \cup IF Waits(line) THEN {arena} ELSE {}
           p == [line \in DOMAIN r.around |-> At(line)]
           f == [r EXCEPT !.inArena = TRUE, !.around = p, !.channel = c]
<1>1. /\ r \in Relays /\ n \in Nat /\ a \in Nat /\ a <= n /\ n <= MaxLines
      /\ r.around \in Seq(SUBSET Arenas) /\ DOMAIN r.around = 1 .. n /\ MaxLines \in Nat
  <2>1. r \in Relays /\ a <= n
    BY DEF Sound
  <2> QED
    BY <2>1, RelaysAre, RelayAssumption
<1>2. HandleArenaEnter(r, arena) = f
  <2> DEFINE e == [r EXCEPT !.inArena = TRUE, !.around = p]
  <2>1. Entered(r, arena) = e
    BY DEF Entered
  <2>2. HandleArenaEnter(r, arena) = [e EXCEPT !.channel = c]
    BY <2>1 DEF HandleArenaEnter
  <2> HIDE DEF p, c
  <2> QED
    BY <1>1, <2>2 DEF Relays
<1>3. c \in Channels
  BY DEF ChannelOf, Channels
<1>4. \A i \in 1 .. n : At(i) \in SUBSET Arenas
  <2> SUFFICES ASSUME NEW i \in 1 .. n PROVE At(i) \in SUBSET Arenas
    OBVIOUS
  <2>1. r.around[i] \in SUBSET Arenas
    BY <1>1
  <2> HIDE DEF Waits
  <2> QED
    BY <2>1
<1>5. /\ p \in {q \in Seq(SUBSET Arenas) : Len(q) <= MaxLines} /\ Len(p) = n
      /\ \A i \in 1 .. n : p[i] = At(i)
  <2> HIDE DEF At, n
  <2>1. p \in [1 .. n -> SUBSET Arenas] /\ \A i \in 1 .. n : p[i] = At(i)
    BY <1>1, <1>4
  <2> HIDE DEF p
  <2>2. p \in Seq(SUBSET Arenas) /\ DOMAIN p = 1 .. n
    BY <1>1, <2>1
  <2>3. Len(p) = n
    BY <1>1, <2>2
  <2> QED
    BY <1>1, <2>1, <2>2, <2>3
<1>6. \A i \in a + 1 .. n : Waits(i)
  <2>1. PICK s \in 0 .. 1 : r.buffer = Queue(s, a, n)
    BY DEF Sound
  <2>2. a \in Nat /\ n \in Nat /\ a <= n
    BY <1>1
  <2> HIDE DEF a, n
  <2>3. /\ Queue(s, a, n) \in Seq(0 .. n) /\ Len(Queue(s, a, n)) = s + (n - a)
        /\ \A k \in 1 .. s + (n - a) :
              Queue(s, a, n)[k] = IF k <= s THEN Separator ELSE a + (k - s)
    BY <2>2, QueueIs
  <2>4. ASSUME NEW i \in a + 1 .. n PROVE Waits(i)
    <3> DEFINE k == s + (i - a)
    <3>1. k \in 1 .. s + (n - a) /\ ~(k <= s) /\ a + (k - s) = i
      BY <2>2
    <3>2. DOMAIN r.buffer = 1 .. s + (n - a)
      BY <2>1, <2>2, <2>3
    <3> HIDE DEF k
    <3> QED
      BY <2>1, <2>3, <3>1, <3>2
  <2> QED
    BY <2>4
<1> HIDE DEF Waits
<1>7. \A i \in a + 1 .. n : Fits(c, p[i])
  <2> SUFFICES ASSUME NEW i \in a + 1 .. n PROVE Fits(c, p[i])
    OBVIOUS
  <2>1. i \in 1 .. n
    BY <1>1
  <2>2. arena \in p[i]
    BY <1>4, <1>5, <1>6, <2>1
  <2> QED
    BY <2>2 DEF Fits
<1>8. \A i \in 1 .. a : Fits(r.shown[i], p[i])
  <2> SUFFICES ASSUME NEW i \in 1 .. a PROVE Fits(r.shown[i], p[i])
    OBVIOUS
  <2>1. i \in 1 .. n
    BY <1>1
  <2>2. Fits(r.shown[i], r.around[i])
    BY DEF Sound
  <2>3. r.around[i] \subseteq p[i]
    BY <1>4, <1>5, <2>1
  <2> QED
    BY <2>2, <2>3 DEF Fits
<1> HIDE DEF p, c
<1>9. /\ f \in Relays /\ f.around = p /\ f.released = r.released /\ f.buffer = r.buffer
      /\ f.shown = r.shown /\ f.channel = c /\ Taken(f) = n
  BY <1>1, <1>3, <1>5 DEF Relays, Taken
<1> HIDE DEF f, n, a
<1>10. Sound(f)
  <2>1. Len(f.released) = a /\ Taken(f) = Taken(r)
    BY <1>9 DEF a, n
  <2> QED
    BY <1>7, <1>8, <1>9, <2>1 DEF Sound
<1>11. Grown(r, f, 0)
  <2>1. Taken(f) = Taken(r) + 0 /\ Len(r.released) <= Len(f.released)
    BY <1>1, <1>9 DEF a, n
  <2> QED
    BY <1>10, <2>1 DEF Grown
<1> QED
  BY <1>2, <1>9, <1>11, Zenon DEF c

(* A relay that handed everything over and then let go of its table.       *)
LEMMA FlushOf ==
    ASSUME NEW r, Sound(r), NEW f \in Relays, f.around = r.around, f.released = r.released,
           f.buffer = r.buffer, f.shown = r.shown, Stays(r, f)
    PROVE  /\ Grown(r, FlushArenaMessages(f), 0)
           /\ Stays(r, FlushArenaMessages(f))
           /\ FlushArenaMessages(f).buffer = <<>>
           /\ Taken(FlushArenaMessages(f)) = Taken(f)
           /\ Len(FlushArenaMessages(f).released) = Taken(f)
<1>1. Grown(r, f, 0) /\ Sound(f) /\ r \in Relays
  BY SoundStays DEF Grown, Sound, Stays
<1> DEFINE g == FlushArenaMessages(f)
           c == Count(Taken(f))
           seen == f.shown \o [k \in 1 .. Taken(f) - Len(f.released) |-> f.channel]
<1>2. Grown(f, g, 0) /\ g = [f EXCEPT !.released = c, !.buffer = <<>>, !.shown = seen]
  BY <1>1, FlushIs
<1>3. Len(c) = Taken(f)
  <2>1. Taken(f) \in Nat
    BY RelaysAre, RelayAssumption
  <2> QED
    BY <2>1, CountIs
<1> HIDE DEF c, seen
<1>4. /\ g.channel = f.channel /\ g.inArena = f.inArena /\ g.buffer = <<>>
      /\ Taken(g) = Taken(f) /\ g.released = c
  BY <1>2 DEF Relays, Taken
<1> HIDE DEF g
<1>5. Grown(r, g, 0)
  <2>1. 0 \in Nat /\ 0 + 0 = 0
    OBVIOUS
  <2> QED
    BY <1>1, <1>2, <2>1, GrownTwice
<1> QED
  BY <1>3, <1>4, <1>5 DEF g, Stays

(* Whatever part of a table a line is, the lines before it stay in order.  *)
LEMMA LayoutIs ==
    ASSUME NEW r, Sound(r), NEW kind
    PROVE  /\ Grown(r, Layout(r, kind), 0)
           /\ Stays(r, Layout(r, kind))
<1> DEFINE Fine(s) == Grown(r, s, 0) /\ Stays(r, s)
<1>1. r \in Relays
  BY DEF Sound
<1>2. ASSUME NEW f \in Relays, f.around = r.around, f.released = r.released,
             f.buffer = r.buffer, f.shown = r.shown, Stays(r, f)
      PROVE  Fine(f) /\ Fine(FlushArenaMessages(f))
  BY <1>2, SoundStays, FlushOf DEF Stays
<1>3. CASE ~r.started /\ kind = "score"
  <2>1. Layout(r, kind) = FlushArenaMessages(r)
    BY <1>3 DEF Layout
  <2> QED
    BY <1>1, <1>2, <2>1 DEF Stays
<1>4. CASE ~r.started /\ kind = "border"
  <2> DEFINE f == [r EXCEPT !.started = TRUE]
  <2>1. Layout(r, kind) = FlushArenaMessages(f)
    BY <1>4 DEF Layout
  <2>2. f \in Relays /\ f.around = r.around /\ f.released = r.released
        /\ f.buffer = r.buffer /\ f.shown = r.shown /\ Stays(r, f)
    BY <1>1 DEF Relays, Stays
  <2> HIDE DEF f
  <2> QED
    BY <1>2, <2>1, <2>2
<1>5. CASE r.started /\ kind = "border"
  <2> DEFINE f == IF r.header THEN [r EXCEPT !.body = TRUE]
                  ELSE [r EXCEPT !.header = TRUE, !.body = FALSE]
  <2>1. Layout(r, kind) = f
    BY <1>5 DEF Layout
  <2>2. f \in Relays /\ f.around = r.around /\ f.released = r.released
        /\ f.buffer = r.buffer /\ f.shown = r.shown /\ Stays(r, f)
    BY <1>1 DEF Relays, Stays
  <2> HIDE DEF f
  <2> QED
    BY <1>2, <2>1, <2>2
<1>6. CASE r.started /\ kind = "header" /\ r.body
  <2> DEFINE g == FlushArenaMessages(r)
             q == <<Separator>>
             f == [g EXCEPT !.buffer = q, !.header = FALSE]
  <2>1. Layout(r, kind) = f
    BY <1>6 DEF Layout
  <2>2. /\ Grown(r, g, 0) /\ Stays(r, g) /\ Taken(g) = Taken(r)
        /\ Len(g.released) = Taken(r)
    BY <1>1, FlushOf DEF Stays
  <2> HIDE DEF g
  <2>3. Sound(g) /\ g \in Relays
    BY <2>2 DEF Grown, Sound
  <2>4. q \in Seq(0 .. MaxLines) /\ Taken(r) \in Nat
    BY <1>1, RelaysAre, RelayAssumption DEF Separator
  <2>5. Queue(1, Taken(r), Taken(r)) = q
    BY <2>4 DEF Queue
  <2> HIDE DEF q
  <2>6. /\ f \in Relays /\ f.around = g.around /\ f.released = g.released
        /\ f.buffer = q /\ f.shown = g.shown /\ f.channel = g.channel
        /\ f.inArena = g.inArena /\ Taken(f) = Taken(g)
    BY <2>3, <2>4 DEF Relays, Taken
  <2> HIDE DEF f
  <2>7. Sound(f)
    <3>1. f.buffer = Queue(1, Len(f.released), Taken(f)) /\ 1 \in 0 .. 1
      BY <2>2, <2>5, <2>6
    <3> QED
      BY <2>3, <2>6, <3>1 DEF Sound
  <2>8. Fine(f)
    BY <2>2, <2>6, <2>7 DEF Grown, Stays
  <2> QED
    BY <2>1, <2>8
<1>7. CASE r.started /\ kind = "header" /\ ~r.body
  <2> DEFINE f == [r EXCEPT !.header = FALSE]
  <2>1. Layout(r, kind) = f
    BY <1>7 DEF Layout
  <2>2. f \in Relays /\ f.around = r.around /\ f.released = r.released
        /\ f.buffer = r.buffer /\ f.shown = r.shown /\ Stays(r, f)
    BY <1>1 DEF Relays, Stays
  <2> HIDE DEF f
  <2> QED
    BY <1>2, <2>1, <2>2
<1>8. CASE r.started /\ kind \notin {"border", "header"} /\ r.header /\ r.body
  <2> DEFINE f == [r EXCEPT !.header = FALSE, !.body = FALSE, !.started = FALSE]
  <2>1. Layout(r, kind) = FlushArenaMessages(f)
    BY <1>8 DEF Layout
  <2>2. f \in Relays /\ f.around = r.around /\ f.released = r.released
        /\ f.buffer = r.buffer /\ f.shown = r.shown /\ Stays(r, f)
    BY <1>1 DEF Relays, Stays
  <2> HIDE DEF f
  <2> QED
    BY <1>2, <2>1, <2>2
<1>9. CASE /\ ~(~r.started /\ kind = "score") /\ ~(~r.started /\ kind = "border")
           /\ ~(r.started /\ kind = "border") /\ ~(r.started /\ kind = "header")
           /\ ~(r.started /\ kind \notin {"border", "header"} /\ r.header /\ r.body)
  <2>1. Layout(r, kind) = r
    BY <1>9 DEF Layout
  <2> QED
    BY <1>1, <1>2, <2>1 DEF Stays
<1> HIDE DEF Fine
<1>10. Fine(Layout(r, kind))
  BY <1>3, <1>4, <1>5, <1>6, <1>7, <1>8, <1>9 DEF Fine
<1> QED
  BY <1>10 DEF Fine

(* A line that arrives is taken, or the relay does not listen.             *)
LEMMA HandleChatIs ==
    ASSUME NEW r, Sound(r), Taken(r) < MaxLines,
           NEW mode \in Modes, NEW kind, NEW blocked \in BOOLEAN,
           NEW near \in SUBSET Arenas, r.inArena => Fits(r.channel, near)
    PROVE  /\ \E lines \in 0 .. 1 : Grown(r, HandleChat(r, mode, kind, blocked, near), lines)
           /\ Stays(r, HandleChat(r, mode, kind, blocked, near))
<1> DEFINE Fine(s) == (\E lines \in 0 .. 1 : Grown(r, s, lines)) /\ Stays(r, s)
           laid == Layout(r, kind)
           flushed == FlushArenaMessages(r)
<1>1. /\ r \in Relays /\ 0 \in Nat /\ 1 \in Nat /\ 0 + 0 = 0 /\ 0 + 1 = 1 /\ 1 + 0 = 1
      /\ Taken(r) \in Nat /\ Taken(r) + 0 = Taken(r)
  <2>1. r \in Relays
    BY DEF Sound
  <2> QED
    BY <2>1, RelaysAre, RelayAssumption
<1>2. Grown(r, laid, 0) /\ Stays(r, laid)
  BY LayoutIs
<1>3. /\ Grown(r, flushed, 0) /\ Stays(r, flushed) /\ Taken(flushed) = Taken(r)
      /\ flushed.buffer = <<>> /\ Len(flushed.released) = Taken(flushed)
  BY <1>1, FlushOf DEF Stays
<1>4. CASE ~r.inArena \/ (mode = "arena" /\ blocked)
  <2>1. HandleChat(r, mode, kind, blocked, near) = r
    BY <1>4 DEF HandleChat
  <2>2. Fine(r)
    BY <1>1, SoundStays DEF Stays
  <2> QED
    BY <2>1, <2>2
<1> DEFINE queued == [TakeLine(laid, near) EXCEPT !.buffer = Append(@, Taken(laid) + 1)]
<1>5. ASSUME r.inArena PROVE Grown(r, queued, 1) /\ Stays(r, queued)
  <2> HIDE DEF laid
  <2>1. Sound(laid) /\ Taken(laid) = Taken(r) /\ laid \in Relays
    BY <1>1, <1>2 DEF Grown, Sound
  <2>2. Fits(laid.channel, near)
    BY <1>2, <1>5 DEF Stays
  <2>3. Grown(laid, queued, 1)
    BY <2>1, <2>2, TakenLine
  <2>4. Stays(laid, queued)
    BY <2>1 DEF TakeLine, Relays, Stays
  <2> HIDE DEF queued
  <2>5. Grown(r, queued, 1)
    BY <1>1, <1>2, <2>3, GrownTwice
  <2> QED
    BY <1>2, <2>4, <2>5 DEF Stays
<1>6. CASE r.inArena /\ mode = "arena" /\ ~blocked
  <2>1. HandleChat(r, mode, kind, blocked, near) = ProcessArenaMessages(r, kind, near)
    BY <1>6 DEF HandleChat
  <2>2. Taken(laid) = Taken(r)
    BY <1>1, <1>2 DEF Grown
  <2>3. queued = [TakeLine(laid, near) EXCEPT !.buffer = Append(@, Taken(r) + 1)]
    BY <2>2
  <2>4. CASE kind = "blank"
    <3>1. ProcessArenaMessages(r, kind, near) = laid
      BY <2>4 DEF ProcessArenaMessages
    <3> HIDE DEF laid
    <3> QED
      BY <1>2, <2>1, <3>1
  <2>5. CASE kind = "last" /\ ~r.started
    <3>1. ProcessArenaMessages(r, kind, near) = FlushArenaMessages(queued)
      BY <2>3, <2>5 DEF ProcessArenaMessages
    <3> HIDE DEF queued
    <3>2. Sound(queued) /\ queued \in Relays
      BY <1>5, <1>6 DEF Grown, Sound
    <3>3. /\ Grown(queued, FlushArenaMessages(queued), 0)
          /\ Stays(queued, FlushArenaMessages(queued))
      BY <3>2, FlushOf DEF Stays
    <3>4. Grown(r, FlushArenaMessages(queued), 1)
      BY <1>1, <1>5, <1>6, <3>3, GrownTwice
    <3> DEFINE sent == FlushArenaMessages(queued)
    <3> HIDE DEF sent
    <3>5. Stays(r, sent)
      BY <1>5, <1>6, <3>3 DEF Stays, sent
    <3> QED
      BY <2>1, <3>1, <3>4, <3>5 DEF sent
  <2>6. CASE ~(kind = "blank") /\ ~(kind = "last" /\ ~r.started)
    <3>1. ProcessArenaMessages(r, kind, near) = queued
      BY <2>3, <2>6 DEF ProcessArenaMessages
    <3> HIDE DEF queued
    <3> QED
      BY <1>5, <1>6, <2>1, <3>1
  <2> QED
    BY <2>4, <2>5, <2>6
<1>7. CASE r.inArena /\ mode = "chat"
  <2> DEFINE sent == SendMessage(TakeLine(flushed, near), <<Taken(flushed) + 1>>)
  <2>1. HandleChat(r, mode, kind, blocked, near) = IF kind = "blank" THEN flushed ELSE sent
    BY <1>3, <1>7 DEF HandleChat
  <2> HIDE DEF flushed
  <2>2. Sound(flushed) /\ flushed \in Relays
    BY <1>3 DEF Grown, Sound
  <2>3. Grown(flushed, sent, 1)
    <3>1. Fits(flushed.channel, near)
      BY <1>3, <1>7 DEF Stays
    <3> QED
      BY <1>3, <2>2, <3>1, TakenLine
  <2>4. Stays(flushed, sent)
    BY <2>2 DEF SendMessage, TakeLine, Relays, Stays
  <2> HIDE DEF sent
  <2>5. Grown(r, sent, 1)
    BY <1>1, <1>3, <2>3, GrownTwice
  <2> QED
    BY <1>3, <2>1, <2>4, <2>5 DEF Stays
<1> QED
  BY <1>4, <1>6, <1>7 DEF Modes

(* tryFlushArenaMessages()                                                 *)
LEMMA TryFlushIs ==
    ASSUME NEW r, Sound(r)
    PROVE  Grown(r, TryFlush(r), 0) /\ Stays(r, TryFlush(r))
<1>1. r \in Relays
  BY DEF Sound
<1>2. Grown(r, r, 0) /\ Grown(r, FlushArenaMessages(r), 0)
      /\ Stays(r, FlushArenaMessages(r)) /\ Stays(r, r)
  BY <1>1, SoundStays, FlushOf DEF Stays
<1> QED
  BY <1>2 DEF TryFlush
-----------------------------------------------------------------------------
(* The arena login that was asked for last is the one the bot is after.    *)
Bound(h) == IF h.asked = <<>> THEN h.arena = h.goal ELSE h.goal = h.asked[Len(h.asked)]

(* What a relay would send now goes to the channel of one of them.         *)
Tuned(h) ==
    h.arena # Nowhere =>
        \A k \in DOMAIN h.relays : h.relays[k].inArena =>
            \E arena \in Near(h) : h.relays[k].channel = ChannelOf(arena)

Good(h) ==
    /\ h \in Hosts
    /\ \A k \in DOMAIN h.relays : Sound(h.relays[k])
    /\ h.state = "up" => Bound(h) /\ Tuned(h)

(* The n-th relay, or what it is when it is created.                       *)
The(h, n) == IF n \in DOMAIN h.relays THEN h.relays[n] ELSE NewRelay

(* A host becomes another without a line being taken.                      *)
Becomes(h, g) ==
    /\ Good(g)
    /\ g.state \in {h.state, "crashed"}
    /\ \A n \in Nat \ {0} : Grown(The(h, n), The(g, n), 0)

(* What a host consists of.                                                *)
LEMMA HostsAre ==
    ASSUME NEW h \in Hosts
    PROVE  /\ h.state \in {"up", "removed", "crashed"} /\ h.killMe \in BOOLEAN
           /\ h.inArena \in BOOLEAN /\ h.arena \in Arenas \cup {Nowhere}
           /\ h.goal \in Arenas /\ h.asked \in Seq(Arenas)
           /\ h.slots \in [Slots -> Libraries \cup {Empty}]
           /\ h.spawned \subseteq Libraries /\ h.freed \subseteq Libraries
           /\ h.blocked \in BOOLEAN /\ h.relays \in Seq(Relays)
           /\ Len(h.relays) \in Nat /\ DOMAIN h.relays = 1 .. Len(h.relays)
           /\ \A k \in 1 .. Len(h.relays) : h.relays[k] \in Relays
<1>1. h.relays \in Seq(Relays)
  BY DEF Hosts
<1>2. /\ Len(h.relays) \in Nat /\ DOMAIN h.relays = 1 .. Len(h.relays)
      /\ \A k \in 1 .. Len(h.relays) : h.relays[k] \in Relays
  BY <1>1
<1> QED
  BY <1>2 DEF Hosts

(* The relays of a good host are sound, created or not.                    *)
LEMMA TheIs ==
    ASSUME NEW h, Good(h), NEW n
    PROVE  Sound(The(h, n)) /\ The(h, n) \in Relays /\ Grown(The(h, n), The(h, n), 0)
<1>1. Sound(The(h, n))
  BY NewRelayIs DEF Good, The
<1> QED
  BY <1>1, SoundStays DEF Sound

(* Two handlers that run one after the other.                              *)
LEMMA BecomesTwice ==
    ASSUME NEW h, NEW g, NEW f, Good(h), Becomes(h, g), Becomes(g, f)
    PROVE  Becomes(h, f)
<1>1. ASSUME NEW n \in Nat \ {0} PROVE Grown(The(h, n), The(f, n), 0)
  <2>1. The(h, n) \in Relays /\ 0 \in Nat /\ 0 + 0 = 0
    BY TheIs
  <2>2. Grown(The(h, n), The(g, n), 0) /\ Grown(The(g, n), The(f, n), 0)
    BY DEF Becomes
  <2> DEFINE r == The(h, n)
             s == The(g, n)
             t == The(f, n)
  <2> HIDE DEF r, s, t
  <2>3. Grown(r, t, 0)
    BY <2>1, <2>2, GrownTwice DEF r, s, t
  <2> QED
    BY <2>3 DEF r, t
<1> QED
  BY <1>1 DEF Becomes

(* What does not touch the relays and keeps the host within its promises.  *)
LEMMA RelaysKept ==
    ASSUME NEW h, Good(h), NEW g \in Hosts, g.relays = h.relays,
           g.state \in {h.state, "crashed"},
           g.state = "up" => Bound(g) /\ Tuned(g)
    PROVE  Becomes(h, g)
<1>1. \A n : The(g, n) = The(h, n)
  BY DEF The
<1>2. \A n : Grown(The(h, n), The(g, n), 0)
  BY <1>1, TheIs
<1> QED
  BY <1>2 DEF Good, Becomes

(* The relays are handed an event one by one.                              *)
LEMMA RelaysGrow ==
    ASSUME NEW h, Good(h), NEW g \in Hosts, DOMAIN g.relays = DOMAIN h.relays,
           \A k \in DOMAIN h.relays : Grown(h.relays[k], g.relays[k], 0),
           g.state \in {h.state, "crashed"},
           g.state = "up" => Bound(g) /\ Tuned(g)
    PROVE  Becomes(h, g)
<1>1. \A k \in DOMAIN g.relays : Sound(g.relays[k])
  BY DEF Grown
<1>2. \A n : n \in DOMAIN h.relays => Grown(The(h, n), The(g, n), 0)
  BY DEF The
<1>3. \A n : n \notin DOMAIN h.relays => The(g, n) = The(h, n)
  BY DEF The
<1>4. \A n : Grown(The(h, n), The(g, n), 0)
  BY <1>2, <1>3, TheIs
<1> QED
  BY <1>1, <1>4 DEF Good, Becomes

(* A field that neither the relays nor the channels depend on.             *)
LEMMA FieldSet ==
    ASSUME NEW h, Good(h), NEW g \in Hosts, g.relays = h.relays, g.state = h.state,
           g.arena = h.arena, g.goal = h.goal, g.asked = h.asked
    PROVE  Becomes(h, g)
<1>1. h.state = "up" => Bound(g) /\ Tuned(g)
  BY DEF Good, Bound, Tuned, Near
<1> QED
  BY <1>1, RelaysKept

(* A process that goes down leaves its relays as they were.                *)
LEMMA CrashIs ==
    ASSUME NEW h, Good(h)
    PROVE  Becomes(h, [h EXCEPT !.state = "crashed"])
<1> DEFINE g == [h EXCEPT !.state = "crashed"]
<1>1. g \in Hosts /\ g.relays = h.relays /\ g.state = "crashed"
  BY DEF Good, Hosts
<1> HIDE DEF g
<1>2. Becomes(h, g)
  BY <1>1, RelaysKept
<1> QED
  BY <1>2 DEF g

(* An event does what its handlers do, or takes the process down.          *)
LEMMA RaisedIs ==
    ASSUME NEW h, Good(h), NEW handled, h.state = "up" => Becomes(h, handled)
    PROVE  Becomes(h, Raised(h, handled))
<1>1. CASE h.state # "up"
  <2>1. Raised(h, handled) = h
    BY <1>1 DEF Raised
  <2> QED
    BY <2>1, FieldSet DEF Good
<1>2. CASE h.state = "up" /\ h.freed # {}
  <2>1. Raised(h, handled) = [h EXCEPT !.state = "crashed"]
    BY <1>2 DEF Raised
  <2> QED
    BY <2>1, CrashIs
<1>3. CASE h.state = "up" /\ h.freed = {}
  <2>1. Raised(h, handled) = handled
    BY <1>3 DEF Raised
  <2> QED
    BY <1>3, <2>1
<1> QED
  BY <1>1, <1>2, <1>3

(* Init: a new relay has no channel yet.                                   *)
LEMMA RaiseInitIs ==
    ASSUME NEW h, Good(h)
    PROVE  Becomes(h, RaiseInit(h))
<1> DEFINE more == IF Discord \in h.spawned THEN Append(h.relays, NewRelay) ELSE h.relays
           g == [h EXCEPT !.relays = more]
<1>1. h \in Hosts /\ h.relays \in Seq(Relays) /\ NewRelay \in Relays
  BY HostsAre, NewRelayIs DEF Good, Sound
<1>2. /\ more \in Seq(Relays)
      /\ \A k \in DOMAIN more : \/ k \in DOMAIN h.relays /\ more[k] = h.relays[k]
                                \/ k \notin DOMAIN h.relays /\ more[k] = NewRelay
      /\ DOMAIN h.relays \subseteq DOMAIN more
  <2> DEFINE q == h.relays
             n == Len(q)
  <2>1. q \in Seq(Relays) /\ n \in Nat /\ DOMAIN q = 1 .. n
    BY <1>1, HostsAre
  <2> HIDE DEF n, q
  <2>2. /\ Append(q, NewRelay) \in Seq(Relays) /\ DOMAIN Append(q, NewRelay) = 1 .. n + 1
        /\ Append(q, NewRelay)[n + 1] = NewRelay
        /\ \A k \in 1 .. n : Append(q, NewRelay)[k] = q[k]
    BY <1>1, <2>1, AppendProperties DEF n
  <2>3. \A k \in 1 .. n + 1 : k \in 1 .. n \/ (k \notin 1 .. n /\ k = n + 1)
    BY <2>1
  <2>4. more = IF Discord \in h.spawned THEN Append(q, NewRelay) ELSE q
    BY DEF q
  <2> HIDE DEF more
  <2>5. more \in {Append(q, NewRelay), q}
    BY <2>4
  <2>6. CASE more = Append(q, NewRelay)
    <3>1. /\ more \in Seq(Relays) /\ DOMAIN more = 1 .. n + 1 /\ more[n + 1] = NewRelay
          /\ \A k \in 1 .. n : more[k] = q[k]
      BY <2>2, <2>6
    <3>2. /\ DOMAIN q \subseteq DOMAIN more
          /\ \A k \in DOMAIN more : \/ k \in DOMAIN q /\ more[k] = q[k]
                                    \/ k \notin DOMAIN q /\ more[k] = NewRelay
      <4>1. ASSUME NEW k \in DOMAIN more
            PROVE  \/ k \in DOMAIN q /\ more[k] = q[k]
                   \/ k \notin DOMAIN q /\ more[k] = NewRelay
        BY <2>1, <2>3, <3>1, <4>1
      <4>2. 1 .. n \subseteq 1 .. n + 1
        BY <2>1
      <4> QED
        BY <2>1, <3>1, <4>1, <4>2
    <3> QED
      BY <3>1, <3>2 DEF q
  <2>7. CASE more = q
    <3>1. /\ DOMAIN q \subseteq DOMAIN more
          /\ \A k \in DOMAIN more : k \in DOMAIN q /\ more[k] = q[k]
      BY <2>7
    <3>2. more \in Seq(Relays)
      BY <2>1, <2>7
    <3> QED
      BY <3>1, <3>2 DEF q
  <2> QED
    BY <2>5, <2>6, <2>7
<1> HIDE DEF more
<1>3. /\ g \in Hosts /\ g.relays = more /\ g.state = h.state /\ g.arena = h.arena
      /\ g.goal = h.goal /\ g.asked = h.asked
  BY <1>1, <1>2 DEF Hosts
<1>4. RaiseInit(h) = Raised(h, g)
  BY DEF RaiseInit, more
<1> HIDE DEF g
<1>5. \A n : The(g, n) = The(h, n)
  BY <1>2, <1>3 DEF The
<1>6. \A n : Grown(The(h, n), The(g, n), 0)
  BY <1>5, TheIs
<1>7. \A k \in DOMAIN g.relays : Sound(g.relays[k])
  BY <1>2, <1>3, NewRelayIs DEF Good
<1>8. ~NewRelay.inArena
  BY DEF NewRelay
<1>9. h.state = "up" => Bound(g) /\ Tuned(g)
  BY <1>2, <1>3, <1>8 DEF Good, Bound, Tuned, Near
<1>10. Becomes(h, g)
  BY <1>3, <1>6, <1>7, <1>9 DEF Becomes, Good
<1> QED
  BY <1>4, <1>10, RaisedIs

(* ArenaEnter: every relay looks up the channel of the arena the bot is    *)
(* after, whatever its channel was.                                        *)
LEMMA RaiseArenaEnterIs ==
    ASSUME NEW h, NEW g \in Hosts, Good(h), g.relays = h.relays, g.state = h.state,
           Bound(g)
    PROVE  Becomes(h, RaiseArenaEnter(g))
<1> DEFINE after == [k \in DOMAIN g.relays |-> HandleArenaEnter(g.relays[k], g.goal)]
           f == [g EXCEPT !.relays = after, !.blocked = g.relays # <<>>]
<1>1. \A k \in DOMAIN g.relays : Sound(g.relays[k])
  BY DEF Good
<1>2. /\ DOMAIN after = DOMAIN g.relays
      /\ \A k \in DOMAIN g.relays : Grown(g.relays[k], after[k], 0)
                                    /\ after[k].channel = ChannelOf(g.goal)
  BY <1>1, HandleArenaEnterIs, HostsAre
<1>3. after \in Seq(Relays)
  <2>1. \A k \in DOMAIN g.relays : HandleArenaEnter(g.relays[k], g.goal) \in Relays
    BY <1>1, HandleArenaEnterIs, HostsAre DEF Grown, Sound
  <2>2. DOMAIN g.relays = 1 .. Len(g.relays) /\ Len(g.relays) \in Nat
    BY HostsAre
  <2> QED
    BY <2>1, <2>2
<1>4. RaiseArenaEnter(g) = Raised(g, f)
  BY DEF RaiseArenaEnter
<1> HIDE DEF after
<1>5. /\ f \in Hosts /\ f.relays = after /\ f.state = g.state /\ f.arena = g.arena
      /\ f.goal = g.goal /\ f.asked = g.asked
  BY <1>3 DEF Hosts
<1> HIDE DEF f
<1>6. g.goal \in Near(f)
  <2>1. CASE f.asked = <<>>
    BY <1>5, <2>1 DEF Bound, Near
  <2>2. CASE f.asked # <<>>
    <3>1. f.asked \in Seq(Arenas)
      BY <1>5, HostsAre
    <3>2. Len(f.asked) \in DOMAIN f.asked
      BY <2>2, <3>1
    <3> QED
      BY <1>5, <2>2, <3>2 DEF Bound, Near
  <2> QED
    BY <2>1, <2>2
<1>7. Bound(f) /\ Tuned(f)
  BY <1>2, <1>5, <1>6 DEF Bound, Tuned
<1>8. Becomes(h, f)
  BY <1>2, <1>5, <1>7, RelaysGrow
<1>9. CASE g.state = "up" /\ g.freed = {}
  <2>1. RaiseArenaEnter(g) = f
    BY <1>4, <1>9 DEF Raised
  <2> QED
    BY <1>8, <2>1
<1>10. CASE g.state = "up" /\ g.freed # {}
  <2> DEFINE c == [g EXCEPT !.state = "crashed"]
  <2>1. RaiseArenaEnter(g) = c
    BY <1>4, <1>10 DEF Raised
  <2>2. c \in Hosts /\ c.relays = g.relays /\ c.state = "crashed"
    BY DEF Hosts
  <2> HIDE DEF c
  <2> QED
    BY <2>1, <2>2, RelaysKept
<1>11. CASE g.state # "up"
  <2>1. RaiseArenaEnter(g) = g
    BY <1>4, <1>11 DEF Raised
  <2> QED
    BY <1>11, <2>1, RelaysKept
<1> QED
  BY <1>9, <1>10, <1>11

(* ArenaLeave, if the bot was in an arena.                                 *)
LEMMA LeaveIs == ASSUME NEW h, Good(h) PROVE Becomes(h, Leave(h))
<1>1. Becomes(h, h)
  BY FieldSet DEF Good
<1> QED
  BY <1>1, RaisedIs DEF Leave, RaiseArenaLeave

(* Term: every relay hands over what it has.                               *)
LEMMA RaiseTermIs ==
    ASSUME NEW h, Good(h)
    PROVE  /\ Becomes(h, RaiseTerm(h))
           /\ RaiseTerm(h).slots = h.slots
           /\ h.state = "up" /\ RaiseTerm(h).state = "up" =>
                 \A k \in DOMAIN RaiseTerm(h).relays : RaiseTerm(h).relays[k].buffer = <<>>
<1> DEFINE after == [k \in DOMAIN h.relays |-> FlushArenaMessages(h.relays[k])]
           f == [h EXCEPT !.relays = after]
<1>1. h \in Hosts /\ \A k \in DOMAIN h.relays : Sound(h.relays[k]) /\ h.relays[k] \in Relays
  BY DEF Good, Sound
<1>2. /\ DOMAIN after = DOMAIN h.relays
      /\ \A k \in DOMAIN h.relays : /\ Grown(h.relays[k], after[k], 0)
                                    /\ Stays(h.relays[k], after[k])
                                    /\ after[k].buffer = <<>>
  BY <1>1, FlushOf DEF Stays
<1>3. after \in Seq(Relays)
  <2>1. \A k \in DOMAIN h.relays : FlushArenaMessages(h.relays[k]) \in Relays
    BY <1>2 DEF Grown, Sound
  <2>2. DOMAIN h.relays = 1 .. Len(h.relays) /\ Len(h.relays) \in Nat
    BY <1>1, HostsAre
  <2> QED
    BY <2>1, <2>2
<1>4. RaiseTerm(h) = Raised(h, f)
  BY DEF RaiseTerm
<1> HIDE DEF after
<1>5. /\ f \in Hosts /\ f.relays = after /\ f.state = h.state /\ f.arena = h.arena
      /\ f.goal = h.goal /\ f.asked = h.asked /\ f.slots = h.slots
  BY <1>1, <1>3 DEF Hosts
<1> HIDE DEF f
<1>6. h.state = "up" => Bound(f) /\ Tuned(f)
  BY <1>2, <1>5 DEF Good, Bound, Tuned, Near, Stays
<1>7. Becomes(h, f)
  BY <1>2, <1>5, <1>6, RelaysGrow
<1>8. \/ h.state # "up" /\ Raised(h, f) = h
      \/ h.state = "up" /\ Raised(h, f) = [h EXCEPT !.state = "crashed"]
      \/ h.state = "up" /\ Raised(h, f) = f
  BY DEF Raised
<1>9. [h EXCEPT !.state = "crashed"].slots = h.slots /\ [h EXCEPT !.state = "crashed"].state = "crashed"
  BY <1>1 DEF Hosts
<1>10. Becomes(h, Raised(h, f))
  BY <1>7, RaisedIs
<1> DEFINE t == Raised(h, f)
           c == [h EXCEPT !.state = "crashed"]
<1> HIDE DEF c, t
<1>11. t.slots = h.slots
  BY <1>5, <1>8, <1>9 DEF c, t
<1>12. ASSUME h.state = "up", t.state = "up"
       PROVE  \A k \in DOMAIN t.relays : t.relays[k].buffer = <<>>
  <2>1. t = f
    BY <1>8, <1>9, <1>12 DEF c, t
  <2> QED
    BY <1>2, <1>5, <2>1
<1> QED
  BY <1>4, <1>10, <1>11, <1>12 DEF t

(* importLibrary(), for one name.                                          *)
LEMMA ImportOneIs ==
    ASSUME NEW h, Good(h), NEW lib \in {Missing} \cup Libraries
    PROVE  Becomes(h, ImportOne(h, lib))
<1> DEFINE open == {s \in Slots : h.slots[s] = Empty}
           slot == CHOOSE s \in open : \A t \in open : s <= t
           load == [h EXCEPT !.slots[slot] = lib]
           spawned == [load EXCEPT !.spawned = @ \cup {lib}]
           init == RaiseInit(spawned)
<1>1. h \in Hosts /\ open \subseteq Slots
  BY DEF Good
<1>2. CASE h.state # "up"
  <2>1. ImportOne(h, lib) = h
    BY <1>2 DEF ImportOne
  <2> QED
    BY <1>1, <2>1, FieldSet
<1>3. CASE h.state = "up" /\ open = {}
  <2> DEFINE g == [h EXCEPT !.killMe = TRUE]
  <2>1. ImportOne(h, lib) = g
    BY <1>3 DEF ImportOne
  <2>2. /\ g \in Hosts /\ g.relays = h.relays /\ g.state = h.state
        /\ g.arena = h.arena /\ g.goal = h.goal /\ g.asked = h.asked
    BY <1>1 DEF Hosts
  <2> HIDE DEF g
  <2> QED
    BY <2>1, <2>2, FieldSet
<1>4. CASE h.state = "up" /\ open # {} /\ lib = Missing
  <2>1. ImportOne(h, lib) = [h EXCEPT !.state = "crashed"]
    BY <1>1, <1>4, HostsAre, PluginsAssumption DEF ImportOne
  <2> QED
    BY <2>1, CrashIs
<1>5. ASSUME open # {}, lib # Missing
      PROVE  /\ load \in Hosts /\ Becomes(h, load) /\ lib \in Libraries
             /\ Becomes(load, [load EXCEPT !.killMe = TRUE])
             /\ Becomes(load, spawned)
  <2>1. open \in SUBSET Nat /\ slot \in Slots
    <3>1. open \in SUBSET Nat
      BY <1>1 DEF Slots
    <3> HIDE DEF open
    <3>2. \E s \in open : \A t \in open : s <= t
      BY <1>5, <3>1, LeastElement
    <3>3. slot \in open
      BY <3>2, Zenon
    <3> QED
      BY <1>1, <3>1, <3>3
  <2>2. lib \in Libraries
    BY <1>5
  <2> HIDE DEF slot, open
  <2>3. /\ load \in Hosts /\ load.relays = h.relays /\ load.state = h.state
        /\ load.arena = h.arena /\ load.goal = h.goal /\ load.asked = h.asked
    <3>1. [h.slots EXCEPT ![slot] = lib] \in [Slots -> Libraries \cup {Empty}]
      BY <1>1, <2>1, <2>2, HostsAre
    <3> QED
      BY <1>1, <3>1 DEF Hosts
  <2>4. Becomes(h, load) /\ Good(load)
    <3> HIDE DEF load
    <3> QED
      BY <2>3, FieldSet DEF Becomes
  <2> HIDE DEF load
  <2>5. Becomes(load, [load EXCEPT !.killMe = TRUE])
    <3> DEFINE g == [load EXCEPT !.killMe = TRUE]
    <3>1. /\ g \in Hosts /\ g.relays = load.relays /\ g.state = load.state
          /\ g.arena = load.arena /\ g.goal = load.goal /\ g.asked = load.asked
      BY <2>3 DEF Hosts
    <3> HIDE DEF g
    <3>2. Becomes(load, g)
      BY <2>4, <3>1, FieldSet
    <3> QED
      BY <3>2 DEF g
  <2>6. Becomes(load, spawned)
    <3>1. /\ spawned \in Hosts /\ spawned.relays = load.relays
          /\ spawned.state = load.state /\ spawned.arena = load.arena
          /\ spawned.goal = load.goal /\ spawned.asked = load.asked
      BY <2>2, <2>3 DEF Hosts
    <3> HIDE DEF spawned
    <3> QED
      BY <2>4, <3>1, FieldSet
  <2> QED
    BY <2>2, <2>3, <2>4, <2>5, <2>6
<1>6. CASE h.state = "up" /\ open # {} /\ lib # Missing /\ lib \in h.spawned
  <2>1. ImportOne(h, lib) = [load EXCEPT !.killMe = TRUE]
    BY <1>6 DEF ImportOne
  <2> HIDE DEF load
  <2> QED
    BY <1>5, <1>6, <2>1, BecomesTwice
<1>7. CASE h.state = "up" /\ open # {} /\ lib # Missing /\ lib \notin h.spawned
  <2>1. ImportOne(h, lib) = IF h.inArena THEN RaiseArenaEnter(init) ELSE init
    BY <1>5, <1>7 DEF ImportOne
  <2> HIDE DEF load
  <2>2. Becomes(h, spawned) /\ Good(spawned)
    BY <1>5, <1>7, BecomesTwice DEF Becomes
  <2> HIDE DEF spawned
  <2>3. Becomes(h, init) /\ Good(init)
    <3>1. Becomes(spawned, init)
      BY <2>2, RaiseInitIs
    <3> QED
      BY <2>2, <3>1, BecomesTwice DEF Becomes
  <2> HIDE DEF init
  <2>4. CASE init.state = "up"
    <3>1. Becomes(init, RaiseArenaEnter(init))
      BY <2>3, <2>4, RaiseArenaEnterIs DEF Good
    <3>2. Becomes(h, RaiseArenaEnter(init))
      BY <2>3, <3>1, BecomesTwice
    <3> QED
      BY <2>1, <2>3, <3>2
  <2>5. CASE init.state # "up"
    <3>1. RaiseArenaEnter(init) = init
      BY <2>5 DEF RaiseArenaEnter, Raised
    <3> QED
      BY <2>1, <2>3, <3>1
  <2> QED
    BY <2>4, <2>5
<1> QED
  BY <1>2, <1>3, <1>4, <1>6, <1>7

(* importLibrary(), for a line of names.                                   *)
LEMMA ImportLibraryIs ==
    ASSUME NEW h, Good(h), NEW names \in Seq({Missing} \cup Libraries)
    PROVE  Becomes(h, ImportLibrary(h, names))
<1> DEFINE all == Len(names)
           N == IF all > 1 /\ names[all - 1] = names[all] THEN all - 1 ELSE all
           S == {g \in Hosts : Becomes(h, g)}
           Turn(k, g) == ImportOne(g, names[N + 1 - k])
           Def(f) == [k \in 0 .. N |-> IF k = 0 THEN h ELSE Turn(k, f[k - 1])]
           up == CHOOSE f : f = Def(f)
           step == [k \in 1 .. N |-> [g \in S |-> Turn(k, g)]]
<1>1. N \in Nat /\ all \in Nat /\ N <= all
  <2>1. all \in Nat
    OBVIOUS
  <2> HIDE DEF all
  <2> QED
    BY <2>1
<1>2. ImportLibrary(h, names) = up[N]
  BY Zenon DEF ImportLibrary
<1>3. ASSUME NEW k \in 1 .. N, NEW g \in S PROVE Turn(k, g) \in S
  <2>1. names[N + 1 - k] \in {Missing} \cup Libraries
    <3>1. N + 1 - k \in 1 .. all
      BY <1>1
    <3> HIDE DEF N
    <3> QED
      BY <3>1
  <2>2. Becomes(g, Turn(k, g)) /\ Good(g) /\ Becomes(h, g)
    BY <2>1, ImportOneIs DEF Becomes
  <2> HIDE DEF Turn
  <2>3. Becomes(h, Turn(k, g))
    BY <2>2, BecomesTwice
  <2> QED
    BY <2>3 DEF Becomes, Good
<1>4. h \in S
  BY FieldSet DEF Good
<1> HIDE DEF N, S, Turn
<1>5. step \in [1 .. N -> [S -> S]]
  BY <1>3
<1>6. PICK f \in [0 .. N -> S] : Iterates(f, N, h, step)
  <2> HIDE DEF step
  <2> QED
    BY <1>1, <1>4, <1>5, Iteration
<1>7. f = Def(f)
  <2>1. ASSUME NEW k \in 1 .. N PROVE f[k] = Turn(k, f[k - 1])
    <3>1. f[k - 1] \in S
      BY <1>1
    <3> QED
      BY <1>6, <3>1 DEF Iterates
  <2>2. \A k \in 0 .. N : f[k] = IF k = 0 THEN h ELSE Turn(k, f[k - 1])
    BY <1>1, <1>6, <2>1 DEF Iterates
  <2> QED
    BY <2>2
<1>8. up = Def(up)
  <2> HIDE DEF Def
  <2> QED
    BY <1>7, Zenon
<1> HIDE DEF up
<1>9. up[0] = h /\ \A k \in 1 .. N : up[k] = Turn(k, up[k - 1])
  <2> DEFINE g == Def(up)
  <2>1. \A k \in 0 .. N : g[k] = IF k = 0 THEN h ELSE Turn(k, up[k - 1])
    OBVIOUS
  <2> HIDE DEF g
  <2>2. up = g
    BY <1>8 DEF g
  <2>3. 0 \in 0 .. N /\ \A k \in 1 .. N : k \in 0 .. N /\ k # 0
    BY <1>1
  <2> QED
    BY <2>1, <2>2, <2>3
<1> HIDE DEF Def
<1>10. 0 .. N \subseteq {k \in 0 .. N : up[k] \in S}
  <2> DEFINE T == {k \in 0 .. N : up[k] \in S}
  <2>1. 0 \in T
    BY <1>1, <1>4, <1>9
  <2>2. ASSUME NEW k \in 0 .. N - 1, k \in T PROVE k + 1 \in T
    <3>1. k + 1 \in 1 .. N /\ (k + 1) - 1 = k
      BY <1>1
    <3>2. up[k + 1] = Turn(k + 1, up[k])
      BY <1>9, <3>1
    <3> QED
      BY <1>3, <2>2, <3>1, <3>2
  <2> HIDE DEF T
  <2>3. 0 .. N \subseteq T
    BY <1>1, <2>1, <2>2, InductionUpTo
  <2> QED
    BY <2>3 DEF T
<1> QED
  BY <1>1, <1>2, <1>10 DEF S

Silent(h) == \A k \in DOMAIN h.relays : h.relays[k].buffer = <<>>

(* clearImport(), of a slot that is in use.                                *)
LEMMA ClearImportIs ==
    ASSUME NEW h, Good(h), NEW slot \in Slots
    PROVE  /\ Becomes(h, ClearImport(h, slot))
           /\ \A s \in Slots \ {slot} : ClearImport(h, slot).slots[s] = h.slots[s]
           /\ h.state = "up" /\ ClearImport(h, slot).state = "up" =>
                 Silent(ClearImport(h, slot))
<1> DEFINE t == RaiseTerm(h)
           lib == h.slots[slot]
           gone == IF shared \/ \E s \in Slots \ {slot} : h.slots[s] = lib
                   THEN {} ELSE {lib}
           g == [t EXCEPT !.slots[slot] = Empty, !.freed = @ \cup gone,
                          !.spawned = @ \ gone]
<1>1. /\ Becomes(h, t) /\ t.slots = h.slots
      /\ h.state = "up" /\ t.state = "up" => Silent(t)
  BY RaiseTermIs DEF Silent
<1>2. ClearImport(h, slot) = IF lib = Empty \/ t.state # "up" THEN t ELSE g
  BY DEF ClearImport
<1> HIDE DEF t
<1>3. Good(t) /\ t \in Hosts /\ h \in Hosts
  BY <1>1 DEF Becomes, Good
<1>4. CASE lib = Empty \/ t.state # "up"
  BY <1>1, <1>2, <1>4
<1>5. CASE ~(lib = Empty \/ t.state # "up")
  <2>1. lib \in Libraries /\ gone \subseteq Libraries
    <3>1. lib \in Libraries \cup {Empty}
      BY <1>3, HostsAre
    <3> QED
      BY <1>5, <3>1
  <2> HIDE DEF gone
  <2>2. /\ g \in Hosts /\ g.relays = t.relays /\ g.state = t.state
        /\ g.arena = t.arena /\ g.goal = t.goal /\ g.asked = t.asked
        /\ \A s \in Slots \ {slot} : g.slots[s] = t.slots[s]
    <3>1. t.slots \in [Slots -> Libraries \cup {Empty}]
      BY <1>3, HostsAre
    <3> DEFINE q == [t.slots EXCEPT ![slot] = Empty]
    <3>2. q \in [Slots -> Libraries \cup {Empty}] /\ \A s \in Slots \ {slot} : q[s] = t.slots[s]
      BY <3>1
    <3> DEFINE f == [t EXCEPT !.slots = q, !.freed = t.freed \cup gone,
                              !.spawned = t.spawned \ gone]
    <3>3. g = f
      BY <1>3 DEF Hosts
    <3> HIDE DEF q, g
    <3>4. /\ f \in Hosts /\ f.relays = t.relays /\ f.state = t.state
          /\ f.arena = t.arena /\ f.goal = t.goal /\ f.asked = t.asked /\ f.slots = q
      BY <1>3, <2>1, <3>2 DEF Hosts
    <3> HIDE DEF f
    <3> QED
      BY <3>2, <3>3, <3>4
  <2> HIDE DEF g
  <2>3. Becomes(t, g)
    BY <1>3, <2>2, FieldSet
  <2>4. Becomes(h, g)
    BY <1>1, <2>3, BecomesTwice
  <2>5. ClearImport(h, slot) = g
    BY <1>2, <1>5
  <2>6. h.state = "up" /\ g.state = "up" => Silent(g)
    BY <1>1, <2>2 DEF Silent
  <2> QED
    BY <1>1, <2>2, <2>4, <2>5, <2>6
<1> QED
  BY <1>4, <1>5

(* clearImports(): if a slot was in use, the modules were told to end.     *)
LEMMA ClearImportsIs ==
    ASSUME NEW h, Good(h)
    PROVE  /\ Becomes(h, ClearImports(h))
           /\ ClearImports(h).state = "up" /\ (\E s \in Slots : h.slots[s] # Empty) =>
                 Silent(ClearImports(h))
<1> DEFINE N == DllMaxLoaded
           S == {g \in Hosts : Becomes(h, g)}
           Turn(k, g) == IF g.slots[k] = Empty THEN g ELSE ClearImport(g, k)
           Def(f) == [s \in 0 .. DllMaxLoaded |->
                         IF s = 0 THEN h ELSE LET t == f[s - 1] IN
                            IF t.slots[s] = Empty THEN t ELSE ClearImport(t, s)]
           up == CHOOSE f : f = Def(f)
           step == [k \in 1 .. N |-> [g \in S |-> Turn(k, g)]]
<1>1. N \in Nat /\ Slots = 1 .. N
  BY PluginsAssumption DEF Slots
<1>2. ClearImports(h) = up[N]
  BY Zenon DEF ClearImports
<1>3. ASSUME NEW k \in 1 .. N, NEW g \in S PROVE Turn(k, g) \in S
  <2>1. Becomes(h, g) /\ Good(g)
    BY DEF Becomes
  <2>2. Becomes(g, ClearImport(g, k))
    BY <1>1, <2>1, ClearImportIs
  <2>3. Becomes(h, ClearImport(g, k))
    BY <2>1, <2>2, BecomesTwice
  <2>4. Becomes(h, Turn(k, g))
    BY <2>1, <2>3
  <2> HIDE DEF Turn
  <2> QED
    BY <2>4 DEF Becomes, Good
<1>4. h \in S
  BY FieldSet DEF Good
<1> HIDE DEF N, S, Turn
<1>6. step \in [1 .. N -> [S -> S]]
  BY <1>3
<1>7. PICK f \in [0 .. N -> S] : Iterates(f, N, h, step)
  <2> HIDE DEF step
  <2> QED
    BY <1>1, <1>4, <1>6, Iteration
<1> DEFINE Same(d) == [s \in 0 .. N |-> IF s = 0 THEN h ELSE Turn(s, d[s - 1])]
<1>8. \A g : Def(g) = Same(g)
  BY DEF N, Turn
<1>9. f = Def(f)
  <2>1. ASSUME NEW k \in 1 .. N PROVE f[k] = Turn(k, f[k - 1])
    <3>1. f[k - 1] \in S
      BY <1>1
    <3> QED
      BY <1>7, <3>1 DEF Iterates
  <2>2. \A k \in 0 .. N : f[k] = IF k = 0 THEN h ELSE Turn(k, f[k - 1])
    BY <1>1, <1>7, <2>1 DEF Iterates
  <2>3. f = Same(f)
    BY <2>2
  <2> QED
    BY <1>8, <2>3
<1>10. up = Def(up)
  <2> HIDE DEF Def
  <2> QED
    BY <1>9, Zenon
<1> HIDE DEF up
<1>11. up[0] = h /\ \A k \in 1 .. N : up[k] = Turn(k, up[k - 1])
  <2> DEFINE g == Same(up)
  <2>1. \A k \in 0 .. N : g[k] = IF k = 0 THEN h ELSE Turn(k, up[k - 1])
    OBVIOUS
  <2> HIDE DEF g
  <2>2. up = g
    BY <1>8, <1>10 DEF g
  <2>3. 0 \in 0 .. N /\ \A k \in 1 .. N : k \in 0 .. N /\ k # 0
    BY <1>1
  <2> QED
    BY <2>1, <2>2, <2>3
<1> HIDE DEF Def, Same
<1>12. \A g \in S : Becomes(h, g) /\ Good(g)
  BY DEF S, Becomes
<1> DEFINE Cleared(k) ==
             /\ up[k] \in S
             /\ up[k].state = "up" =>
                   /\ \A s \in k + 1 .. N : up[k].slots[s] = h.slots[s]
                   /\ (\E s \in 1 .. k : h.slots[s] # Empty) => Silent(up[k])
           T == {k \in 0 .. N : Cleared(k)}
<1>13. 0 \in T
  <2>1. Cleared(0)
    BY <1>1, <1>4, <1>11
  <2> QED
    BY <1>1, <2>1
<1>14. ASSUME NEW k \in 0 .. N - 1, k \in T PROVE k + 1 \in T
  <2> DEFINE g == up[k]
             c == up[k + 1]
             j == k + 1
  <2>1. /\ j \in 1 .. N /\ j \in 0 .. N /\ j - 1 = k /\ j \in k + 1 .. N
        /\ j + 1 .. N \subseteq (k + 1 .. N) \ {j} /\ j + 1 .. N \subseteq 1 .. N
        /\ 1 .. j = (1 .. k) \cup {j}
    BY <1>1
  <2>2. g \in S /\ Good(g) /\ Cleared(k)
    BY <1>12, <1>14
  <2>3. c = Turn(j, g)
    <3>1. up[j] = Turn(j, up[j - 1])
      BY <1>11, <2>1
    <3> QED
      BY <2>1, <3>1
  <2>4. c \in S
    BY <1>3, <2>1, <2>2, <2>3
  <2> HIDE DEF j
  <2>5. /\ g.state = "up" => \A s \in k + 1 .. N : g.slots[s] = h.slots[s]
        /\ g.state = "up" /\ (\E s \in 1 .. k : h.slots[s] # Empty) => Silent(g)
    BY <2>2
  <2> HIDE DEF c, g
  <2>6. CASE g.slots[j] = Empty
    <3>1. c = g
      BY <2>3, <2>6 DEF Turn
    <3>2. c.state = "up" => /\ \A s \in j + 1 .. N : c.slots[s] = h.slots[s]
                            /\ (\E s \in 1 .. j : h.slots[s] # Empty) => Silent(c)
      <4>1. c.state = "up" => h.slots[j] = Empty
        BY <2>1, <2>5, <2>6, <3>1
      <4>2. c.state = "up" => \A s \in j + 1 .. N : c.slots[s] = h.slots[s]
        BY <2>1, <2>5, <3>1
      <4>3. c.state = "up" /\ (\E s \in 1 .. j : h.slots[s] # Empty) => Silent(c)
        BY <2>1, <2>5, <3>1, <4>1
      <4> QED
        BY <4>2, <4>3
    <3>3. Cleared(j)
      BY <2>4, <3>2 DEF c, j
    <3> QED
      BY <2>1, <3>3 DEF j
  <2>7. CASE g.slots[j] # Empty
    <3>1. c = ClearImport(g, j) /\ j \in Slots
      BY <1>1, <2>1, <2>3, <2>7 DEF Turn
    <3>2. /\ Becomes(g, c)
          /\ \A s \in Slots \ {j} : c.slots[s] = g.slots[s]
          /\ g.state = "up" /\ c.state = "up" => Silent(c)
      BY <2>2, <3>1, ClearImportIs
    <3>3. c.state = "up" => g.state = "up"
      BY <3>2 DEF Becomes
    <3>4. c.state = "up" => \A s \in j + 1 .. N : c.slots[s] = h.slots[s]
      BY <1>1, <2>1, <2>5, <3>2, <3>3
    <3>5. c.state = "up" => Silent(c)
      BY <3>2, <3>3
    <3>6. Cleared(j)
      BY <2>4, <3>4, <3>5 DEF c, j
    <3> QED
      BY <2>1, <3>6 DEF j
  <2> QED
    BY <2>6, <2>7
<1> HIDE DEF T
<1>15. 0 .. N \subseteq T
  BY <1>1, <1>13, <1>14, InductionUpTo
<1>16. Cleared(N)
  BY <1>1, <1>15 DEF T
<1> QED
  BY <1>1, <1>2, <1>12, <1>16
-----------------------------------------------------------------------------
(* The invariant.                                                          *)
IInv == Good(host) /\ shared \in BOOLEAN

(* The session ends: what the relays hear next is another arena's.         *)
LEMMA LostIs ==
    ASSUME NEW h, NEW g, Good(h), Becomes(h, g)
    PROVE  Becomes(h, Lost(g))
<1> DEFINE q == <<g.goal>>
           f == [g EXCEPT !.inArena = FALSE, !.arena = Nowhere, !.asked = q]
<1>1. g \in Hosts /\ Good(g) /\ g.goal \in Arenas
  BY HostsAre DEF Becomes, Good
<1>2. q \in Seq(Arenas) /\ q # <<>> /\ q[Len(q)] = g.goal
  BY <1>1
<1>3. Lost(g) = f
  BY DEF Lost
<1> HIDE DEF q
<1>4. /\ f \in Hosts /\ f.relays = g.relays /\ f.state = g.state /\ f.arena = Nowhere
      /\ f.goal = g.goal /\ f.asked = q
  BY <1>1, <1>2 DEF Hosts
<1> HIDE DEF f
<1>5. Bound(f) /\ Tuned(f)
  BY <1>2, <1>4 DEF Bound, Tuned
<1>6. Becomes(g, f)
  BY <1>1, <1>4, <1>5, RelaysKept
<1> QED
  BY <1>3, <1>6, BecomesTwice

(* !load                                                                   *)
LEMMA LoadIs == ASSUME IInv, Load PROVE Becomes(host, host')
<1>1. PICK names \in [1 .. 1 -> Libraries \cup {Missing}] : host' = ImportLibrary(host, names)
  BY DEF Load, Step
<1>2. names \in Seq({Missing} \cup Libraries)
  <2> DEFINE S == {Missing} \cup Libraries
  <2>1. names \in [1 .. 1 -> S]
    OBVIOUS
  <2> HIDE DEF S
  <2>2. names \in Seq(S)
    BY <2>1, SeqDef, 1 \in Nat
  <2> QED
    BY <2>2 DEF S
<1> QED
  BY <1>1, <1>2, ImportLibraryIs DEF IInv

(* !unload                                                                 *)
LEMMA UnloadIs == ASSUME IInv, Unload PROVE Becomes(host, host')
<1>1. CASE \E slot \in Slots : Step(ClearImport(host, slot))
  <2>1. PICK slot \in Slots : host' = ClearImport(host, slot)
    BY <1>1 DEF Step
  <2> QED
    BY <2>1, ClearImportIs DEF IInv
<1>2. CASE Step(ClearImports(host))
  BY <1>2, ClearImportsIs DEF IInv, Step
<1> QED
  BY <1>1, <1>2 DEF Unload

(* !go                                                                     *)
LEMMA ChangeArenaIs == ASSUME IInv, ChangeArena PROVE Becomes(host, host')
<1> DEFINE g == Leave(host)
<1>1. PICK a \in Arenas :
        host' = [g EXCEPT !.inArena = FALSE, !.goal = a, !.asked = Append(@, a)]
  BY DEF ChangeArena, Step
<1>2. Good(host) /\ Becomes(host, g) /\ Good(g) /\ g \in Hosts
  BY LeaveIs DEF IInv, Becomes, Good
<1> HIDE DEF g
<1> DEFINE n == Len(g.asked)
           q == Append(g.asked, a)
           f == [g EXCEPT !.inArena = FALSE, !.goal = a, !.asked = q]
<1>3. host' = f
  BY <1>1, <1>2 DEF Hosts
<1>4. /\ q \in Seq(Arenas) /\ q # <<>> /\ q[Len(q)] = a
      /\ DOMAIN g.asked \subseteq DOMAIN q /\ \A i \in DOMAIN g.asked : q[i] = g.asked[i]
  <2>1. g.asked \in Seq(Arenas)
    BY <1>2, HostsAre
  <2> QED
    BY <2>1
<1> HIDE DEF q
<1>5. /\ f \in Hosts /\ f.relays = g.relays /\ f.state = g.state /\ f.arena = g.arena
      /\ f.goal = a /\ f.asked = q
  BY <1>2, <1>4 DEF Hosts
<1> HIDE DEF f
<1>6. Bound(f)
  BY <1>4, <1>5 DEF Bound
<1>7. Near(g) \subseteq Near(f)
  BY <1>4, <1>5 DEF Near
<1>8. f.state = "up" => Tuned(f)
  BY <1>2, <1>5, <1>7 DEF Good, Tuned
<1>9. Becomes(g, f)
  BY <1>2, <1>5, <1>6, <1>8, RelaysKept
<1> QED
  BY <1>2, <1>3, <1>9, BecomesTwice

(* The server lets the bot in.                                             *)
LEMMA EnterArenaIs == ASSUME IInv, EnterArena PROVE Becomes(host, host')
<1> DEFINE q == Tail(host.asked)
           a == Head(host.asked)
           g == [host EXCEPT !.arena = a, !.asked = q]
<1>1. /\ host' = RaiseArenaEnter(g) /\ host.asked # <<>> /\ host.state = "up"
  BY DEF EnterArena, Step
<1>2. /\ Good(host) /\ host \in Hosts /\ host.asked \in Seq(Arenas)
      /\ host.goal = host.asked[Len(host.asked)]
  <2>1. Good(host) /\ host \in Hosts /\ Bound(host)
    BY <1>1 DEF IInv, Good
  <2> QED
    BY <1>1, <2>1, HostsAre DEF Bound
<1>3. a \in Arenas /\ q \in Seq(Arenas)
  BY <1>1, <1>2
<1>4. q = <<>> => a = host.goal
  <2> DEFINE p == host.asked
  <2>1. p \in Seq(Arenas) /\ p # <<>> /\ host.goal = p[Len(p)] /\ q = Tail(p) /\ a = Head(p)
    BY <1>1, <1>2
  <2> HIDE DEF p, q, a
  <2>2. Len(q) = Len(p) - 1 /\ a = p[1] /\ Len(p) \in Nat
    BY <2>1
  <2>3. q = <<>> => Len(q) = 0
    OBVIOUS
  <2>4. q = <<>> => Len(p) = 1
    BY <2>2, <2>3
  <2> QED
    BY <2>1, <2>2, <2>4
<1>5. q # <<>> => q[Len(q)] = host.goal
  BY <1>1, <1>2
<1> HIDE DEF a, q
<1>6. /\ g \in Hosts /\ g.relays = host.relays /\ g.state = host.state /\ g.arena = a
      /\ g.goal = host.goal /\ g.asked = q
  BY <1>2, <1>3 DEF Hosts
<1> HIDE DEF g
<1>7. Bound(g)
  BY <1>4, <1>5, <1>6 DEF Bound
<1>8. Becomes(host, RaiseArenaEnter(g))
  BY <1>2, <1>6, <1>7, RaiseArenaEnterIs
<1> QED
  BY <1>1, <1>8

(* The tick lets go of what no table holds back.                           *)
LEMMA TickIs == ASSUME IInv, Tick PROVE Becomes(host, host')
<1> DEFINE after == [k \in DOMAIN host.relays |-> TryFlush(host.relays[k])]
           f == [host EXCEPT !.blocked = FALSE, !.relays = after]
<1>1. host' = Raised(host, f)
  BY DEF Tick, Step
<1>2. /\ Good(host) /\ host \in Hosts
      /\ \A k \in DOMAIN host.relays : Sound(host.relays[k])
  BY DEF IInv, Good
<1>3. /\ DOMAIN after = DOMAIN host.relays
      /\ \A k \in DOMAIN host.relays : /\ Grown(host.relays[k], after[k], 0)
                                       /\ Stays(host.relays[k], after[k])
  BY <1>2, TryFlushIs
<1>4. after \in Seq(Relays)
  <2>1. \A k \in DOMAIN host.relays : TryFlush(host.relays[k]) \in Relays
    BY <1>2, TryFlushIs DEF Grown, Sound
  <2>2. DOMAIN host.relays = 1 .. Len(host.relays) /\ Len(host.relays) \in Nat
    BY <1>2, HostsAre
  <2> QED
    BY <2>1, <2>2
<1> HIDE DEF after
<1>5. /\ f \in Hosts /\ f.relays = after /\ f.state = host.state /\ f.arena = host.arena
      /\ f.goal = host.goal /\ f.asked = host.asked
  BY <1>2, <1>4 DEF Hosts
<1> HIDE DEF f
<1>6. host.state = "up" => Bound(f) /\ Tuned(f)
  BY <1>2, <1>3, <1>5 DEF Good, Bound, Tuned, Near, Stays
<1>7. Becomes(host, f)
  BY <1>2, <1>3, <1>5, <1>6, RelaysGrow
<1> QED
  BY <1>1, <1>2, <1>7, RaisedIs

(* What only sets a mark of the host.                                      *)
LEMMA MarksAre ==
    ASSUME IInv, Synchronize \/ Close \/ Exit
    PROVE  Becomes(host, host')
<1>1. Good(host) /\ host \in Hosts /\ Becomes(host, Leave(host))
  BY LeaveIs DEF IInv, Good
<1>2. ASSUME NEW h, Good(h)
      PROVE  /\ Becomes(h, [h EXCEPT !.inArena = TRUE])
             /\ Becomes(h, [h EXCEPT !.killMe = TRUE])
  <2> DEFINE f == [h EXCEPT !.inArena = TRUE]
             g == [h EXCEPT !.killMe = TRUE]
  <2>1. /\ f \in Hosts /\ f.relays = h.relays /\ f.state = h.state /\ f.arena = h.arena
        /\ f.goal = h.goal /\ f.asked = h.asked
    BY <1>2 DEF Good, Hosts
  <2>2. /\ g \in Hosts /\ g.relays = h.relays /\ g.state = h.state /\ g.arena = h.arena
        /\ g.goal = h.goal /\ g.asked = h.asked
    BY <1>2 DEF Good, Hosts
  <2> HIDE DEF f, g
  <2>3. Becomes(h, f) /\ Becomes(h, g)
    BY <1>2, <2>1, <2>2, FieldSet
  <2> QED
    BY <2>3 DEF f, g
<1>3. CASE Synchronize
  BY <1>1, <1>2, <1>3 DEF Synchronize, Step
<1>4. CASE Exit
  BY <1>1, <1>2, <1>4 DEF Exit, Step
<1>5. CASE Close
  <2> DEFINE g == Leave(host)
  <2>1. host' = [g EXCEPT !.killMe = TRUE]
    BY <1>5 DEF Close, Step
  <2> HIDE DEF g
  <2>2. Becomes(g, [g EXCEPT !.killMe = TRUE])
    BY <1>1, <1>2 DEF Becomes, g
  <2> QED
    BY <1>1, <2>1, <2>2, BecomesTwice DEF g
<1> QED
  BY <1>3, <1>4, <1>5

(* The end of a host: if it was reached with a library loaded, the modules *)
(* have handed over what they had.                                         *)
LEMMA RemoveIs ==
    ASSUME IInv, Remove
    PROVE  /\ Good(host')
           /\ \A n \in Nat \ {0} : Grown(The(host, n), The(host', n), 0)
           /\ host'.state = "removed" /\ (\E s \in Slots : host.slots[s] # Empty) =>
                 Silent(host')
<1> DEFINE h == ClearImports(host)
           g == [h EXCEPT !.state = "removed"]
<1>1. /\ Becomes(host, h)
      /\ h.state = "up" /\ (\E s \in Slots : host.slots[s] # Empty) => Silent(h)
  BY ClearImportsIs DEF IInv
<1>2. /\ host' = IF h.state = "up" THEN g ELSE h
      /\ host.state = "up"
  BY DEF Remove
<1> HIDE DEF h
<1>3. /\ h \in Hosts /\ \A k \in DOMAIN h.relays : Sound(h.relays[k])
      /\ h.state \in {"up", "crashed"}
  BY <1>1, <1>2 DEF Becomes, Good
<1>4. g \in Hosts /\ g.relays = h.relays /\ g.state = "removed"
  BY <1>3 DEF Hosts
<1> HIDE DEF g
<1>5. Good(g) /\ \A n : The(g, n) = The(h, n)
  BY <1>3, <1>4 DEF Good, The
<1>6. Silent(h) => Silent(g)
  BY <1>4 DEF Silent
<1>7. CASE h.state = "up"
  BY <1>1, <1>2, <1>5, <1>6, <1>7 DEF Becomes
<1>8. CASE h.state # "up"
  BY <1>1, <1>2, <1>3, <1>8 DEF Becomes
<1> QED
  BY <1>7, <1>8

(* A line of chat reaches every relay.                                     *)
LEMMA SayIs ==
    ASSUME IInv, NEW mode \in Modes, NEW kind \in Kinds, Say(mode, kind)
    PROVE  /\ Good(host') /\ host'.state # "removed"
           /\ \A n \in Nat \ {0} :
                 \E lines \in 0 .. 1 : /\ Taken(The(host, n)) + lines <= MaxLines
                                      /\ Grown(The(host, n), The(host', n), lines)
<1> DEFINE after == [k \in DOMAIN host.relays |->
                        HandleChat(host.relays[k], mode, kind, host.blocked, Near(host))]
           f == [host EXCEPT !.relays = after]
<1>1. /\ host' = Raised(host, f) /\ host.state = "up" /\ host.arena # Nowhere
      /\ \A k \in DOMAIN host.relays : Taken(host.relays[k]) < MaxLines
  BY DEF Say, Step
<1>2. /\ Good(host) /\ host \in Hosts /\ host.blocked \in BOOLEAN
      /\ \A k \in DOMAIN host.relays : Sound(host.relays[k])
  BY HostsAre DEF IInv, Good
<1>3. /\ DOMAIN after = DOMAIN host.relays
      /\ \A k \in DOMAIN host.relays :
            /\ \E lines \in 0 .. 1 : Grown(host.relays[k], after[k], lines)
            /\ Stays(host.relays[k], after[k])
  <2>1. Near(host) \in SUBSET Arenas
    <3>1. host.arena \in Arenas /\ host.asked \in Seq(Arenas)
      BY <1>1, <1>2, HostsAre
    <3>2. \A i \in DOMAIN host.asked : host.asked[i] \in Arenas
      BY <3>1
    <3> QED
      BY <3>1, <3>2 DEF Near
  <2>2. \A k \in DOMAIN host.relays :
           host.relays[k].inArena => Fits(host.relays[k].channel, Near(host))
    <3>1. Tuned(host)
      BY <1>1, <1>2 DEF Good
    <3> QED
      BY <1>1, <3>1 DEF Tuned, Fits
  <2> QED
    BY <1>1, <1>2, <2>1, <2>2, HandleChatIs
<1>4. after \in Seq(Relays)
  <2>1. \A k \in DOMAIN host.relays :
           HandleChat(host.relays[k], mode, kind, host.blocked, Near(host)) \in Relays
    BY <1>3 DEF Grown, Sound
  <2>2. DOMAIN host.relays = 1 .. Len(host.relays) /\ Len(host.relays) \in Nat
    BY <1>2, HostsAre
  <2> QED
    BY <2>1, <2>2
<1> HIDE DEF after
<1>5. /\ f \in Hosts /\ f.relays = after /\ f.state = host.state /\ f.arena = host.arena
      /\ f.goal = host.goal /\ f.asked = host.asked
  BY <1>2, <1>4 DEF Hosts
<1> HIDE DEF f
<1>6. Bound(f) /\ Tuned(f)
  BY <1>1, <1>2, <1>3, <1>5 DEF Good, Bound, Tuned, Near, Stays
<1>7. Good(f)
  BY <1>3, <1>5, <1>6 DEF Good, Grown
<1>8. ASSUME NEW n \in Nat \ {0}
      PROVE  \E lines \in 0 .. 1 : /\ Taken(The(host, n)) + lines <= MaxLines
                                  /\ Grown(The(host, n), The(f, n), lines)
  <2>1. CASE n \in DOMAIN host.relays
    <3>1. PICK lines \in 0 .. 1 : Grown(host.relays[n], after[n], lines)
      BY <1>3, <2>1
    <3>2. The(host, n) = host.relays[n] /\ The(f, n) = after[n]
      BY <1>3, <1>5, <2>1 DEF The
    <3>3. Taken(host.relays[n]) + lines <= MaxLines
      <4>1. Taken(host.relays[n]) \in 0 .. MaxLines /\ Taken(host.relays[n]) < MaxLines
        BY <1>1, <1>2, <2>1, RelaysAre DEF Sound
      <4> QED
        BY <4>1, RelayAssumption
    <3> QED
      BY <3>1, <3>2, <3>3
  <2>2. CASE n \notin DOMAIN host.relays
    <3>1. The(f, n) = NewRelay /\ The(host, n) = NewRelay /\ Taken(NewRelay) = 0
      BY <1>3, <1>5, <2>2 DEF The, NewRelay, Taken
    <3>2. Grown(NewRelay, NewRelay, 0)
      BY NewRelayIs, SoundStays DEF Sound
    <3> QED
      BY <3>1, <3>2, RelayAssumption
  <2> QED
    BY <2>1, <2>2
<1>9. CASE Raised(host, f) = f
  BY <1>1, <1>5, <1>7, <1>8, <1>9
<1>10. CASE Raised(host, f) = [host EXCEPT !.state = "crashed"]
  <2> DEFINE g == [host EXCEPT !.state = "crashed"]
  <2>1. Becomes(host, g) /\ g.state = "crashed"
    BY <1>2, CrashIs DEF Hosts
  <2> HIDE DEF g
  <2>2. host' = g
    BY <1>1, <1>10 DEF g
  <2>3. \A n \in Nat \ {0} : Taken(The(host, n)) + 0 <= MaxLines
    BY <1>2, TheIs, RelaysAre, RelayAssumption
  <2> QED
    BY <2>1, <2>2, <2>3 DEF Becomes
<1> QED
  BY <1>1, <1>9, <1>10 DEF Raised

(* The host starts with libraries, but no relay has taken a line.          *)
LEMMA InitIs ==
    ASSUME Init
    PROVE  /\ IInv
           /\ \A n \in Nat \ {0} : /\ Taken(The(host, n)) = 0
                                  /\ The(host, n).released = <<>>
<1>1. PICK names \in InitialLibraries, a \in Arenas :
          host = ImportLibrary(
                    [state |-> "up", killMe |-> FALSE, inArena |-> FALSE,
                     arena |-> Nowhere, goal |-> a, asked |-> <<a>>,
                     slots |-> [s \in Slots |-> Empty], spawned |-> {},
                     freed |-> {}, blocked |-> FALSE, relays |-> <<>>],
                    names)
  BY DEF Init
<1> DEFINE q == <<a>>
           none == [s \in Slots |-> Empty]
           empty == <<>>
           h == [state |-> "up", killMe |-> FALSE, inArena |-> FALSE,
                 arena |-> Nowhere, goal |-> a, asked |-> q,
                 slots |-> none, spawned |-> {},
                 freed |-> {}, blocked |-> FALSE, relays |-> empty]
<1>2. names \in Seq({Missing} \cup Libraries)
  BY PluginsAssumption
<1>3. host = ImportLibrary(h, names)
  BY <1>1
<1>4. /\ q \in Seq(Arenas) /\ q # <<>> /\ q[Len(q)] = a
      /\ none \in [Slots -> Libraries \cup {Empty}]
      /\ empty \in Seq(Relays) /\ DOMAIN empty = {}
  OBVIOUS
<1> HIDE DEF q, none, empty
<1>5. /\ h \in Hosts /\ h.relays = empty /\ h.arena = Nowhere /\ h.goal = a /\ h.asked = q
  BY <1>4 DEF Hosts
<1> HIDE DEF h
<1>6. Good(h)
  BY <1>4, <1>5 DEF Good, Bound, Tuned
<1>7. Becomes(h, host)
  BY <1>2, <1>3, <1>6, ImportLibraryIs
<1>8. ASSUME NEW n \in Nat \ {0}
      PROVE  Taken(The(host, n)) = 0 /\ The(host, n).released = <<>>
  <2> DEFINE r == The(host, n)
  <2>1. The(h, n) = NewRelay
    BY <1>4, <1>5 DEF The
  <2>2. Taken(NewRelay) = 0
    BY DEF NewRelay, Taken
  <2>3. Sound(r) /\ Taken(r) = 0 + 0
    BY <1>7, <2>1, <2>2 DEF Becomes, Grown
  <2> HIDE DEF r
  <2>4. r \in Relays /\ Len(r.released) <= 0
    BY <2>3 DEF Sound
  <2>5. r.released \in Seq(1 .. MaxLines) /\ Len(r.released) = 0
    BY <2>4, RelaysAre
  <2>6. r.released = <<>>
    BY <2>5
  <2> QED
    BY <2>3, <2>6 DEF r
<1> QED
  BY <1>7, <1>8 DEF Init, IInv, Becomes

(* What a step may do: the promises are kept, and every relay takes one    *)
(* line or none, and takes none back.                                      *)
LEMMA NextIs ==
    ASSUME IInv, [Next]_vars
    PROVE  /\ IInv'
           /\ \A n \in Nat \ {0} :
                 \E lines \in 0 .. 1 : /\ Taken(The(host, n)) + lines <= MaxLines
                                      /\ Grown(The(host, n), The(host', n), lines)
<1>1. Good(host) /\ shared \in BOOLEAN
  BY DEF IInv
<1>2. \A n : /\ Taken(The(host, n)) + 0 <= MaxLines
            /\ Grown(The(host, n), The(host, n), 0)
  <2>1. ASSUME NEW n PROVE Taken(The(host, n)) + 0 <= MaxLines
    <3>1. Taken(The(host, n)) \in 0 .. MaxLines
      BY <1>1, TheIs, RelaysAre
    <3> QED
      BY <3>1, RelayAssumption
  <2> QED
    BY <1>1, <2>1, TheIs
<1>3. shared' = shared
  BY DEF Next, vars, Load, Unload, ChangeArena, EnterArena, Synchronize, LoseSession,
         RestartAll, Tick, Close, Exit, Remove, Say, Step
<1>4. ASSUME Becomes(host, host')
      PROVE  /\ Good(host')
             /\ \A n \in Nat \ {0} : Grown(The(host, n), The(host', n), 0)
  BY <1>4 DEF Becomes
<1>5. ASSUME /\ Good(host')
             /\ \A n \in Nat \ {0} : Grown(The(host, n), The(host', n), 0)
      PROVE  /\ Good(host')
             /\ \A n \in Nat \ {0} :
                 \E lines \in 0 .. 1 : /\ Taken(The(host, n)) + lines <= MaxLines
                                      /\ Grown(The(host, n), The(host', n), lines)
  <2>1. 0 \in 0 .. 1
    OBVIOUS
  <2> QED
    BY <1>2, <1>5, <2>1, Zenon
<1>6. CASE Load \/ Unload \/ ChangeArena \/ EnterArena \/ Tick
           \/ Synchronize \/ Close \/ Exit
  BY <1>1, <1>3, <1>4, <1>5, <1>6, LoadIs, UnloadIs, ChangeArenaIs, EnterArenaIs,
     TickIs, MarksAre, Zenon DEF IInv
<1>7. CASE LoseSession \/ RestartAll
  <2>1. Becomes(host, host) /\ Becomes(host, Leave(host))
    BY <1>1, FieldSet, LeaveIs DEF Good
  <2>2. Becomes(host, host')
    BY <1>1, <1>7, <2>1, LostIs DEF LoseSession, RestartAll, Step
  <2> QED
    BY <1>1, <1>3, <1>4, <1>5, <2>2, Zenon DEF IInv
<1>8. CASE Remove
  BY <1>1, <1>3, <1>5, <1>8, RemoveIs, Zenon DEF IInv
<1>9. CASE \E mode \in Modes, kind \in Kinds : Say(mode, kind)
  <2>1. PICK mode \in Modes, kind \in Kinds : Say(mode, kind)
    BY <1>9
  <2> QED
    BY <1>1, <1>3, <2>1, SayIs, Zenon DEF IInv
<1>10. CASE UNCHANGED vars
  <2>1. host' = host
    BY <1>10 DEF vars
  <2> QED
    BY <1>1, <1>2, <1>3, <1>5, <2>1, Zenon DEF IInv
<1> QED
  BY <1>6, <1>7, <1>8, <1>9, <1>10 DEF Next

(* Whatever is loaded, unloaded, said or lost, the host stays within its   *)
(* promises.                                                               *)
THEOREM Invariance == Spec => []IInv
<1>1. Init => IInv
  BY InitIs
<1>2. IInv /\ [Next]_vars => IInv'
  BY NextIs
<1> QED
  BY <1>1, <1>2, PTL DEF Spec

(* The types.                                                              *)
THEOREM TypeCorrect == Spec => []TypeOK
<1>1. IInv => TypeOK
  BY DEF IInv, Good, TypeOK
<1> QED
  BY Invariance, <1>1, PTL

(* However many arena logins are under way, a line leaves a relay only for *)
(* the channel of an arena that was around it (setArenaStatus,             *)
(* flushArenaMessages).                                                    *)
THEOREM ChannelsAreRight == Spec => []ChannelAround
<1>1. IInv => ChannelAround
  <2> SUFFICES ASSUME IInv, NEW k \in DOMAIN host.relays,
                      NEW i \in DOMAIN host.relays[k].released
               PROVE  Fits(host.relays[k].shown[i],
                           host.relays[k].around[host.relays[k].released[i]])
    BY DEF ChannelAround, Fits
  <2> DEFINE r == host.relays[k]
  <2>1. Sound(r)
    BY DEF IInv, Good
  <2> HIDE DEF r
  <2>2. /\ DOMAIN r.released = 1 .. Len(r.released) /\ Len(r.released) \in Nat
        /\ r.released = Count(Len(r.released))
    BY <2>1, RelaysAre DEF Sound
  <2>3. i \in 1 .. Len(r.released)
    BY <2>2 DEF r
  <2>4. r.released[i] = i
    BY <2>2, <2>3, CountIs
  <2>5. Fits(r.shown[i], r.around[i])
    BY <2>1, <2>3 DEF Sound
  <2> QED
    BY <2>4, <2>5 DEF r
<1> QED
  BY Invariance, <1>1, PTL

(* A host that is removed while the plugin is in a slot leaves no line     *)
(* behind in any of its relays (shutdown, clearImport).                    *)
THEOREM NothingLeft == Spec => NothingLeftBehind
<1> DEFINE A == host.state = "up" /\ host'.state = "removed"
                /\ (\E s \in Slots : host.slots[s] = Discord)
                => \A k \in DOMAIN host'.relays : host'.relays[k].buffer = <<>>
<1>1. IInv /\ [Next]_vars => [A]_vars
  <2> SUFFICES ASSUME IInv, [Next]_vars, host.state = "up", host'.state = "removed",
                      \E s \in Slots : host.slots[s] = Discord
               PROVE  Silent(host')
    BY DEF Silent
  <2>1. \E s \in Slots : host.slots[s] # Empty
    BY PluginsAssumption DEF Libraries
  <2>2. ~Becomes(host, host')
    BY DEF Becomes
  <2>3. host' # host
    OBVIOUS
  <2>4. Becomes(host, host) /\ Becomes(host, Leave(host))
    BY FieldSet, LeaveIs DEF IInv, Good
  <2>5. ~(LoseSession \/ RestartAll)
    BY <2>2, <2>4, LostIs DEF LoseSession, RestartAll, Step, IInv
  <2>6. ~(Load \/ Unload \/ ChangeArena \/ EnterArena \/ Tick
          \/ Synchronize \/ Close \/ Exit)
    BY <2>2, LoadIs, UnloadIs, ChangeArenaIs, EnterArenaIs, TickIs, MarksAre
  <2>7. \A mode \in Modes, kind \in Kinds : ~Say(mode, kind)
    BY SayIs
  <2>8. Remove
    BY <2>3, <2>5, <2>6, <2>7 DEF Next, vars
  <2> QED
    BY <2>1, <2>8, RemoveIs
<1> QED
  BY Invariance, <1>1, PTL DEF Spec, NothingLeftBehind
-----------------------------------------------------------------------------
(* Every relay of the host, not only the first, as an OrderedRelay.        *)
Nth(n) == INSTANCE OrderedRelay WITH
    taken    <- Taken(The(host, n)),
    released <- The(host, n).released,
    held     <- The(host, n).started \/ host.state # "up"

(* A step of the host is one of the relay, or none.                        *)
LEMMA StepIs ==
    ASSUME IInv, [Next]_vars, NEW n \in Nat \ {0}
    PROVE  [Nth(n)!Next]_(Nth(n)!vars)
<1> DEFINE r == The(host, n)
           s == The(host', n)
           kept == r.started \/ host.state # "up"
           held == s.started \/ host'.state # "up"
           a == Len(r.released)
           b == Len(s.released)
<1>1. PICK lines \in 0 .. 1 : Taken(r) + lines <= MaxLines /\ Grown(r, s, lines)
  BY NextIs
<1>2. Sound(r) /\ Sound(s) /\ Taken(s) = Taken(r) + lines /\ a <= b
  BY <1>1, TheIs DEF Grown, IInv
<1> HIDE DEF r, s
<1>3. /\ r \in Relays /\ s \in Relays /\ a <= Taken(r) /\ b <= Taken(s)
      /\ r.released = Count(a) /\ s.released = Count(b)
  BY <1>2 DEF Sound
<1>4. Taken(r) \in Nat /\ Taken(s) \in Nat /\ a \in Nat /\ b \in Nat
  BY <1>3, RelaysAre, RelayAssumption
<1>5. held \in BOOLEAN
  OBVIOUS
<1>6. \A m : Nth(n)!Lines(m) = Count(m)
  BY DEF Nth!Lines, Count
<1> HIDE DEF held, kept, a, b
<1>7. CASE lines = 1
  <2>1. /\ Taken(r) < MaxLines /\ Taken(s) = Taken(r) + 1
        /\ b \in a .. Taken(s)
    BY <1>1, <1>2, <1>3, <1>4, <1>7, RelayAssumption
  <2>2. Nth(n)!Take
    BY <1>3, <1>5, <1>6, <2>1 DEF Nth!Take, r, s, held, a
  <2> QED
    BY <2>2 DEF Nth!Next
<1>8. CASE lines = 0 /\ a # b
  <2>1. Taken(s) = Taken(r) /\ b \in a + 1 .. Taken(r)
    BY <1>2, <1>3, <1>4, <1>8
  <2>2. Nth(n)!Release
    BY <1>3, <1>5, <1>6, <2>1 DEF Nth!Release, r, s, held, a
  <2> QED
    BY <2>2 DEF Nth!Next
<1>9. CASE lines = 0 /\ a = b
  <2>1. Taken(s) = Taken(r) /\ s.released = r.released
    BY <1>2, <1>3, <1>4, <1>9
  <2>2. CASE held = kept
    BY <2>1, <2>2 DEF Nth!vars, r, s, held, kept
  <2>3. CASE held # kept
    <3>1. Nth(n)!Turn
      BY <2>1, <2>3 DEF Nth!Turn, r, s, held, kept
    <3> QED
      BY <3>1 DEF Nth!Next
  <2> QED
    BY <2>2, <2>3
<1> QED
  BY <1>7, <1>8, <1>9

(* Every relay is an ordered relay, for good: a line leaves it once and in *)
(* order (sendMessage, processArenaMessages, flushArenaMessages).  That it *)
(* leaves at all is not stated here, and two relays let it out twice.      *)
THEOREM Refinement ==
    ASSUME NEW n \in Nat \ {0}
    PROVE  Spec => Nth(n)!Spec
<1>1. Init => Nth(n)!Init
  BY InitIs DEF Nth!Init
<1>2. IInv /\ [Next]_vars => [Nth(n)!Next]_(Nth(n)!vars)
  BY StepIs
<1> QED
  BY Invariance, <1>1, <1>2, PTL DEF Spec, Nth!Spec
=============================================================================
