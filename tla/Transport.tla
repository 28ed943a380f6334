----------------------------- MODULE Transport -----------------------------
(***************************************************************************)
(* How the messages of a Host become datagrams and come back out of them   *)
(* (Core/Host.cpp 154-278 and 1921-2003, Client/Chunk.ixx): a long message *)
(* is split into chunks, each of them reliable, short messages share a     *)
(* datagram, and the receiver puts chunks together again.                  *)
(*                                                                         *)
(* Sender and receiver follow the same rules in both directions; what one  *)
(* Host splits, another one joins.  A message longer than BigLimit is a    *)
(* transfer: the bot posts all its parts at once, the server one after     *)
(* the other, with other messages in between, and it may cancel.  Stamps,  *)
(* loss and sending again are those of Reliable, in the large: a stamped   *)
(* message that is lost is on its way again, in a datagram of its own, and *)
(* one that is ahead waits.  A message is its number and its length.       *)
(* No name here is one of Reliable, so that a module can extend both.      *)
(***************************************************************************)
EXTENDS Naturals, Sequences, FiniteSets, SequencesExt, FiniteSetsExt

CONSTANTS
    ChunkSize,     \* 496
    BigLimit,      \* 1000: what is longer is a transfer
    ItemMax,       \* 255: the longest message that shares a datagram
    PacketMax,     \* PacketMaxLength, 520
    LittleLimit, LargeLimit,  \* what the two buffers take (resetSession)
    Lengths,       \* the lengths of messages
    Transfers,     \* the lengths of transfers
    NoStamp,       \* in the place of a stamp: the message is not reliable
    MaxMessages       \* bound on the messages of a session

(* A body of 503 to 508 bytes is posted in one piece but, with its stamp,  *)
(* is too long to be sent again in one: such lengths are left out.         *)
(* What a buffer would not take is left out, too.                          *)
ASSUME NetAssumption ==
    /\ {ChunkSize, BigLimit, ItemMax, PacketMax, LittleLimit, LargeLimit} \subseteq Nat \ {0}
    /\ ItemMax < 256 /\ ChunkSize + 13 <= PacketMax
    /\ ChunkSize + 12 <= BigLimit /\ BigLimit <= LittleLimit
    /\ \A n \in Lengths :
          n \in 1 .. BigLimit /\ (n <= ChunkSize + 6 \/ n > ChunkSize + 12)
    /\ \A n \in Transfers : n \in BigLimit + 1 .. LargeLimit
    /\ NoStamp \notin Nat /\ MaxMessages \in Nat

(* op over the elements of seq from the left (SequencesExt!FoldLeft), by   *)
(* index: the receiver's steps are long and are evaluated once each.       *)
Through(op(_, _), base, seq) ==
    LET at[k \in 0 .. Len(seq)] == IF k = 0 THEN base ELSE op(at[k - 1], seq[k])
    IN  at[Len(seq)]

VARIABLES
    posts,       \* how many messages have been posted
    upload,      \* the parts of a transfer that are still to be posted
    nextStamp,   \* the next stamp
    clustering,
    clustered,   \* messages that wait for the end of the cluster
    wire,        \* datagrams under way: sequences of messages
    rx,          \* the receiving Host: see Receiver
    due          \* history: the reliable messages that have been posted whole

netVars == <<posts, upload, nextStamp, clustering, clustered, wire, rx, due>>

Part    == [kind : {"plain", "body", "tail", "big", "cancel"}, no : Nat, from : Nat,
            data : Nat, total : Nat]
Header(p) == CASE p.kind \in {"plain", "cancel"} -> 0
               [] p.kind \in {"body", "tail"}    -> 2
               [] p.kind = "big"                 -> 6

(* The length of a message as it is sent.                                  *)
Size(m) == m.part.data + Header(m.part) + (IF m.stamp = NoStamp THEN 0 ELSE 6)

(* remoteStep and received; the buffers little and large, as the parts     *)
(* they hold; ftLength; and the numbers of the messages handled, 0 for one *)
(* that nobody posted.                                                     *)
Receiver == [step : Nat, held : SUBSET [stamp : Nat, part : Part], little : Seq(Part),
             large : Seq(Part), ftLength : Nat, got : Seq(Nat)]
-----------------------------------------------------------------------------
(* Sending.                                                                *)

(* Pieces of a message, the last of them of a kind of its own.             *)
Parts(no, total, size, kind, lastKind) ==
    [k \in 1 .. (total + size - 1) \div size |->
        [kind |-> IF k * size >= total THEN lastKind ELSE kind, no |-> no, from |-> (k - 1) * size,
         data |-> Min({size, total - (k - 1) * size}), total |-> total]]

(* Mutant of Split: the last chunk is a body, too, when it is full.        *)
Split_FullTail(no, len) ==
    IF len <= ChunkSize + 12
    THEN Parts(no, len, len, "plain", "plain")
    ELSE IF len > BigLimit
    THEN Parts(no, len, ChunkSize, "big", "big")
    ELSE [k \in 1 .. (len + ChunkSize + 3) \div (ChunkSize + 4) |->
            [kind |-> IF k * (ChunkSize + 4) > len THEN "tail" ELSE "body", no |-> no,
             from |-> (k - 1) * (ChunkSize + 4),
             data |-> Min({ChunkSize + 4, len - (k - 1) * (ChunkSize + 4)}), total |-> len]]

(* post(): how a message is split.                                         *)
Split(no, len) ==
    IF len <= ChunkSize + 12
    THEN Parts(no, len, len, "plain", "plain")
    ELSE IF len > BigLimit
    THEN Parts(no, len, ChunkSize, "big", "big")
    ELSE Parts(no, len, ChunkSize + 4, "body", "tail")

(* The end of post(): to the cluster, or out.                              *)
Put(messages) ==
    IF clustering THEN clustered' = clustered \o messages /\ UNCHANGED wire
    ELSE wire' = wire \cup {<<messages[k]>> : k \in DOMAIN messages} /\ UNCHANGED clustered

PutReliable(parts) ==
    /\ Put([k \in DOMAIN parts |-> [stamp |-> nextStamp + k - 1, part |-> parts[k]]])
    /\ nextStamp' = nextStamp + Len(parts)

PostReliable(len) ==
    /\ posts < MaxMessages
    /\ posts' = posts + 1
    /\ PutReliable(Split(posts + 1, len))
    /\ due' = Append(due, posts + 1)
    /\ UNCHANGED <<upload, clustering, rx>>

PostUnreliable(len) ==
    /\ posts < MaxMessages /\ len <= ChunkSize + 12
    /\ posts' = posts + 1
    /\ Put(<<[stamp |-> NoStamp, part |-> Split(posts + 1, len)[1]]>>)
    /\ UNCHANGED <<upload, nextStamp, clustering, rx, due>>

StartTransfer(len) ==
    /\ posts < MaxMessages /\ upload = <<>>
    /\ posts' = posts + 1
    /\ upload' = Split(posts + 1, len)
    /\ UNCHANGED <<nextStamp, clustering, clustered, wire, rx, due>>

NextPart ==
    /\ upload # <<>>
    /\ PutReliable(<<Head(upload)>>)
    /\ upload' = Tail(upload)
    /\ due' = IF Len(upload) = 1 THEN Append(due, Head(upload).no) ELSE due
    /\ UNCHANGED <<posts, clustering, rx>>

(* The server gives a transfer up ("Nevermind about the 00 0a transfer     *)
(* stuff").                                                                *)
CancelTransfer ==
    /\ upload # <<>>
    /\ PutReliable(<<[kind |-> "cancel", no |-> 0, from |-> 0, data |-> 2, total |-> 2]>>)
    /\ upload' = <<>>
    /\ UNCHANGED <<posts, clustering, rx, due>>

(* The datagrams sendClustered() makes, in order.                          *)
Datagrams(messages, itemMax, datagramMax) ==
    LET Flush(s) == IF s.open = <<>> THEN s.out ELSE Append(s.out, s.open)
        Add(m, s) ==
            IF Size(m) > itemMax THEN [s EXCEPT !.out = Append(@, <<m>>)]
            ELSE IF s.len + Size(m) > datagramMax
                 THEN [out |-> Flush(s), open |-> <<m>>, len |-> 3 + Size(m)]
                 ELSE [s EXCEPT !.open = Append(@, m), !.len = @ + 1 + Size(m)]
    IN  Flush(Through(LAMBDA s, m : Add(m, s), [out |-> <<>>, open |-> <<>>, len |-> 2],
                       messages))

(* Mutant: no datagram is ever full.                                       *)
SendClustered_NeverFull(messages) == Datagrams(messages, ItemMax, 2 * PacketMax)

SendClustered(messages) == Datagrams(messages, ItemMax, ChunkSize + 12)

BeginCluster ==
    /\ ~clustering
    /\ clustering' = TRUE
    /\ UNCHANGED <<posts, upload, nextStamp, clustered, wire, rx, due>>

EndCluster ==
    /\ clustering
    /\ clustering' = FALSE
    /\ wire' = wire \cup ToSet(SendClustered(clustered))
    /\ clustered' = <<>>
    /\ UNCHANGED <<posts, upload, nextStamp, rx, due>>
-----------------------------------------------------------------------------
(* Receiving.                                                              *)

Filled(buffer) == Through(LAMBDA n, p : n + p.data, 0, buffer)

(* ChunkBuffer::addMessage(): what would be too much is not added.         *)
AddMessage(buffer, p, limit) ==
    IF Filled(buffer) + p.data <= limit THEN Append(buffer, p) ELSE buffer

(* The message a buffer makes.                                             *)
Joined(buffer) ==
    IF /\ \A k \in DOMAIN buffer : buffer[k].no = buffer[1].no
       /\ \A k \in DOMAIN buffer : buffer[k].from = Filled(SubSeq(buffer, 1, k - 1))
       /\ Filled(buffer) = buffer[1].total
    THEN buffer[1].no ELSE 0

GotChunkBody(r, p) == [r EXCEPT !.little = AddMessage(@, p, LittleLimit)]

GotChunkTail(r, p) ==
    LET full == AddMessage(r.little, p, LittleLimit)
    IN  IF full = <<>> THEN r
        ELSE [r EXCEPT !.little = <<>>, !.got = Append(@, Joined(full))]

GotBigChunk(r, p) ==
    LET old  == IF r.ftLength \in {0, p.total} THEN r.large ELSE <<>>
        full == AddMessage(old, p, LargeLimit)
    IN  IF Filled(full) < p.total
        THEN [r EXCEPT !.large = full, !.ftLength = p.total]
        ELSE [r EXCEPT !.large = <<>>, !.ftLength = 0,
                       !.got = IF Filled(full) = p.total THEN Append(@, Joined(full)) ELSE @]

(* Mutant: the length of the transfer is forgotten, its parts are not.     *)
GotCancelDownload_Keeps(r) == [r EXCEPT !.ftLength = 0]

GotCancelDownload(r) == [r EXCEPT !.large = <<>>, !.ftLength = 0]

GotMessage(r, p) ==
    CASE p.kind = "plain"  -> [r EXCEPT !.got = Append(@, p.no)]
      [] p.kind = "body"   -> GotChunkBody(r, p)
      [] p.kind = "tail"   -> GotChunkTail(r, p)
      [] p.kind = "big"    -> GotBigChunk(r, p)
      [] p.kind = "cancel" -> GotCancelDownload(r)

(* checkReceived(): the messages whose turn it is when m has arrived.      *)
Ready(r, m) ==
    LET waiting == r.held \cup {m}
        last    == Max({r.step} \cup {n \in r.step + 1 .. r.step + Cardinality(waiting) :
                           r.step .. n - 1 \subseteq {w.stamp : w \in waiting}})
    IN  [k \in 1 .. last - r.step |->
            (CHOOSE w \in waiting : w.stamp = r.step + k - 1).part]

(* Mutant: what has been handled is not taken out of received.             *)
GotStamped_Keeps(r, m) ==
    [Through(GotMessage, r, Ready(r, m)) EXCEPT
        !.step = @ + Len(Ready(r, m)), !.held = @ \cup {m}]

GotStamped(r, m) ==
    LET ready == Ready(r, m)
    IN  [Through(GotMessage, r, ready) EXCEPT
            !.step = @ + Len(ready),
            !.held = {w \in @ \cup {m} : w.stamp >= r.step + Len(ready)}]

(* gotCluster(), gotMessage(): the messages of a datagram one by one.      *)
GotPacket(d) ==
    /\ wire' = wire \ {d}
    /\ rx' = Through(LAMBDA r, m : IF m.stamp = NoStamp THEN r ELSE GotStamped(r, m),
                      rx, d)
    /\ UNCHANGED <<posts, upload, nextStamp, clustering, clustered, due>>

(* A datagram is lost; its stamped messages will be sent again.            *)
LoseDatagram(d) ==
    /\ wire' = (wire \ {d}) \cup {<<m>> : m \in {w \in ToSet(d) : w.stamp # NoStamp}}
    /\ UNCHANGED <<posts, upload, nextStamp, clustering, clustered, rx, due>>
-----------------------------------------------------------------------------
NetInit ==
    /\ posts = 0 /\ upload = <<>> /\ nextStamp = 0
    /\ clustering = FALSE /\ clustered = <<>> /\ wire = {} /\ due = <<>>
    /\ rx = [step |-> 0, held |-> {}, little |-> <<>>, large |-> <<>>, ftLength |-> 0,
             got |-> <<>>]

NetNext ==
    \/ \E len \in Lengths : PostReliable(len) \/ PostUnreliable(len)
    \/ \E len \in Transfers : StartTransfer(len)
    \/ NextPart \/ CancelTransfer
    \/ BeginCluster \/ EndCluster
    \/ \E d \in wire : GotPacket(d) \/ LoseDatagram(d)

NetSpec == NetInit /\ [][NetNext]_netVars
-----------------------------------------------------------------------------
NetTypeOK ==
    /\ posts \in 0 .. MaxMessages /\ nextStamp \in Nat /\ clustering \in BOOLEAN
    /\ \A k \in DOMAIN upload : upload[k] \in Part
    /\ \A k \in DOMAIN clustered : clustered[k].part \in Part
    /\ \A d \in wire : \A k \in DOMAIN d : d[k].part \in Part
    /\ rx \in Receiver /\ rx.step <= nextStamp
    /\ \A m \in rx.held : m.stamp \in rx.step + 1 .. nextStamp - 1
    /\ \A k \in DOMAIN due : due[k] \in 1 .. posts

(* The reliable messages are handled whole and in the order in which they  *)
(* were posted, whatever is split, shares a datagram, arrives ahead or     *)
(* comes between the parts of a transfer, and after a transfer has been    *)
(* cancelled.                                                              *)
WholeInOrder == IsPrefix(rx.got, due)

(* Every datagram fits into the packets of the socket, and a message that  *)
(* shares one has a length that fits into a byte (sendClustered).          *)
DatagramsFit ==
    \A d \in wire :
        IF Len(d) = 1 THEN Size(d[1]) <= PacketMax
        ELSE /\ 2 + Through(LAMBDA n, m : n + 1 + Size(m), 0, d) <= PacketMax
             /\ \A k \in DOMAIN d : Size(d[k]) < 256

(* Nothing is stuck in a buffer: when no datagram is under way and no      *)
(* message waits for the end of a cluster, every reliable message has been *)
(* handled.                                                                *)
AllArrive == wire = {} /\ clustered = <<>> => rx.got = due
=============================================================================
