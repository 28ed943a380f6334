------------------------------ MODULE Reliable ------------------------------
(***************************************************************************)
(* The reliable messages of a Host (Core/Host.cpp 154-413), in one         *)
(* direction of one session: the sending half (post, queue, checkSent,     *)
(* sendNext, sendQueued) and the receiving half (gotReliable, sendACK,     *)
(* checkReceived), joined by a datagram network that loses, duplicates and *)
(* reorders.  The bot runs the sending half towards the server and the     *)
(* receiving half for what the server sends; the server's half of each     *)
(* direction is taken to follow the same rules.                            *)
(*                                                                         *)
(* A message is its 32-bit stamp and its body.  MaxPosts stands for the    *)
(* 2^32 stamps of a session: the stamp does not wrap.  Bodies are at most  *)
(* ChunkSize + 6 bytes, so that a stamped message passes post() unsplit    *)
(* when it is sent again.  The clustering of messages into datagrams is    *)
(* left out: it only makes messages travel together.                       *)
(***************************************************************************)
EXTENDS Naturals, Sequences, FiniteSets

CONSTANTS Payload,                \* message bodies
          MaxReliableInTransit,   \* most messages awaiting an ACK (15 in the code)
          MaxPosts                \* bound on the messages of a session

ASSUME ConstantsAssumption ==
    /\ MaxReliableInTransit \in Nat \ {0}
    /\ MaxPosts \in Nat

VARIABLES
    posted,      \* history: the bodies posted, in order
    localStep,   \* stamp of the next message posted
    localSent,   \* stamp of the next message to be sent for the first time
    sent,        \* messages waiting for an ACK
    queued,      \* messages that found no free slot
    data,        \* copies of messages in the network
    acks,        \* ACKs in the network
    remoteStep,  \* stamp of the next message the receiver will process
    received,    \* messages that arrived ahead of a missing one
    delivered    \* history: the bodies handed to the handlers, in order

sender   == <<posted, localStep, localSent, sent, queued>>
receiver == <<remoteStep, received, delivered>>
vars     == <<sender, data, acks, receiver>>

Message == [id : Nat, body : Payload]

Stamps(msgs) == {m.id : m \in msgs}

Init ==
    /\ posted = <<>> /\ delivered = <<>>
    /\ localStep = 0 /\ localSent = 0 /\ remoteStep = 0
    /\ sent = {} /\ queued = {} /\ received = {}
    /\ data = {} /\ acks = {}
-----------------------------------------------------------------------------
(* The sending half.                                                       *)

(* post(body, true): stamp the body and queue() it.  It is sent at once    *)
(* when a slot is free and kept in queued otherwise.                       *)
Post(body) ==
    LET m == [id |-> localStep, body |-> body]
    IN  /\ Len(posted) < MaxPosts
        /\ posted' = Append(posted, body)
        /\ localStep' = localStep + 1
        /\ \/ /\ Cardinality(sent) < MaxReliableInTransit
              /\ sent' = sent \cup {m}
              /\ localSent' = localSent + 1
              /\ data' = data \cup {m}
              /\ UNCHANGED queued
           \/ /\ Cardinality(sent) >= MaxReliableInTransit
              /\ queued' = queued \cup {m}
              /\ UNCHANGED <<sent, localSent, data>>
        /\ UNCHANGED <<acks, receiver>>

(* Mutant of SendNext: the freed slot is not handed on.                    *)
SendNext_NoHandOver(m) ==
    /\ sent' = sent \ {m}
    /\ UNCHANGED <<data, localSent, queued>>

(* sendNext(): the slot of the acknowledged message m goes to the queued   *)
(* message whose turn it is.                                               *)
SendNext(m) ==
    \/ \E next \in queued :
          /\ next.id = localSent
          /\ data' = data \cup {next}
          /\ sent' = (sent \ {m}) \cup {next}
          /\ localSent' = localSent + 1
          /\ queued' = queued \ {next}
    \/ /\ localSent \notin Stamps(queued)
       /\ sent' = sent \ {m}
       /\ UNCHANGED <<data, localSent, queued>>

(* gotACK(id) and checkSent(id).                                           *)
GotACK(id) ==
    /\ id \in acks
    /\ acks' \in {acks, acks \ {id}}
    /\ \/ /\ id <= localSent
          /\ \E m \in sent : m.id = id /\ SendNext(m)
       \/ /\ id > localSent \/ id \notin Stamps(sent)
          /\ UNCHANGED <<data, sent, localSent, queued>>
    /\ UNCHANGED <<posted, localStep, receiver>>

(* sendQueued(): send every message again whose ACK is overdue.            *)
SendQueued(overdue) ==
    /\ overdue \subseteq sent
    /\ data' = data \cup overdue
    /\ UNCHANGED <<sender, acks, receiver>>
-----------------------------------------------------------------------------
(* The receiving half.                                                     *)

(* The bodies of the messages with the stamps first..last, of which first  *)
(* has just arrived as m and the others wait in received.                  *)
Run(m, last) ==
    [i \in 1..(last - m.id + 1) |->
        IF i = 1 THEN m.body
                 ELSE (CHOOSE r \in received : r.id = m.id + i - 1).body]

(* Mutants of CheckReceived: a message that is ahead of a missing one is   *)
(* processed; one that was processed before is processed again; one that   *)
(* is ahead is dropped.                                                    *)
CheckReceived_NoWait(m) ==
    \/ /\ m.id < remoteStep
       /\ UNCHANGED receiver
    \/ /\ m.id >= remoteStep
       /\ remoteStep' = m.id + 1
       /\ delivered' = Append(delivered, m.body)
       /\ UNCHANGED received

CheckReceived_Replays(m) ==
    \/ /\ m.id <= remoteStep
       /\ remoteStep' = m.id + 1
       /\ delivered' = Append(delivered, m.body)
       /\ UNCHANGED received
    \/ /\ m.id > remoteStep
       /\ UNCHANGED receiver

CheckReceived_DropsEarly(m) ==
    \/ /\ m.id # remoteStep
       /\ UNCHANGED receiver
    \/ /\ m.id = remoteStep
       /\ remoteStep' = m.id + 1
       /\ delivered' = Append(delivered, m.body)
       /\ UNCHANGED received

(* checkReceived(): ignore what was processed before; process the expected *)
(* message and all that directly follow it in received; buffer the others. *)
CheckReceived(m) ==
    \/ /\ m.id < remoteStep
       /\ UNCHANGED receiver
    \/ /\ m.id = remoteStep
       /\ \E last \in m.id..(m.id + Cardinality(received)) :
             /\ (m.id + 1)..last \subseteq Stamps(received)
             /\ last + 1 \notin Stamps(received)
             /\ remoteStep' = last + 1
             /\ received' = {r \in received : r.id \notin m.id..last}
             /\ delivered' = delivered \o Run(m, last)
    \/ /\ m.id > remoteStep
       /\ received' = IF m.id \in Stamps(received) THEN received
                                                   ELSE received \cup {m}
       /\ UNCHANGED <<remoteStep, delivered>>

(* Mutants of GotReliable: the ACK carries the stamp before; only a new    *)
(* message is acknowledged.                                                *)
GotReliable_AcksPrevious(m) ==
    /\ m \in data
    /\ data' \in {data, data \ {m}}
    /\ acks' = acks \cup {m.id - 1}
    /\ CheckReceived(m)
    /\ UNCHANGED sender

GotReliable_AcksNewOnly(m) ==
    /\ m \in data
    /\ data' \in {data, data \ {m}}
    /\ acks' = IF m.id >= remoteStep THEN acks \cup {m.id} ELSE acks
    /\ CheckReceived(m)
    /\ UNCHANGED sender

(* gotReliable(): acknowledge first, whatever the stamp, then process.     *)
GotReliable(m) ==
    /\ m \in data
    /\ data' \in {data, data \ {m}}
    /\ acks' = acks \cup {m.id}
    /\ CheckReceived(m)
    /\ UNCHANGED sender
-----------------------------------------------------------------------------
(* The network loses a datagram.  That it may duplicate one is part of     *)
(* GotReliable and GotACK, which may leave a copy behind.                  *)
Lose ==
    /\ \/ \E m \in data : data' = data \ {m} /\ UNCHANGED acks
       \/ \E id \in acks : acks' = acks \ {id} /\ UNCHANGED data
    /\ UNCHANGED <<sender, receiver>>

Next ==
    \/ \E body \in Payload : Post(body)
    \/ \E id \in acks : GotACK(id)
    \/ \E overdue \in SUBSET sent : SendQueued(overdue)
    \/ \E m \in data : GotReliable(m)
    \/ Lose

Spec == Init /\ [][Next]_vars

(* doEvents runs sendQueued on every iteration, so a message that stays    *)
(* unacknowledged is sent again and again; a network that always loses the *)
(* same datagram is excluded.                                              *)
Fairness ==
    \A id \in 0..(MaxPosts - 1) :
        /\ WF_vars(\E m \in sent : m.id = id /\ m \notin data /\ SendQueued({m}))
        /\ SF_vars(\E m \in data : m.id = id /\ GotReliable(m))
        /\ SF_vars(GotACK(id))

FairSpec == Spec /\ Fairness
-----------------------------------------------------------------------------
(* Every variable has its type.                                            *)
TypeOK ==
    /\ posted \in Seq(Payload) /\ delivered \in Seq(Payload)
    /\ localStep \in Nat /\ localSent \in Nat /\ remoteStep \in Nat
    /\ sent \in SUBSET Message /\ IsFiniteSet(sent)
    /\ queued \in SUBSET Message
    /\ data \in SUBSET Message
    /\ acks \in SUBSET Nat
    /\ received \in SUBSET Message /\ IsFiniteSet(received)

(* The handlers have seen a prefix of what was posted: nothing twice,      *)
(* nothing skipped, nothing out of order (checkReceived).                  *)
InOrder ==
    /\ Len(delivered) <= Len(posted)
    /\ \A i \in 1..Len(delivered) : delivered[i] = posted[i]

(* No more than MaxReliableInTransit messages wait for their ACK (queue).  *)
WindowBound == Cardinality(sent) <= MaxReliableInTransit

(* A message waits in queued only while all slots are taken: checkSent     *)
(* hands each freed slot on, so the queue can never stall on an idle       *)
(* window.                                                                 *)
NoStall == queued # {} => Cardinality(sent) = MaxReliableInTransit

(* The sender forgets a message only when the receiver has processed it or *)
(* keeps it in received: gotReliable acknowledges before it processes, and *)
(* still every acknowledged message is accounted for.                      *)
AckedIsKept ==
    \A id \in 0..(localSent - 1) :
        id \in Stamps(sent) \/ id < remoteStep \/ id \in Stamps(received)

(* Every posted message is delivered in the end, whatever the network      *)
(* loses, repeats or reorders on the way.                                  *)
EventuallyDelivered ==
    \A n \in 1..MaxPosts : Len(posted) >= n ~> Len(delivered) >= n

(* Every posted message is acknowledged in the end, so that the window     *)
(* opens again and the queue drains.                                       *)
EventuallyAcknowledged ==
    \A id \in 0..(MaxPosts - 1) :
        id < localStep ~> id < localSent /\ id \notin Stamps(sent)

(* The reliable layer implements FIFO delivery.                            *)
Fifo == INSTANCE FifoDelivery WITH Payload <- Payload, MaxPosts <- MaxPosts,
                                   posted <- posted, delivered <- delivered
FifoSpec == Fifo!Spec
-----------------------------------------------------------------------------
(* The inductive invariant behind these properties.                        *)

(* The counters are the lengths of the histories.                          *)
CountersMatch ==
    /\ localStep = Len(posted) /\ remoteStep = Len(delivered)
    /\ localSent <= localStep

(* Every copy of a message carries the body posted under its stamp.        *)
BodiesMatch ==
    \A m \in sent \cup queued \cup data \cup received :
        m.id < localStep /\ m.body = posted[m.id + 1]

(* The stamps below localSent have been sent, the others are queued.       *)
SentOrQueued ==
    /\ \A m \in sent \cup data \cup received : m.id < localSent
    /\ \A m \in queued : m.id >= localSent
    /\ \A id \in localSent..(localStep - 1) : id \in Stamps(queued)

(* An ACK is sent for messages processed or buffered only.                 *)
AcksAreTrue == \A id \in acks : id < remoteStep \/ id \in Stamps(received)

IInv ==
    /\ TypeOK /\ CountersMatch /\ BodiesMatch /\ SentOrQueued
    /\ InOrder /\ WindowBound /\ NoStall /\ AcksAreTrue /\ AckedIsKept
=============================================================================
