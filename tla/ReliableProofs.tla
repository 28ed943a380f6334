--------------------------- MODULE ReliableProofs ---------------------------
(***************************************************************************)
(* Proofs about Reliable, for every set of payloads, every window and      *)
(* every number of posts; and, after them, about Transport, for every set  *)
(* of lengths and all limits that agree.                                   *)
(*                                                                         *)
(* The proofs about Transport rest on a story: the sequence log of the     *)
(* messages that have been given a stamp, and the sequence v of what a     *)
(* receiver becomes that handles them one by one.  What is under way,      *)
(* waits or is kept is what log has under its stamp (UnderWay); what the   *)
(* receiver holds is v at its step (Hears); and what v ends with is known  *)
(* from what has been posted (Heard, UploadFits).  Each step only has to   *)
(* continue the story.                                                     *)
(***************************************************************************)
EXTENDS Reliable, Transport, ListProofs, FiniteSetTheorems

(* The bodies that one arrival hands over are those posted under the       *)
(* stamps m.id..last, in that order (checkReceived).                       *)
LEMMA RunIsPosted ==
    ASSUME TypeOK, BodiesMatch, NEW m \in data, NEW last \in Nat,
           last >= m.id, (m.id + 1)..last \subseteq Stamps(received)
    PROVE  /\ Run(m, last) \in Seq(Payload)
           /\ Len(Run(m, last)) = last - m.id + 1
           /\ \A i \in 1..(last - m.id + 1) :
                 Run(m, last)[i] = posted[m.id + i]
<1>1. m \in Message /\ m.body = posted[m.id + 1]
  BY DEF TypeOK, BodiesMatch
<1>2. ASSUME NEW i \in 2..(last - m.id + 1)
      PROVE  LET r == CHOOSE r \in received : r.id = m.id + i - 1
             IN  r.body \in Payload /\ r.body = posted[m.id + i]
  <2>1. m.id + i - 1 \in (m.id + 1)..last
    BY <1>1 DEF Message
  <2>2. PICK r \in received : r.id = m.id + i - 1
    BY <2>1 DEF Stamps
  <2>3. \A r1 \in received : r1.body \in Payload /\ r1.body = posted[r1.id + 1]
    BY DEF TypeOK, BodiesMatch, Message
  <2> QED
    BY <2>2, <2>3, <1>1 DEF Message
<1>3. \A i \in 1..(last - m.id + 1) :
         Run(m, last)[i] \in Payload /\ Run(m, last)[i] = posted[m.id + i]
  BY <1>1, <1>2 DEF Run, Message
<1>4. Run(m, last) = [i \in 1..(last - m.id + 1) |-> Run(m, last)[i]]
  BY DEF Run
<1>5. last - m.id + 1 \in Nat
  BY <1>1 DEF Message
<1>6. Run(m, last) \in Seq(Payload)
  <2>1. Run(m, last) \in [1..(last - m.id + 1) -> Payload]
    BY <1>3, <1>4
  <2> QED
    BY <1>5, <2>1
<1>7. Len(Run(m, last)) = last - m.id + 1
  BY <1>4, <1>5, <1>6, LenProperties
<1> QED
  BY <1>3, <1>6, <1>7

(* A session starts with nothing posted, sent, buffered or under way       *)
(* (resetSession).                                                         *)
LEMMA InitIInv == Init => IInv
<1> SUFFICES ASSUME Init PROVE IInv
  OBVIOUS
<1>1. IsFiniteSet({}) /\ Cardinality({}) = 0
  BY FS_EmptySet
<1>2. TypeOK
  BY <1>1 DEF Init, TypeOK
<1> QED
  BY <1>1, <1>2, ConstantsAssumption
     DEF Init, IInv, CountersMatch, BodiesMatch, SentOrQueued, InOrder,
         WindowBound, NoStall, AcksAreTrue, AckedIsKept, Stamps

(* What post() adds to the history leaves what was posted before alone.    *)
LEMMA AppendKeeps ==
    ASSUME NEW S, NEW s \in Seq(S), NEW e \in S
    PROVE  /\ Append(s, e) \in Seq(S)
           /\ Len(Append(s, e)) = Len(s) + 1
           /\ \A i \in 1..Len(s) : Append(s, e)[i] = s[i]
           /\ Append(s, e)[Len(s) + 1] = e
BY AppendProperties

(* Posting a message (post, queue).                                        *)
LEMMA PostIInv ==
    ASSUME IInv, NEW body \in Payload, Post(body)
    PROVE  IInv'
<1> DEFINE m == [id |-> localStep, body |-> body]
<1>1. /\ TypeOK /\ CountersMatch /\ BodiesMatch /\ SentOrQueued /\ InOrder
      /\ WindowBound /\ NoStall /\ AcksAreTrue /\ AckedIsKept
  BY DEF IInv
<1>2. /\ posted' \in Seq(Payload) /\ Len(posted') = Len(posted) + 1
      /\ \A i \in 1..Len(posted) : posted'[i] = posted[i]
      /\ posted'[Len(posted) + 1] = body
  BY <1>1, AppendKeeps DEF TypeOK, Post
<1>3. m \in Message /\ m.id = localStep /\ m.body = body
  BY <1>1 DEF TypeOK, Message
<1>4. m \notin sent
  BY <1>1, <1>3 DEF SentOrQueued, CountersMatch, TypeOK, Message
<1>5. /\ IsFiniteSet(sent \cup {m})
      /\ Cardinality(sent \cup {m}) = Cardinality(sent) + 1
      /\ Cardinality(sent) \in Nat
  BY <1>1, <1>4, FS_AddElement, FS_CardinalityType DEF TypeOK
<1>6. /\ localStep' = localStep + 1 /\ acks' = acks
      /\ remoteStep' = remoteStep /\ received' = received
      /\ delivered' = delivered
  BY DEF Post, receiver
<1>7. \/ /\ Cardinality(sent) < MaxReliableInTransit
         /\ sent' = sent \cup {m} /\ localSent' = localSent + 1
         /\ data' = data \cup {m} /\ queued' = queued
      \/ /\ Cardinality(sent) >= MaxReliableInTransit
         /\ queued' = queued \cup {m}
         /\ sent' = sent /\ localSent' = localSent /\ data' = data
  BY DEF Post
<1>8. Cardinality(sent) < MaxReliableInTransit => localSent = localStep
  <2> SUFFICES ASSUME Cardinality(sent) < MaxReliableInTransit
               PROVE  localSent = localStep
    OBVIOUS
  <2>1. queued = {}
    BY <1>1, <1>5, ConstantsAssumption DEF NoStall
  <2>2. Stamps(queued) = {}
    BY <2>1 DEF Stamps
  <2>3. \A id \in localSent..(localStep - 1) : FALSE
    BY <1>1, <2>2 DEF SentOrQueued
  <2>4. localSent \in Nat /\ localStep \in Nat /\ localSent <= localStep
    BY <1>1 DEF CountersMatch, TypeOK
  <2> QED
    BY <2>3, <2>4
<1>9. TypeOK'
  <2>1. posted' \in Seq(Payload) /\ delivered' \in Seq(Payload)
    BY <1>1, <1>2, <1>6 DEF TypeOK
  <2>2. localStep' \in Nat /\ localSent' \in Nat /\ remoteStep' \in Nat
    BY <1>1, <1>6, <1>7 DEF TypeOK
  <2>3. sent' \in SUBSET Message /\ IsFiniteSet(sent')
    BY <1>1, <1>3, <1>5, <1>7 DEF TypeOK
  <2>4. queued' \in SUBSET Message /\ data' \in SUBSET Message
    BY <1>1, <1>3, <1>7 DEF TypeOK
  <2>5. acks' \in SUBSET Nat /\ received' \in SUBSET Message /\ IsFiniteSet(received')
    BY <1>1, <1>6 DEF TypeOK
  <2> QED
    BY <2>1, <2>2, <2>3, <2>4, <2>5 DEF TypeOK
<1>10. CountersMatch'
  BY <1>1, <1>2, <1>6, <1>7, <1>8 DEF CountersMatch, TypeOK
<1>11. BodiesMatch'
  <2> SUFFICES ASSUME NEW n \in (sent \cup queued \cup data \cup received)'
               PROVE  n.id < localStep' /\ n.body = posted'[n.id + 1]
    BY DEF BodiesMatch
  <2>1. CASE n = m
    BY <1>1, <1>2, <1>3, <1>6, <2>1 DEF CountersMatch, TypeOK
  <2>2. CASE n # m
    <3>1. n \in sent \cup queued \cup data \cup received
      BY <1>6, <1>7, <2>2
    <3>2. n.id \in Nat /\ n.id < localStep /\ n.body = posted[n.id + 1]
      BY <1>1, <3>1 DEF BodiesMatch, TypeOK, Message
    <3> QED
      BY <1>1, <1>2, <1>6, <3>2 DEF CountersMatch, TypeOK
  <2> QED
    BY <2>1, <2>2
<1>12. SentOrQueued'
  <2>0. localSent \in Nat /\ localStep \in Nat /\ localSent <= localStep
    BY <1>1 DEF TypeOK, CountersMatch
  <2>1. ASSUME NEW n \in sent' \cup data' \cup received' PROVE n.id < localSent'
    <3>1. CASE n \in sent \cup data \cup received
      BY <1>1, <1>7, <2>0, <3>1 DEF SentOrQueued, TypeOK, Message
    <3>2. CASE n = m /\ localSent' = localSent + 1 /\ localSent = localStep
      BY <1>3, <2>0, <3>2
    <3> QED
      BY <1>6, <1>7, <1>8, <3>1, <3>2
  <2>2. ASSUME NEW n \in queued' PROVE n.id >= localSent'
    <3>1. Cardinality(sent) < MaxReliableInTransit => queued = {}
      BY <1>1, <1>5, ConstantsAssumption DEF NoStall
    <3>2. CASE n \in queued
      BY <1>1, <1>5, <1>7, <3>1, <3>2, ConstantsAssumption DEF SentOrQueued
    <3>3. CASE n = m /\ localSent' = localSent
      BY <1>3, <2>0, <3>3
    <3> QED
      BY <1>7, <3>2, <3>3
  <2>3. ASSUME NEW id \in localSent'..(localStep' - 1) PROVE id \in Stamps(queued')
    <3>1. CASE localSent' = localSent + 1 /\ localSent = localStep
      BY <1>6, <2>0, <3>1
    <3>2. CASE localSent' = localSent /\ queued' = queued \cup {m}
      <4>1. CASE id = localStep
        BY <1>3, <3>2, <4>1 DEF Stamps
      <4>2. CASE id # localStep
        <5>1. id \in Stamps(queued)
          BY <1>1, <1>6, <2>0, <3>2, <4>2 DEF SentOrQueued
        <5> QED
          BY <3>2, <5>1 DEF Stamps
      <4> QED
        BY <4>1, <4>2
    <3> QED
      BY <1>7, <1>8, <3>1, <3>2
  <2> QED
    BY <2>1, <2>2, <2>3 DEF SentOrQueued
<1>13. InOrder'
  BY <1>1, <1>2, <1>6 DEF InOrder, TypeOK
<1>14. WindowBound' /\ NoStall'
  BY <1>1, <1>5, <1>7, ConstantsAssumption DEF WindowBound, NoStall
<1>15. AcksAreTrue'
  BY <1>1, <1>6 DEF AcksAreTrue
<1>16. AckedIsKept'
  <2> SUFFICES ASSUME NEW id \in 0..(localSent' - 1)
               PROVE  \/ id \in Stamps(sent') \/ id < remoteStep'
                      \/ id \in Stamps(received')
    BY DEF AckedIsKept
  <2>1. CASE id \in 0..(localSent - 1)
    BY <1>1, <1>6, <1>7, <2>1 DEF AckedIsKept, Stamps
  <2>2. CASE id \notin 0..(localSent - 1)
    BY <1>1, <1>3, <1>7, <1>8, <2>2 DEF Stamps, TypeOK
  <2> QED
    BY <2>1, <2>2
<1> QED
  BY <1>9, <1>10, <1>11, <1>12, <1>13, <1>14, <1>15, <1>16 DEF IInv

(* What leaves the two histories, the counters of the posts and the        *)
(* receiving half alone.                                                   *)
LEMMA ReceiverKept ==
    ASSUME IInv, UNCHANGED receiver, UNCHANGED posted, acks' \in SUBSET acks
    PROVE  InOrder' /\ AcksAreTrue'
<1>1. InOrder'
  BY DEF IInv, InOrder, receiver
<1>2. AcksAreTrue'
  BY DEF IInv, AcksAreTrue, receiver
<1> QED
  BY <1>1, <1>2

(* An acknowledged message leaves sent, the next queued one takes its slot *)
(* (gotACK, checkSent, sendNext).                                          *)
LEMMA GotACKIInv ==
    ASSUME IInv, NEW id \in acks, GotACK(id)
    PROVE  IInv'
<1>1. /\ TypeOK /\ CountersMatch /\ BodiesMatch /\ SentOrQueued /\ InOrder
      /\ WindowBound /\ NoStall /\ AcksAreTrue /\ AckedIsKept
  BY DEF IInv
<1>2. /\ posted' = posted /\ localStep' = localStep /\ remoteStep' = remoteStep
      /\ received' = received /\ delivered' = delivered /\ UNCHANGED receiver
      /\ acks' \in SUBSET acks
  BY DEF GotACK, receiver
<1>3. InOrder' /\ AcksAreTrue'
  BY <1>2, ReceiverKept
<1>4. CASE UNCHANGED <<data, sent, localSent, queued>>
  BY <1>1, <1>2, <1>3, <1>4
     DEF IInv, TypeOK, CountersMatch, BodiesMatch, SentOrQueued, WindowBound,
         NoStall, AckedIsKept, Stamps
<1>5. CASE \E m \in sent : m.id = id /\ SendNext(m)
  <2>1. PICK m \in sent : m.id = id /\ SendNext(m)
    BY <1>5
  <2>2. m \in Message /\ id < localSent /\ (id < remoteStep \/ id \in Stamps(received))
    BY <1>1, <2>1 DEF TypeOK, SentOrQueued, AcksAreTrue
  <2>3. /\ IsFiniteSet(sent \ {m}) /\ Cardinality(sent \ {m}) = Cardinality(sent) - 1
        /\ Cardinality(sent) \in Nat
    BY <1>1, FS_RemoveElement, FS_CardinalityType DEF TypeOK
  <2>4. localSent \in Nat /\ localStep \in Nat /\ localSent <= localStep
    BY <1>1 DEF TypeOK, CountersMatch
  <2>5. ASSUME NEW i \in 0..(localSent - 1), i # id
        PROVE  i \in Stamps(sent \ {m}) \/ i < remoteStep \/ i \in Stamps(received)
    <3>1. CASE i \in Stamps(sent)
      BY <2>1, <2>5, <3>1 DEF Stamps
    <3> QED
      BY <1>1, <3>1 DEF AckedIsKept
  <2>6. CASE \E next \in queued :
                /\ next.id = localSent
                /\ data' = data \cup {next}
                /\ sent' = (sent \ {m}) \cup {next}
                /\ localSent' = localSent + 1
                /\ queued' = queued \ {next}
    <3>1. PICK next \in queued :
                /\ next.id = localSent
                /\ data' = data \cup {next}
                /\ sent' = (sent \ {m}) \cup {next}
                /\ localSent' = localSent + 1
                /\ queued' = queued \ {next}
      BY <2>6
    <3>2. next \in Message /\ next.id < localStep /\ next.body = posted[next.id + 1]
      BY <1>1 DEF TypeOK, BodiesMatch
    <3>3. next \notin sent \ {m}
      BY <1>1, <2>4, <3>1 DEF SentOrQueued
    <3>4. /\ IsFiniteSet(sent') /\ Cardinality(sent') = Cardinality(sent)
      <4>1. /\ IsFiniteSet((sent \ {m}) \cup {next})
            /\ Cardinality((sent \ {m}) \cup {next}) = Cardinality(sent \ {m}) + 1
        BY <2>3, <3>3, FS_AddElement
      <4> QED
        BY <2>3, <3>1, <4>1
    <3>5. \A q \in queued : q.id \in Nat /\ q.body \in Payload /\ q = [id |-> q.id, body |-> q.body]
      BY <1>1 DEF TypeOK, Message
    <3>6. TypeOK'
      <4>1. sent' \in SUBSET Message /\ data' \in SUBSET Message /\ queued' \in SUBSET Message
        BY <1>1, <3>1, <3>2 DEF TypeOK
      <4>2. localSent' \in Nat
        BY <2>4, <3>1
      <4> QED
        BY <1>1, <1>2, <3>4, <4>1, <4>2 DEF TypeOK
    <3>7. CountersMatch'
      BY <1>1, <1>2, <2>4, <3>1, <3>2 DEF CountersMatch
    <3>8. BodiesMatch'
      BY <1>1, <1>2, <3>1 DEF BodiesMatch
    <3>9. SentOrQueued'
      <4>1. ASSUME NEW n \in sent' \cup data' \cup received' PROVE n.id < localSent'
        <5>1. CASE n = next
          BY <2>4, <3>1, <5>1
        <5>2. CASE n \in sent \cup data \cup received
          BY <1>1, <2>4, <3>1, <5>2 DEF SentOrQueued, TypeOK, Message
        <5> QED
          BY <1>2, <3>1, <5>1, <5>2
      <4>2. ASSUME NEW n \in queued' PROVE n.id >= localSent'
        <5>1. n \in queued /\ n # next /\ n.id \in Nat /\ n.id >= localSent
          BY <1>1, <3>1, <3>5 DEF SentOrQueued
        <5>2. n.id # localSent
          <6>1. n.body = posted[n.id + 1] /\ next.body = posted[next.id + 1]
            BY <1>1, <5>1 DEF BodiesMatch
          <6> QED
            BY <3>1, <3>5, <5>1, <6>1
        <5> QED
          BY <2>4, <3>1, <5>1, <5>2
      <4>3. ASSUME NEW i \in localSent'..(localStep' - 1) PROVE i \in Stamps(queued')
        <5>1. i \in Stamps(queued) /\ i # next.id
          BY <1>1, <1>2, <2>4, <3>1 DEF SentOrQueued
        <5> QED
          BY <3>1, <5>1 DEF Stamps
      <4> QED
        BY <4>1, <4>2, <4>3 DEF SentOrQueued
    <3>10. WindowBound' /\ NoStall'
      BY <1>1, <3>1, <3>4 DEF WindowBound, NoStall
    <3>11. AckedIsKept'
      <4> SUFFICES ASSUME NEW i \in 0..(localSent' - 1)
                   PROVE  \/ i \in Stamps(sent') \/ i < remoteStep'
                          \/ i \in Stamps(received')
        BY DEF AckedIsKept
      <4>1. CASE i = localSent
        BY <3>1, <4>1 DEF Stamps
      <4>2. CASE i = id
        BY <1>2, <2>2, <4>2
      <4>3. CASE i # localSent /\ i # id
        <5>1. i \in 0..(localSent - 1)
          BY <2>4, <3>1, <4>3
        <5> QED
          BY <1>2, <2>5, <3>1, <4>3, <5>1 DEF Stamps
      <4> QED
        BY <4>1, <4>2, <4>3
    <3> QED
      BY <1>3, <3>6, <3>7, <3>8, <3>9, <3>10, <3>11 DEF IInv
  <2>7. CASE /\ localSent \notin Stamps(queued)
             /\ sent' = sent \ {m}
             /\ UNCHANGED <<data, localSent, queued>>
    <3>1. queued = {}
      <4>1. localSent >= localStep
        BY <1>1, <2>4, <2>7 DEF SentOrQueued
      <4>2. \A q \in queued : q.id \in Nat /\ q.id < localStep /\ q.id >= localSent
        BY <1>1 DEF TypeOK, Message, BodiesMatch, SentOrQueued
      <4> QED
        BY <2>4, <4>1, <4>2
    <3>2. TypeOK'
      BY <1>1, <1>2, <2>3, <2>7 DEF TypeOK
    <3>3. CountersMatch' /\ BodiesMatch' /\ SentOrQueued'
      BY <1>1, <1>2, <2>7 DEF CountersMatch, BodiesMatch, SentOrQueued
    <3>4. WindowBound' /\ NoStall'
      BY <1>1, <2>3, <2>7, <3>1, ConstantsAssumption DEF WindowBound, NoStall
    <3>5. AckedIsKept'
      BY <1>2, <2>2, <2>5, <2>7 DEF AckedIsKept, Stamps
    <3> QED
      BY <1>3, <3>2, <3>3, <3>4, <3>5 DEF IInv
  <2> QED
    BY <2>1, <2>6, <2>7 DEF SendNext
<1> QED
  BY <1>4, <1>5 DEF GotACK

(* Sending again, and losing: only copies in the network change.           *)
LEMMA NetworkIInv ==
    ASSUME IInv, UNCHANGED sender, UNCHANGED receiver,
           data' \in SUBSET (data \cup sent), acks' \in SUBSET acks
    PROVE  IInv'
<1>1. /\ TypeOK /\ CountersMatch /\ BodiesMatch /\ SentOrQueued
      /\ WindowBound /\ NoStall /\ AckedIsKept
  BY DEF IInv
<1>2. InOrder' /\ AcksAreTrue'
  BY ReceiverKept DEF sender
<1>3. TypeOK'
  BY <1>1 DEF TypeOK, sender, receiver
<1>4. CountersMatch' /\ BodiesMatch' /\ SentOrQueued'
  BY <1>1 DEF CountersMatch, BodiesMatch, SentOrQueued, sender, receiver
<1>5. WindowBound' /\ NoStall' /\ AckedIsKept'
  BY <1>1 DEF WindowBound, NoStall, AckedIsKept, sender, receiver
<1> QED
  BY <1>2, <1>3, <1>4, <1>5 DEF IInv

(* A message arrives, is acknowledged and processed, buffered or ignored   *)
(* (gotReliable, sendACK, checkReceived).                                  *)
LEMMA GotReliableIInv ==
    ASSUME IInv, NEW m \in data, GotReliable(m)
    PROVE  IInv'
<1>1. /\ TypeOK /\ CountersMatch /\ BodiesMatch /\ SentOrQueued /\ InOrder
      /\ WindowBound /\ NoStall /\ AcksAreTrue /\ AckedIsKept
  BY DEF IInv
<1>2. /\ posted' = posted /\ localStep' = localStep /\ localSent' = localSent
      /\ sent' = sent /\ queued' = queued /\ data' \in SUBSET data
      /\ acks' = acks \cup {m.id}
  BY DEF GotReliable, sender
<1>3. m \in Message /\ m.id \in Nat /\ m.id < localSent /\ m.id < localStep
      /\ m.body = posted[m.id + 1]
  BY <1>1 DEF TypeOK, Message, SentOrQueued, BodiesMatch
<1>4. /\ localSent \in Nat /\ localStep \in Nat /\ localSent <= localStep
      /\ remoteStep \in Nat /\ localStep = Len(posted) /\ remoteStep = Len(delivered)
  BY <1>1 DEF TypeOK, CountersMatch
<1>5. \A r \in received : r.id \in Nat /\ r.id < localSent /\ r.id < localStep
  BY <1>1 DEF TypeOK, Message, SentOrQueued, BodiesMatch
<1>6. WindowBound' /\ NoStall'
  BY <1>1, <1>2 DEF WindowBound, NoStall
<1>7. ASSUME received' \in SUBSET (received \cup {m})
      PROVE  BodiesMatch' /\ SentOrQueued'
  <2>1. BodiesMatch'
    BY <1>1, <1>2, <1>7 DEF BodiesMatch
  <2>2. SentOrQueued'
    BY <1>1, <1>2, <1>7 DEF SentOrQueued
  <2> QED
    BY <2>1, <2>2
<1>8. ASSUME /\ received' \in SUBSET Message /\ IsFiniteSet(received')
             /\ remoteStep' \in Nat /\ delivered' \in Seq(Payload)
      PROVE  TypeOK'
  BY <1>1, <1>2, <1>3, <1>8 DEF TypeOK
<1>9. CASE m.id < remoteStep /\ UNCHANGED receiver
  <2>1. remoteStep' = remoteStep /\ received' = received /\ delivered' = delivered
    BY <1>9 DEF receiver
  <2>2. TypeOK' /\ BodiesMatch' /\ SentOrQueued'
    <3>1. /\ received \in SUBSET Message /\ IsFiniteSet(received)
          /\ remoteStep \in Nat /\ delivered \in Seq(Payload)
      BY <1>1 DEF TypeOK
    <3> QED
      BY <1>7, <1>8, <2>1, <3>1
  <2>3. CountersMatch' /\ InOrder' /\ AckedIsKept'
    BY <1>1, <1>2, <2>1 DEF CountersMatch, InOrder, AckedIsKept
  <2>4. AcksAreTrue'
    BY <1>1, <1>2, <1>9, <2>1 DEF AcksAreTrue
  <2> QED
    BY <1>6, <2>2, <2>3, <2>4 DEF IInv
<1>10. CASE \E last \in m.id..(m.id + Cardinality(received)) :
                /\ m.id = remoteStep
                /\ (m.id + 1)..last \subseteq Stamps(received)
                /\ last + 1 \notin Stamps(received)
                /\ remoteStep' = last + 1
                /\ received' = {r \in received : r.id \notin m.id..last}
                /\ delivered' = delivered \o Run(m, last)
  <2>0. Cardinality(received) \in Nat
    BY <1>1, FS_CardinalityType DEF TypeOK
  <2>a. PICK last \in m.id..(m.id + Cardinality(received)) :
                /\ m.id = remoteStep
                /\ (m.id + 1)..last \subseteq Stamps(received)
                /\ last + 1 \notin Stamps(received)
                /\ remoteStep' = last + 1
                /\ received' = {r \in received : r.id \notin m.id..last}
                /\ delivered' = delivered \o Run(m, last)
    BY ONLY <1>10
  <2>b. last \in Nat /\ last >= m.id
    BY ONLY <1>3, <2>0, last \in m.id..(m.id + Cardinality(received)), SMT
  <2>1. /\ last \in Nat
        /\ last >= m.id /\ m.id = remoteStep
        /\ (m.id + 1)..last \subseteq Stamps(received)
        /\ last + 1 \notin Stamps(received)
        /\ remoteStep' = last + 1
        /\ received' = {r \in received : r.id \notin m.id..last}
        /\ delivered' = delivered \o Run(m, last)
    BY <2>a, <2>b
  <2>2. last < localSent
    <3>1. CASE last = m.id
      BY <1>3, <3>1
    <3>2. CASE last # m.id
      <4>1. last \in (m.id + 1)..last
        BY <1>3, <2>1, <3>2
      <4>2. PICK r \in received : r.id = last
        BY <2>1, <4>1 DEF Stamps
      <4> QED
        BY <1>5, <4>2
    <3> QED
      BY <3>1, <3>2
  <2>3. /\ Run(m, last) \in Seq(Payload) /\ Len(Run(m, last)) = last - m.id + 1
        /\ \A i \in 1..(last - m.id + 1) : Run(m, last)[i] = posted[m.id + i]
    BY <1>1, <2>1, RunIsPosted
  <2>4. /\ delivered' \in Seq(Payload)
        /\ Len(delivered') = Len(delivered) + (last - m.id + 1)
        /\ \A i \in 1..Len(delivered') :
              delivered'[i] = IF i <= Len(delivered) THEN delivered[i]
                              ELSE Run(m, last)[i - Len(delivered)]
    <3>1. delivered \in Seq(Payload)
      BY <1>1 DEF TypeOK
    <3>2. /\ delivered \o Run(m, last) \in Seq(Payload)
          /\ Len(delivered \o Run(m, last)) = Len(delivered) + Len(Run(m, last))
          /\ \A i \in 1..(Len(delivered) + Len(Run(m, last))) :
                (delivered \o Run(m, last))[i] =
                    IF i <= Len(delivered) THEN delivered[i]
                    ELSE Run(m, last)[i - Len(delivered)]
      BY <2>3, <3>1, ConcatProperties
    <3> HIDE DEF Run
    <3> QED
      BY <2>1, <2>3, <3>2
  <2>5. Len(delivered') = last + 1
    BY <1>3, <1>4, <2>1, <2>4
  <2>6. TypeOK' /\ BodiesMatch' /\ SentOrQueued'
    <3>1. /\ received' \in SUBSET received /\ received \in SUBSET Message
          /\ IsFiniteSet(received)
      BY <1>1, <2>1 DEF TypeOK
    <3>2. IsFiniteSet(received')
      BY <3>1, FS_Subset
    <3> QED
      BY <1>7, <1>8, <2>1, <2>4, <3>1, <3>2
  <2>7. CountersMatch'
    BY <1>1, <1>2, <2>1, <2>5 DEF CountersMatch
  <2>8. InOrder'
    <3>1. Len(delivered') <= Len(posted')
      BY <1>2, <1>4, <2>2, <2>5
    <3>2. ASSUME NEW i \in 1..Len(delivered') PROVE delivered'[i] = posted'[i]
      <4>1. CASE i <= Len(delivered)
        BY <1>1, <1>2, <1>4, <2>4, <4>1 DEF InOrder
      <4>2. CASE i > Len(delivered)
        <5>1. i - Len(delivered) \in 1..(last - m.id + 1)
          BY <1>3, <1>4, <2>1, <2>5, <4>2
        <5>2. m.id + (i - Len(delivered)) = i
          BY <1>3, <1>4, <2>1, <4>2
        <5>3. delivered'[i] = Run(m, last)[i - Len(delivered)]
          BY <1>4, <2>4, <2>5, <4>2
        <5> QED
          BY <1>2, <2>3, <5>1, <5>2, <5>3
      <4> QED
        BY <1>4, <2>5, <4>1, <4>2
    <3> QED
      BY <3>1, <3>2 DEF InOrder
  <2>9. ASSUME NEW id \in Nat, id < remoteStep \/ id \in Stamps(received) \/ id = m.id
        PROVE  id < remoteStep' \/ id \in Stamps(received')
    <3>1. CASE id \in m.id..last
      BY <2>1, <3>1
    <3>2. CASE id < m.id
      BY <1>3, <2>1, <3>2
    <3>3. CASE id > last
      <4>1. PICK r \in received : r.id = id
        BY <1>3, <1>4, <2>1, <2>9, <3>3 DEF Stamps
      <4> QED
        BY <1>3, <2>1, <3>3, <4>1 DEF Stamps
    <3> QED
      BY <1>3, <2>1, <3>1, <3>2, <3>3
  <2>10. AcksAreTrue'
    BY <1>1, <1>2, <1>3, <2>9 DEF AcksAreTrue, TypeOK
  <2>11. AckedIsKept'
    BY <1>1, <1>2, <2>9 DEF AckedIsKept
  <2> QED
    BY <1>6, <2>6, <2>7, <2>8, <2>10, <2>11 DEF IInv
<1>11. CASE /\ m.id > remoteStep
            /\ received' = IF m.id \in Stamps(received) THEN received
                                                        ELSE received \cup {m}
            /\ UNCHANGED <<remoteStep, delivered>>
  <2>1. /\ received' \in SUBSET (received \cup {m}) /\ received \in SUBSET received'
        /\ m.id \in Stamps(received')
    BY <1>11 DEF Stamps
  <2>2. received' \in SUBSET Message /\ IsFiniteSet(received')
    <3>1. received \in SUBSET Message /\ IsFiniteSet(received)
      BY <1>1 DEF TypeOK
    <3>2. IsFiniteSet(received \cup {m})
      BY <3>1, FS_AddElement
    <3> QED
      BY <1>3, <2>1, <3>1, <3>2, FS_Subset
  <2>3. TypeOK' /\ BodiesMatch' /\ SentOrQueued'
    <3>1. remoteStep' \in Nat /\ delivered' \in Seq(Payload)
      BY <1>1, <1>11 DEF TypeOK
    <3> QED
      BY <1>7, <1>8, <2>1, <2>2, <3>1
  <2>4. CountersMatch' /\ InOrder'
    BY <1>1, <1>2, <1>11 DEF CountersMatch, InOrder
  <2>5. Stamps(received) \subseteq Stamps(received')
    BY <2>1 DEF Stamps
  <2>6. AcksAreTrue' /\ AckedIsKept'
    BY <1>1, <1>2, <1>11, <2>1, <2>5 DEF AcksAreTrue, AckedIsKept
  <2> QED
    BY <1>6, <2>3, <2>4, <2>6 DEF IInv
<1> QED
  BY <1>9, <1>10, <1>11 DEF GotReliable, CheckReceived

(* No step of sender, receiver or network breaks the inductive invariant.  *)
LEMMA NextIInv == IInv /\ [Next]_vars => IInv'
<1> SUFFICES ASSUME IInv, [Next]_vars PROVE IInv'
  OBVIOUS
<1>1. ASSUME NEW body \in Payload, Post(body) PROVE IInv'
  BY <1>1, PostIInv
<1>2. ASSUME NEW id \in acks, GotACK(id) PROVE IInv'
  BY <1>2, GotACKIInv
<1>3. ASSUME NEW overdue \in SUBSET sent, SendQueued(overdue) PROVE IInv'
  <2>1. /\ UNCHANGED sender /\ UNCHANGED receiver
        /\ data' \in SUBSET (data \cup sent) /\ acks' \in SUBSET acks
    BY <1>3 DEF SendQueued
  <2> QED
    BY <2>1, NetworkIInv
<1>4. ASSUME NEW m \in data, GotReliable(m) PROVE IInv'
  BY <1>4, GotReliableIInv
<1>5. CASE Lose
  <2>1. /\ UNCHANGED sender /\ UNCHANGED receiver
        /\ data' \in SUBSET (data \cup sent) /\ acks' \in SUBSET acks
    BY <1>5 DEF Lose
  <2> QED
    BY <2>1, NetworkIInv
<1>6. CASE UNCHANGED vars
  <2>1. /\ UNCHANGED sender /\ UNCHANGED receiver
        /\ data' \in SUBSET (data \cup sent) /\ acks' \in SUBSET acks
    BY <1>6 DEF vars
  <2> QED
    BY <2>1, NetworkIInv
<1> QED
  BY <1>1, <1>2, <1>3, <1>4, <1>5, <1>6 DEF Next

(* The inductive invariant holds in every behaviour.                       *)
THEOREM Invariance == Spec => []IInv
<1>1. IInv /\ [Next]_vars => IInv'
  BY NextIInv
<1> QED
  BY InitIInv, <1>1, PTL DEF Spec

(* Every variable of a session keeps its type.                             *)
THEOREM TypeCorrect == Spec => []TypeOK
<1>1. IInv => TypeOK
  BY DEF IInv
<1> QED
  BY Invariance, <1>1, PTL

(* Whatever the network loses, repeats or reorders, the handlers see a     *)
(* prefix of what was posted (checkReceived).                              *)
THEOREM DeliveryInOrder == Spec => []InOrder
<1>1. IInv => InOrder
  BY DEF IInv
<1> QED
  BY Invariance, <1>1, PTL

(* At most MaxReliableInTransit messages wait for an ACK, and none waits   *)
(* for a slot while one is free (queue, checkSent, sendNext).              *)
THEOREM WindowIsUsed == Spec => [](WindowBound /\ NoStall)
<1>1. IInv => WindowBound /\ NoStall
  BY DEF IInv
<1> QED
  BY Invariance, <1>1, PTL

(* No message is forgotten by the sender before the receiver has it        *)
(* (gotReliable, gotACK).                                                  *)
THEOREM NothingForgotten == Spec => []AckedIsKept
<1>1. IInv => AckedIsKept
  BY DEF IInv
<1> QED
  BY Invariance, <1>1, PTL

(* A step of the reliable layer posts one message, delivers the next ones, *)
(* or changes neither history.                                             *)
LEMMA StepSimulation == IInv /\ IInv' /\ [Next]_vars => [Fifo!Next]_(Fifo!vars)
<1> SUFFICES ASSUME IInv, IInv', [Next]_vars
             PROVE  Fifo!Next \/ UNCHANGED <<posted, delivered>>
  BY DEF Fifo!vars
<1>1. ASSUME NEW body \in Payload, Post(body) PROVE Fifo!Next
  BY <1>1 DEF Post, receiver, Fifo!Next, Fifo!Post
<1>2. ASSUME NEW m \in data, GotReliable(m)
      PROVE  Fifo!Next \/ UNCHANGED <<posted, delivered>>
  <2>1. CASE UNCHANGED delivered
    BY <1>2, <2>1 DEF GotReliable, sender
  <2>2. CASE delivered' # delivered
    <3> DEFINE n == Len(delivered')
    <3>1. /\ posted' = posted /\ posted \in Seq(Payload)
          /\ delivered \in Seq(Payload) /\ delivered' \in Seq(Payload)
          /\ n <= Len(posted) /\ \A i \in 1..n : delivered'[i] = posted[i]
          /\ remoteStep = Len(delivered) /\ remoteStep' = n
          /\ n \in Nat /\ Len(delivered) \in Nat
      BY <1>2 DEF GotReliable, sender, IInv, TypeOK, InOrder, CountersMatch
    <3>2. Len(delivered) < n
      <4>1. \E last \in m.id..(m.id + Cardinality(received)) :
               m.id = remoteStep /\ remoteStep' = last + 1
        BY <1>2, <2>2 DEF GotReliable, CheckReceived, receiver
      <4>2. m.id \in Nat /\ Cardinality(received) \in Nat
        BY FS_CardinalityType DEF IInv, TypeOK, Message
      <4> QED
        BY <3>1, <4>1, <4>2
    <3>3. delivered' = SubSeq(posted, 1, n)
      <4>1. \A i \in 1..n : posted[i] \in Payload
        BY <3>1
      <4>2. /\ SubSeq(posted, 1, n) \in Seq(Payload)
            /\ Len(SubSeq(posted, 1, n)) = n
            /\ \A i \in 1..n : SubSeq(posted, 1, n)[i] = posted[i]
        BY <3>1, <4>1, SubSeqProperties
      <4> QED
        BY <3>1, <4>2, SeqEqual
    <3> QED
      BY <3>1, <3>2, <3>3 DEF Fifo!Next, Fifo!Deliver
  <2> QED
    BY <2>1, <2>2
<1>3. CASE \/ \E id \in acks : GotACK(id)
           \/ \E overdue \in SUBSET sent : SendQueued(overdue)
           \/ Lose
           \/ UNCHANGED vars
  BY <1>3 DEF GotACK, SendQueued, Lose, sender, receiver, vars
<1> QED
  BY <1>1, <1>2, <1>3 DEF Next

(* The reliable layer, with its window, its retransmissions and its buffer *)
(* of early messages, implements FIFO delivery of what was posted.         *)
THEOREM Refinement == Spec => FifoSpec
<1>1. Init => Fifo!Init
  BY DEF Init, Fifo!Init
<1>2. IInv /\ IInv' /\ [Next]_vars => [Fifo!Next]_(Fifo!vars)
  BY StepSimulation
<1> QED
  BY Invariance, <1>1, <1>2, PTL DEF Spec, FifoSpec, Fifo!Spec
-----------------------------------------------------------------------------
(* From here on about Transport.                                           *)

(* A message as it is sent, with a stamp or without one.                   *)
Parcel == [stamp : Nat \cup {NoStamp}, part : Part]

(* f adds up the numbers w.                                                *)
Adds(f, n, w) == f[0] = 0 /\ \A k \in 1 .. n : f[k] = f[k - 1] + w[k]
-----------------------------------------------------------------------------
(* There is one sum.                                                       *)
LEMMA OneSum ==
    ASSUME NEW n \in Nat, NEW w, NEW f, NEW g, Adds(f, n, w), Adds(g, n, w)
    PROVE  f[n] = g[n]
<1> DEFINE T == {k \in 0 .. n : f[k] = g[k]}
<1>1. 0 \in T
  BY DEF Adds
<1>2. ASSUME NEW k \in 0 .. n - 1, k \in T PROVE k + 1 \in T
  <2>1. k + 1 \in 1 .. n /\ (k + 1) - 1 = k /\ k + 1 \in 0 .. n
    OBVIOUS
  <2> QED
    BY <1>2, <2>1 DEF Adds
<1> HIDE DEF T
<1>3. 0 .. n \subseteq T
  BY <1>1, <1>2, InductionUpTo
<1> QED
  BY <1>3 DEF T

(* What a buffer holds.                                                    *)
LEMMA FilledIs ==
    ASSUME NEW b \in Seq(Part)
    PROVE  \E f \in [0 .. Len(b) -> Nat] :
              /\ Adds(f, Len(b), [k \in 1 .. Len(b) |-> b[k].data])
              /\ Filled(b) = f[Len(b)]
<1> DEFINE n == Len(b)
           w == [k \in 1 .. n |-> b[k].data]
           Def(f) == [k \in 0 .. n |-> IF k = 0 THEN 0 ELSE f[k - 1] + b[k].data]
           up == CHOOSE f : f = Def(f)
           step == [k \in 1 .. n |-> [e \in Nat |-> e + b[k].data]]
<1>1. n \in Nat
  OBVIOUS
<1>2. Filled(b) = up[n]
  BY Zenon DEF Filled, Through
<1>3. \A k \in 1 .. n : b[k].data \in Nat
  <2>1. \A k \in 1 .. n : b[k] \in Part
    OBVIOUS
  <2> QED
    BY <2>1 DEF Part
<1> HIDE DEF n
<1>4. step \in [1 .. n -> [Nat -> Nat]]
  BY <1>3
<1>5. PICK f \in [0 .. n -> Nat] : Iterates(f, n, 0, step)
  <2> HIDE DEF step
  <2> QED
    BY <1>1, <1>4, Iteration
<1>6. f[0] = 0 /\ \A k \in 1 .. n : f[k] = f[k - 1] + b[k].data
  <2>1. ASSUME NEW k \in 1 .. n PROVE f[k] = f[k - 1] + b[k].data
    <3>1. f[k - 1] \in Nat
      BY <1>1
    <3> QED
      BY <1>5, <3>1 DEF Iterates
  <2> QED
    BY <1>5, <2>1 DEF Iterates
<1>7. f = Def(f)
  BY <1>1, <1>6
<1>8. up = Def(up)
  <2> HIDE DEF Def
  <2> QED
    BY <1>7, Zenon
<1> HIDE DEF up
<1>9. up[0] = 0 /\ \A k \in 1 .. n : up[k] = up[k - 1] + b[k].data
  <2> DEFINE g == Def(up)
  <2>1. \A k \in 0 .. n : g[k] = IF k = 0 THEN 0 ELSE up[k - 1] + b[k].data
    OBVIOUS
  <2>2. 0 \in 0 .. n /\ \A k \in 1 .. n : k \in 0 .. n /\ k # 0
    BY <1>1
  <2> HIDE DEF g
  <2>3. up = g
    BY <1>8 DEF g
  <2> QED
    BY <2>1, <2>2, <2>3
<1>10. Adds(f, n, w) /\ Adds(up, n, w)
  BY <1>6, <1>9 DEF Adds
<1>11. up[n] = f[n]
  <2> HIDE DEF w
  <2> QED
    BY <1>1, <1>10, OneSum
<1> QED
  BY <1>2, <1>10, <1>11 DEF n

(* A part more fills a buffer by its bytes.                                *)
LEMMA FilledGrows ==
    /\ Filled(<<>>) = 0
    /\ \A b \in Seq(Part), p \in Part :
          /\ Filled(b) \in Nat
          /\ Filled(Append(b, p)) = Filled(b) + p.data
<1>1. Filled(<<>>) = 0
  <2> DEFINE b == <<>>
  <2>1. b \in Seq(Part) /\ Len(b) = 0
    OBVIOUS
  <2> HIDE DEF b
  <2>2. PICK f \in [0 .. Len(b) -> Nat] :
           /\ Adds(f, Len(b), [k \in 1 .. Len(b) |-> b[k].data])
           /\ Filled(b) = f[Len(b)]
    BY <2>1, FilledIs
  <2>3. f[0] = 0
    BY <2>2 DEF Adds
  <2> QED
    BY <2>1, <2>2, <2>3 DEF b
<1>2. ASSUME NEW b \in Seq(Part), NEW p \in Part
      PROVE  Filled(b) \in Nat /\ Filled(Append(b, p)) = Filled(b) + p.data
  <2> DEFINE n == Len(b)
             c == Append(b, p)
             w == [k \in 1 .. n |-> b[k].data]
             x == [k \in 1 .. n + 1 |-> c[k].data]
  <2>1. /\ n \in Nat /\ c \in Seq(Part) /\ Len(c) = n + 1 /\ c[n + 1] = p
        /\ \A k \in 1 .. n : c[k] = b[k]
    OBVIOUS
  <2> HIDE DEF n, c
  <2>2. PICK f \in [0 .. n -> Nat] : Adds(f, n, w) /\ Filled(b) = f[n]
    BY FilledIs DEF n
  <2>3. PICK g \in [0 .. n + 1 -> Nat] : Adds(g, n + 1, x) /\ Filled(c) = g[n + 1]
    <3>1. \E g \in [0 .. Len(c) -> Nat] :
             /\ Adds(g, Len(c), [k \in 1 .. Len(c) |-> c[k].data])
             /\ Filled(c) = g[Len(c)]
      BY <2>1, FilledIs
    <3> QED
      BY <2>1, <3>1
  <2>4. Adds(g, n, w)
    <3>1. ASSUME NEW k \in 1 .. n PROVE g[k] = g[k - 1] + w[k]
      <4>1. k \in 1 .. n + 1 /\ x[k] = w[k]
        <5>1. n \in Nat
          BY <2>1
        <5>2. k \in 1 .. n + 1
          BY <5>1
        <5>3. c[k] = b[k]
          BY <2>1
        <5> QED
          BY <5>2, <5>3
      <4> HIDE DEF w, x
      <4> QED
        BY <2>3, <4>1 DEF Adds
    <3> QED
      BY <2>3, <3>1 DEF Adds
  <2>5. g[n] = f[n]
    <3> HIDE DEF w
    <3> QED
      BY <2>1, <2>2, <2>4, OneSum
  <2>6. g[n + 1] = g[n] + p.data
    <3>1. n + 1 \in 1 .. n + 1 /\ (n + 1) - 1 = n
      BY <2>1
    <3>2. x[n + 1] = p.data
      BY <2>1, <3>1
    <3> HIDE DEF x
    <3> QED
      BY <2>3, <3>1, <3>2 DEF Adds
  <2>7. f[n] \in Nat
    BY <2>1
  <2> QED
    BY <2>2, <2>3, <2>5, <2>6, <2>7 DEF c
<1> QED
  BY <1>1, <1>2
-----------------------------------------------------------------------------
(* The less of two numbers.                                                *)
LEMMA LessOf ==
    ASSUME NEW a \in Int, NEW b \in Int
    PROVE  Min({a, b}) = IF a <= b THEN a ELSE b
<1> DEFINE m == IF a <= b THEN a ELSE b
           Least(x) == x \in {a, b} /\ \A y \in {a, b} : x <= y
<1>1. Least(m) /\ \A x : Least(x) => x = m
  OBVIOUS
<1>2. Min({a, b}) = CHOOSE x \in {a, b} : \A y \in {a, b} : x <= y
  BY DEF Min
<1>3. Least(CHOOSE x \in {a, b} : \A y \in {a, b} : x <= y)
  BY <1>1
<1> HIDE DEF m, Least
<1> QED
  BY <1>1, <1>2, <1>3 DEF m

(* How often size goes into total, rounded up.                             *)
LEMMA RoundedUp ==
    ASSUME NEW total \in Nat \ {0}, NEW size \in Nat \ {0}
    PROVE  LET n == (total + size - 1) \div size
           IN  n \in Nat \ {0} /\ (n - 1) * size < total /\ total <= n * size
<1> DEFINE n == (total + size - 1) \div size
<1>1. n \in Int /\ n * size <= total + size - 1 /\ total + size - 1 < n * size + size
  OBVIOUS
<1> HIDE DEF n
<1>2. (n - 1) * size = n * size - size
  BY <1>1
<1>3. n > 0
  <2> SUFFICES ASSUME n <= 0 PROVE FALSE
    BY <1>1
  <2>1. n * size <= 0
    BY <1>1
  <2> QED
    BY <1>1, <2>1
<1>4. n \in Nat \ {0} /\ (n - 1) * size < total /\ total <= n * size
  BY <1>1, <1>2, <1>3
<1> QED
  BY <1>4 DEF n

(* The pieces of a message: p is one of them, and so many bytes of it come *)
(* before.                                                                 *)
IsPiece(p, kind, no, from, total, size) ==
    /\ p \in Part /\ p.kind = kind /\ p.no = no /\ p.from = from /\ p.total = total
    /\ p.data \in Nat /\ p.data <= size /\ p.from + p.data <= total

(* The beginning of a sequence.                                            *)
LEMMA Beginning ==
    ASSUME NEW S, NEW P \in Seq(S)
    PROVE  /\ SubSeq(P, 1, 0) = <<>> /\ SubSeq(P, 1, Len(P)) = P
           /\ \A k \in 0 .. Len(P) - 1 :
                 /\ SubSeq(P, 1, k) \in Seq(S) /\ P[k + 1] \in S
                 /\ SubSeq(P, 1, k + 1) = Append(SubSeq(P, 1, k), P[k + 1])
           /\ \A k \in 0 .. Len(P) :
                 /\ SubSeq(P, 1, k) \in Seq(S) /\ Len(SubSeq(P, 1, k)) = k
                 /\ \A i \in 1 .. k : SubSeq(P, 1, k)[i] = P[i]
<1> DEFINE n == Len(P)
<1>1. n \in Nat /\ \A k \in 1 .. n : P[k] \in S
  OBVIOUS
<1>2. SubSeq(P, 1, 0) = <<>> /\ SubSeq(P, 1, n) = P
  OBVIOUS
<1>3. ASSUME NEW k \in 0 .. n
      PROVE  /\ SubSeq(P, 1, k) \in Seq(S) /\ Len(SubSeq(P, 1, k)) = k
             /\ \A i \in 1 .. k : SubSeq(P, 1, k)[i] = P[i]
  BY <1>1
<1>4. ASSUME NEW k \in 0 .. n - 1
      PROVE  /\ P[k + 1] \in S
             /\ SubSeq(P, 1, k + 1) = Append(SubSeq(P, 1, k), P[k + 1])
  <2> DEFINE s == SubSeq(P, 1, k)
             t == SubSeq(P, 1, k + 1)
             u == Append(s, P[k + 1])
  <2>1. k \in 0 .. n /\ k + 1 \in 0 .. n /\ k + 1 \in 1 .. n /\ k + 1 \in 1 .. k + 1
    BY <1>1
  <2>2. /\ s \in Seq(S) /\ Len(s) = k /\ \A i \in 1 .. k : s[i] = P[i]
        /\ t \in Seq(S) /\ Len(t) = k + 1 /\ \A i \in 1 .. k + 1 : t[i] = P[i]
    BY <1>3, <2>1
  <2>3. P[k + 1] \in S
    BY <1>1, <2>1
  <2> HIDE DEF s, t
  <2>4. /\ u \in Seq(S) /\ Len(u) = k + 1 /\ u[k + 1] = P[k + 1]
        /\ \A i \in 1 .. k : u[i] = s[i]
    BY <2>1, <2>2, <2>3
  <2> HIDE DEF u
  <2>5. \A i \in 1 .. k + 1 : t[i] = u[i]
    <3>1. \A i \in 1 .. k + 1 : i \in 1 .. k \/ i = k + 1
      BY <2>1
    <3> QED
      BY <2>2, <2>4, <3>1
  <2>6. t = u
    BY <2>2, <2>4, <2>5
  <2> QED
    BY <2>3, <2>6 DEF s, t, u
<1>5. \A k \in 0 .. n - 1 : k \in 0 .. n
  BY <1>1
<1> QED
  BY <1>2, <1>3, <1>4, <1>5

(* One element more of it.                                                 *)
LEMMA OneMore ==
    ASSUME NEW S, NEW P \in Seq(S), NEW k \in 0 .. Len(P) - 1
    PROVE  /\ SubSeq(P, 1, k) \in Seq(S) /\ P[k + 1] \in S
           /\ SubSeq(P, 1, k + 1) = Append(SubSeq(P, 1, k), P[k + 1])
BY Beginning

(* P is a message in pieces: the last may be shorter, and each begins      *)
(* where those before it end.                                              *)
AreParts(P, no, total, size, kind, last) ==
    /\ P \in Seq(Part) /\ Len(P) \in Nat \ {0}
    /\ \A k \in 1 .. Len(P) :
          IsPiece(P[k], IF k = Len(P) THEN last ELSE kind, no, (k - 1) * size, total, size)
    /\ \A k \in 1 .. Len(P) : Filled(SubSeq(P, 1, k - 1)) = P[k].from
    /\ Filled(P) = total
    /\ \A k \in 0 .. Len(P) - 1 : Filled(SubSeq(P, 1, k)) < total

(* How post() cuts a message.                                              *)
LEMMA PartsAre ==
    ASSUME NEW no \in Nat, NEW total \in Nat \ {0}, NEW size \in Nat \ {0},
           NEW kind \in {"plain", "body", "tail", "big", "cancel"},
           NEW last \in {"plain", "body", "tail", "big", "cancel"}
    PROVE  AreParts(Parts(no, total, size, kind, last), no, total, size, kind, last)
<1> DEFINE n == (total + size - 1) \div size
           P == Parts(no, total, size, kind, last)
           Kind(k) == IF k * size >= total THEN last ELSE kind
           Data(k) == IF k < n THEN size ELSE total - (k - 1) * size
<1>1. n \in Nat \ {0} /\ (n - 1) * size < total /\ total <= n * size
  BY RoundedUp
<1>2. P = [k \in 1 .. n |-> [kind |-> Kind(k), no |-> no, from |-> (k - 1) * size,
                             data |-> Min({size, total - (k - 1) * size}),
                             total |-> total]]
  BY DEF Parts
<1> HIDE DEF n, P
<1>3. ASSUME NEW k \in 1 .. n
      PROVE  /\ k * size \in Nat /\ (k - 1) * size \in Nat
             /\ k * size = (k - 1) * size + size
             /\ k < n => k * size < total
             /\ k = n => k * size >= total
             /\ (k - 1) * size < total
  <2>1. k * size = (k - 1) * size + size /\ k * size \in Nat /\ (k - 1) * size \in Nat
    BY <1>1
  <2>2. ASSUME k < n PROVE k * size <= (n - 1) * size
    <3>1. n - 1 - k \in Nat /\ (n - 1) * size = k * size + (n - 1 - k) * size
      BY <1>1, <2>2
    <3>2. (n - 1 - k) * size \in Nat /\ (n - 1) * size \in Int
      BY <1>1, <3>1
    <3> QED
      BY <2>1, <3>1, <3>2
  <2>3. k < n => k * size < total
    BY <1>1, <2>1, <2>2
  <2>4. k = n => k * size >= total /\ (k - 1) * size < total
    BY <1>1
  <2>5. k < n => (k - 1) * size < total
    BY <2>1, <2>3
  <2>6. k < n \/ k = n
    BY <1>1
  <2> QED
    BY <2>1, <2>3, <2>4, <2>5, <2>6
<1>4. ASSUME NEW k \in 1 .. n
      PROVE  /\ P[k] \in Part /\ P[k].kind = (IF k = n THEN last ELSE kind)
             /\ P[k].no = no /\ P[k].from = (k - 1) * size /\ P[k].total = total
             /\ P[k].data = Data(k)
  <2> DEFINE a == (k - 1) * size
  <2>1. a \in Nat /\ k * size \in Nat /\ k * size = a + size /\ a < total
        /\ (k < n => k * size < total) /\ (k = n => k * size >= total)
        /\ (k < n \/ k = n)
    BY <1>1, <1>3
  <2>2. P[k] = [kind |-> Kind(k), no |-> no, from |-> a, data |-> Min({size, total - a}),
                total |-> total]
    BY <1>2
  <2>3. Kind(k) = IF k = n THEN last ELSE kind
    BY <1>1, <2>1
  <2> HIDE DEF a
  <2>4. Min({size, total - a}) = IF size <= total - a THEN size ELSE total - a
    BY <2>1, LessOf
  <2>5. Min({size, total - a}) = (IF k < n THEN size ELSE total - a)
    <3>1. CASE k < n
      BY <1>1, <2>1, <2>4, <3>1
    <3>2. CASE k = n
      BY <1>1, <2>1, <2>4, <3>2
    <3> QED
      BY <2>1, <3>1, <3>2
  <2>6. (IF k < n THEN size ELSE total - a) \in Nat
    BY <2>1
  <2> HIDE DEF Kind
  <2>7. Kind(k) \in {"plain", "body", "tail", "big", "cancel"}
    BY <2>3
  <2> DEFINE c == Kind(k)
             d == IF k < n THEN size ELSE total - a
  <2>8. P[k] = [kind |-> c, no |-> no, from |-> a, data |-> d, total |-> total]
    BY <2>2, <2>5
  <2>9. c \in {"plain", "body", "tail", "big", "cancel"} /\ d \in Nat
    BY <2>6, <2>7
  <2> HIDE DEF c, d
  <2>10. /\ P[k] \in Part /\ P[k].kind = c /\ P[k].no = no /\ P[k].from = a
         /\ P[k].total = total /\ P[k].data = d
    BY <2>1, <2>8, <2>9 DEF Part
  <2> QED
    BY <2>3, <2>10 DEF a, c, d
<1>5. P \in Seq(Part) /\ Len(P) = n
  <2>1. P \in [1 .. n -> Part]
    <3>1. P = [k \in 1 .. n |-> P[k]]
      BY <1>2
    <3> QED
      BY <1>4, <3>1
  <2> QED
    BY <1>1, <2>1
<1> DEFINE Sum(k) == IF k < n THEN k * size ELSE total
           T == {k \in 0 .. n : Filled(SubSeq(P, 1, k)) = Sum(k)}
<1>6. 0 \in T
  <2>1. SubSeq(P, 1, 0) = <<>> /\ Filled(<<>>) = 0
    BY <1>5, Beginning, FilledGrows
  <2>2. 0 < n /\ 0 * size = 0 /\ 0 \in 0 .. n
    BY <1>1
  <2>3. Sum(0) = 0
    BY <2>2
  <2> HIDE DEF Sum
  <2> QED
    BY <2>1, <2>2, <2>3
<1>7. ASSUME NEW k \in 0 .. n - 1, k \in T PROVE k + 1 \in T
  <2>1. /\ SubSeq(P, 1, k) \in Seq(Part) /\ P[k + 1] \in Part
        /\ SubSeq(P, 1, k + 1) = Append(SubSeq(P, 1, k), P[k + 1])
    BY <1>5, Beginning
  <2>2. Filled(SubSeq(P, 1, k + 1)) = Filled(SubSeq(P, 1, k)) + P[k + 1].data
    BY <2>1, FilledGrows
  <2>3. k + 1 \in 1 .. n /\ (k + 1) - 1 = k /\ k < n /\ k + 1 \in 0 .. n
    BY <1>1
  <2>4. P[k + 1].data = Data(k + 1) /\ (k + 1) * size = k * size + size /\ k * size \in Nat
    BY <1>3, <1>4, <2>3
  <2>5. Filled(SubSeq(P, 1, k)) = k * size
    BY <1>7, <2>3
  <2> DEFINE a == k * size
             b == (k + 1) * size
  <2>6. Data(k + 1) = IF k + 1 < n THEN size ELSE total - a
    BY <2>3
  <2>7. Sum(k + 1) = IF k + 1 < n THEN b ELSE total
    OBVIOUS
  <2>8. a \in Nat /\ b = a + size
    BY <2>4
  <2> HIDE DEF a, b, Data, Sum
  <2>9. a + Data(k + 1) = Sum(k + 1)
    BY <2>6, <2>7, <2>8
  <2>10. Filled(SubSeq(P, 1, k + 1)) = Sum(k + 1)
    BY <2>2, <2>4, <2>5, <2>9 DEF a
  <2> QED
    BY <2>3, <2>10
<1>8. 0 .. n \subseteq T
  <2> HIDE DEF T
  <2> QED
    BY <1>1, <1>6, <1>7, InductionUpTo
<1>9. Filled(P) = total
  <2>1. n \in T /\ SubSeq(P, 1, n) = P
    BY <1>1, <1>5, <1>8, Beginning
  <2>2. Sum(n) = total
    BY <1>1
  <2> QED
    BY <2>1, <2>2
<1>10. ASSUME NEW k \in 0 .. n - 1
       PROVE  Filled(SubSeq(P, 1, k)) = k * size /\ k * size < total
  <2>1. k \in T /\ k < n /\ k + 1 \in 1 .. n /\ (k + 1) - 1 = k
    BY <1>1, <1>8
  <2>2. k * size < total
    BY <1>3, <2>1
  <2> QED
    BY <2>1, <2>2
<1>11. ASSUME NEW k \in 1 .. n
       PROVE  /\ IsPiece(P[k], IF k = n THEN last ELSE kind, no, (k - 1) * size, total, size)
              /\ Filled(SubSeq(P, 1, k - 1)) = P[k].from
  <2> DEFINE a == (k - 1) * size
             d == Data(k)
             c == IF k = n THEN last ELSE kind
  <2>1. /\ P[k] \in Part /\ P[k].kind = c /\ P[k].no = no /\ P[k].from = a
        /\ P[k].total = total /\ P[k].data = d
    BY <1>4
  <2>2. /\ a \in Nat /\ k * size \in Nat /\ k * size = a + size /\ a < total
        /\ (k < n => k * size < total) /\ (k = n => k * size >= total) /\ (k < n \/ k = n)
    BY <1>1, <1>3
  <2>3. d = IF k < n THEN size ELSE total - a
    OBVIOUS
  <2> HIDE DEF a, d, c
  <2>4. d \in Nat /\ d <= size /\ a + d <= total
    <3>1. CASE k < n
      BY <2>2, <2>3, <3>1
    <3>2. CASE k = n
      BY <2>2, <2>3, <3>2
    <3> QED
      BY <2>2, <3>1, <3>2
  <2>5. IsPiece(P[k], c, no, a, total, size)
    BY <2>1, <2>4 DEF IsPiece
  <2>6. Filled(SubSeq(P, 1, k - 1)) = a
    <3>1. k - 1 \in 0 .. n - 1
      BY <1>1
    <3> QED
      BY <1>10, <3>1 DEF a
  <2> QED
    BY <2>1, <2>5, <2>6 DEF a, c
<1>12. AreParts(P, no, total, size, kind, last)
  BY <1>1, <1>5, <1>9, <1>10, <1>11 DEF AreParts
<1> QED
  BY <1>12 DEF P
-----------------------------------------------------------------------------
(* Parts that are posted: none is a part of nothing.                       *)
Posted == {p \in Part : p.total # 0}

(* g is r with other buffers and other messages handled.                   *)
Becomes(g, r, little, large, ftLength, got) ==
    /\ g \in Receiver /\ g.step = r.step /\ g.held = r.held
    /\ g.little = little /\ g.large = large /\ g.ftLength = ftLength /\ g.got = got

(* What handling a message depends on, and changes.                        *)
SameBuffers(r, s) ==
    r.little = s.little /\ r.large = s.large /\ r.ftLength = s.ftLength /\ r.got = s.got

Prefix(s, t) == Len(s) <= Len(t) /\ \A i \in 1 .. Len(s) : s[i] = t[i]

(* The fields of a receiver.                                               *)
LEMMA ReceiverIs ==
    ASSUME NEW r \in Receiver
    PROVE  /\ r.step \in Nat /\ r.held \in SUBSET [stamp : Nat, part : Part]
           /\ r.little \in Seq(Part) /\ r.large \in Seq(Part) /\ r.ftLength \in Nat
           /\ r.got \in Seq(Nat)
BY DEF Receiver

(* The fields that the handlers change.                                    *)
LEMMA ChangedFields ==
    ASSUME NEW r \in Receiver, NEW b \in Seq(Part), NEW n \in Nat, NEW q \in Seq(Nat),
           NEW g
    PROVE  /\ g = [r EXCEPT !.got = q] => Becomes(g, r, r.little, r.large, r.ftLength, q)
           /\ g = [r EXCEPT !.little = b] => Becomes(g, r, b, r.large, r.ftLength, r.got)
           /\ g = [r EXCEPT !.little = b, !.got = q] => Becomes(g, r, b, r.large, r.ftLength, q)
           /\ g = [r EXCEPT !.large = b, !.ftLength = n] => Becomes(g, r, r.little, b, n, r.got)
           /\ g = [r EXCEPT !.large = b, !.ftLength = n, !.got = q]
                 => Becomes(g, r, r.little, b, n, q)
<1> DEFINE B == Seq(Part)
           H == SUBSET [stamp : Nat, part : Part]
           N == Seq(Nat)
<1>1. r \in [step : Nat, held : H, little : B, large : B, ftLength : Nat, got : N]
  BY DEF Receiver
<1>2. b \in B /\ q \in N
  OBVIOUS
<1>3. Receiver = [step : Nat, held : H, little : B, large : B, ftLength : Nat, got : N]
  BY DEF Receiver
<1> HIDE DEF B, H, N
<1>4. ASSUME g = [r EXCEPT !.got = q]
      PROVE  Becomes(g, r, r.little, r.large, r.ftLength, q)
  BY <1>1, <1>2, <1>3, <1>4 DEF Becomes
<1>5. ASSUME g = [r EXCEPT !.little = b]
      PROVE  Becomes(g, r, b, r.large, r.ftLength, r.got)
  BY <1>1, <1>2, <1>3, <1>5 DEF Becomes
<1>6. ASSUME g = [r EXCEPT !.little = b, !.got = q]
      PROVE  Becomes(g, r, b, r.large, r.ftLength, q)
  BY <1>1, <1>2, <1>3, <1>6 DEF Becomes
<1>7. ASSUME g = [r EXCEPT !.large = b, !.ftLength = n]
      PROVE  Becomes(g, r, r.little, b, n, r.got)
  BY <1>1, <1>2, <1>3, <1>7 DEF Becomes
<1>8. ASSUME g = [r EXCEPT !.large = b, !.ftLength = n, !.got = q]
      PROVE  Becomes(g, r, r.little, b, n, q)
  BY <1>1, <1>2, <1>3, <1>8 DEF Becomes
<1> QED
  BY <1>4, <1>5, <1>6, <1>7, <1>8

(* A buffer after a message: all that fits is kept.                        *)
LEMMA BufferIs ==
    ASSUME NEW b \in Seq(Part), NEW p \in Part, NEW limit
    PROVE  /\ AddMessage(b, p, limit) \in Seq(Part)
           /\ Filled(b) + p.data <= limit => AddMessage(b, p, limit) = Append(b, p)
BY DEF AddMessage

(* What a buffer makes is the number of a message, or 0.                   *)
LEMMA JoinedIs ==
    ASSUME NEW b \in Seq(Part), b # <<>>
    PROVE  Joined(b) \in Nat
<1>1. b[1] \in Part
  OBVIOUS
<1>2. b[1].no \in Nat
  BY <1>1 DEF Part
<1> QED
  BY <1>2 DEF Joined

(* Handling a message, by its kind.                                        *)
LEMMA Handled ==
    ASSUME NEW r \in Receiver, NEW p \in Posted
    PROVE  LET g == GotMessage(r, p)
               small == AddMessage(r.little, p, LittleLimit)
               old   == IF r.ftLength \in {0, p.total} THEN r.large ELSE <<>>
               full  == AddMessage(old, p, LargeLimit)
           IN  /\ p.kind = "plain" =>
                     Becomes(g, r, r.little, r.large, r.ftLength, Append(r.got, p.no))
               /\ p.kind = "body" => Becomes(g, r, small, r.large, r.ftLength, r.got)
               /\ p.kind = "tail" /\ small = <<>> => g = r
               /\ p.kind = "tail" /\ small # <<>> =>
                     Becomes(g, r, <<>>, r.large, r.ftLength,
                             Append(r.got, Joined(small)))
               /\ p.kind = "big" /\ Filled(full) < p.total =>
                     Becomes(g, r, r.little, full, p.total, r.got)
               /\ p.kind = "big" /\ ~(Filled(full) < p.total) =>
                     Becomes(g, r, r.little, <<>>, 0,
                             IF Filled(full) = p.total
                             THEN Append(r.got, Joined(full)) ELSE r.got)
               /\ p.kind = "cancel" => Becomes(g, r, r.little, <<>>, 0, r.got)
<1> DEFINE g == GotMessage(r, p)
           small == AddMessage(r.little, p, LittleLimit)
           old   == IF r.ftLength \in {0, p.total} THEN r.large ELSE <<>>
           full  == AddMessage(old, p, LargeLimit)
           none  == <<>>
           zero  == 0
<1>1. /\ p \in Part /\ p.no \in Nat /\ p.total \in Nat \ {0}
      /\ none \in Seq(Part) /\ zero \in Nat
  BY DEF Posted, Part
<1>2. /\ r.little \in Seq(Part) /\ r.large \in Seq(Part) /\ r.ftLength \in Nat
      /\ r.got \in Seq(Nat)
  BY ReceiverIs
<1>3. \A q \in Seq(Nat), e \in Nat : Append(q, e) \in Seq(Nat)
  OBVIOUS
<1>4. /\ small \in Seq(Part) /\ full \in Seq(Part)
      /\ small # none => Joined(small) \in Nat
      /\ Filled(full) = p.total => Joined(full) \in Nat
  <2>1. old \in Seq(Part)
    BY <1>1, <1>2
  <2> HIDE DEF old
  <2>2. small \in Seq(Part) /\ full \in Seq(Part)
    BY <1>1, <1>2, <2>1, BufferIs
  <2> HIDE DEF small, full
  <2>3. full = <<>> => Filled(full) = 0
    BY FilledGrows
  <2> QED
    BY <1>1, <2>2, <2>3, JoinedIs
<1>5. ASSUME p.kind = "plain"
      PROVE  Becomes(g, r, r.little, r.large, r.ftLength, Append(r.got, p.no))
  <2> DEFINE q == Append(r.got, p.no)
  <2>1. g = [r EXCEPT !.got = q]
    BY <1>5 DEF GotMessage
  <2>2. q \in Seq(Nat)
    BY <1>1, <1>2, <1>3
  <2> HIDE DEF q, g
  <2>3. Becomes(g, r, r.little, r.large, r.ftLength, q)
    BY <1>1, <2>1, <2>2, ChangedFields
  <2> QED
    BY <2>3 DEF q
<1>6. ASSUME p.kind = "body"
      PROVE  Becomes(g, r, small, r.large, r.ftLength, r.got)
  <2>1. g = [r EXCEPT !.little = small]
    BY <1>6 DEF GotMessage, GotChunkBody
  <2> HIDE DEF small, g
  <2> QED
    BY <1>1, <1>2, <1>4, <2>1, ChangedFields
<1>7. ASSUME p.kind = "tail"
      PROVE  /\ small = none => g = r
             /\ small # none => Becomes(g, r, none, r.large, r.ftLength,
                                         Append(r.got, Joined(small)))
  <2> DEFINE q == Append(r.got, Joined(small))
  <2>1. g = GotChunkTail(r, p)
    BY <1>7 DEF GotMessage
  <2>2. g = IF small = none THEN r
            ELSE [r EXCEPT !.little = none, !.got = q]
    BY <2>1 DEF GotChunkTail
  <2>3. small # none => q \in Seq(Nat)
    BY <1>2, <1>3, <1>4
  <2> HIDE DEF q, g, small, none
  <2>4. small # none => Becomes(g, r, none, r.large, r.ftLength, q)
    BY <1>1, <2>2, <2>3, ChangedFields
  <2> QED
    BY <2>2, <2>4 DEF q
<1>8. ASSUME p.kind = "big"
      PROVE  /\ Filled(full) < p.total => Becomes(g, r, r.little, full, p.total, r.got)
             /\ ~(Filled(full) < p.total) =>
                   Becomes(g, r, r.little, none, zero,
                           IF Filled(full) = p.total
                           THEN Append(r.got, Joined(full)) ELSE r.got)
  <2> DEFINE q == IF Filled(full) = p.total
                  THEN Append(r.got, Joined(full)) ELSE r.got
  <2>1. g = GotBigChunk(r, p)
    BY <1>8 DEF GotMessage
  <2>2. g = IF Filled(full) < p.total
            THEN [r EXCEPT !.large = full, !.ftLength = p.total]
            ELSE [r EXCEPT !.large = none, !.ftLength = zero, !.got = q]
    BY <2>1 DEF GotBigChunk
  <2>3. q \in Seq(Nat)
    BY <1>2, <1>3, <1>4
  <2> HIDE DEF q, full, g, none, zero
  <2>4. Filled(full) < p.total => Becomes(g, r, r.little, full, p.total, r.got)
    BY <1>1, <1>4, <2>2, <1>2, ChangedFields
  <2>5. ~(Filled(full) < p.total) => Becomes(g, r, r.little, none, zero, q)
    BY <1>1, <2>2, <2>3, ChangedFields
  <2> QED
    BY <2>4, <2>5 DEF q
<1>9. ASSUME p.kind = "cancel" PROVE Becomes(g, r, r.little, none, zero, r.got)
  <2>1. g = [r EXCEPT !.large = none, !.ftLength = zero]
    BY <1>9 DEF GotMessage, GotCancelDownload
  <2> HIDE DEF g, none, zero
  <2> QED
    BY <1>1, <1>2, <2>1, ChangedFields
<1> HIDE DEF g, small, full
<1>10. /\ p.kind = "plain" =>
             Becomes(g, r, r.little, r.large, r.ftLength, Append(r.got, p.no))
       /\ p.kind = "body" => Becomes(g, r, small, r.large, r.ftLength, r.got)
       /\ p.kind = "tail" /\ small = <<>> => g = r
       /\ p.kind = "tail" /\ small # <<>> =>
             Becomes(g, r, <<>>, r.large, r.ftLength, Append(r.got, Joined(small)))
       /\ p.kind = "big" /\ Filled(full) < p.total =>
             Becomes(g, r, r.little, full, p.total, r.got)
       /\ p.kind = "big" /\ ~(Filled(full) < p.total) =>
             Becomes(g, r, r.little, <<>>, 0,
                     IF Filled(full) = p.total
                     THEN Append(r.got, Joined(full)) ELSE r.got)
       /\ p.kind = "cancel" => Becomes(g, r, r.little, <<>>, 0, r.got)
  BY <1>5, <1>6, <1>7, <1>8, <1>9
<1> QED
  BY <1>10 DEF g, small, full

(* Handling a message leaves a receiver, and it depends on the buffers     *)
(* only.                                                                   *)
LEMMA HandledIs ==
    ASSUME NEW r \in Receiver, NEW p \in Posted
    PROVE  /\ GotMessage(r, p) \in Receiver
           /\ GotMessage(r, p).step = r.step /\ GotMessage(r, p).held = r.held
           /\ \A s \in Receiver : SameBuffers(r, s) =>
                 SameBuffers(GotMessage(r, p), GotMessage(s, p))
<1> DEFINE g(x) == GotMessage(x, p)
           small(x) == AddMessage(x.little, p, LittleLimit)
           old(x)   == IF x.ftLength \in {0, p.total} THEN x.large ELSE <<>>
           full(x)  == AddMessage(old(x), p, LargeLimit)
           last(x)  == IF Filled(full(x)) = p.total
                       THEN Append(x.got, Joined(full(x))) ELSE x.got
           whole(x) == Append(x.got, p.no)
           join(x)  == Append(x.got, Joined(small(x)))
<1>1. p.kind \in {"plain", "body", "tail", "big", "cancel"}
  BY DEF Posted, Part
<1>2. ASSUME NEW x \in Receiver
      PROVE  /\ p.kind = "plain" =>
                   Becomes(g(x), x, x.little, x.large, x.ftLength, whole(x))
             /\ p.kind = "body" => Becomes(g(x), x, small(x), x.large, x.ftLength, x.got)
             /\ p.kind = "tail" /\ small(x) = <<>> => g(x) = x
             /\ p.kind = "tail" /\ small(x) # <<>> =>
                   Becomes(g(x), x, <<>>, x.large, x.ftLength, join(x))
             /\ p.kind = "big" /\ Filled(full(x)) < p.total =>
                   Becomes(g(x), x, x.little, full(x), p.total, x.got)
             /\ p.kind = "big" /\ ~(Filled(full(x)) < p.total) =>
                   Becomes(g(x), x, x.little, <<>>, 0, last(x))
             /\ p.kind = "cancel" => Becomes(g(x), x, x.little, <<>>, 0, x.got)
  BY Handled
<1>3. ASSUME NEW x \in Receiver, NEW y \in Receiver, SameBuffers(x, y)
      PROVE  /\ small(x) = small(y) /\ full(x) = full(y) /\ last(x) = last(y)
             /\ whole(x) = whole(y) /\ join(x) = join(y)
  BY <1>3 DEF SameBuffers
<1> HIDE DEF g, small, full, last, whole, join
<1>4. ASSUME NEW x \in Receiver
      PROVE  g(x) \in Receiver /\ g(x).step = x.step /\ g(x).held = x.held
  BY <1>1, <1>2 DEF Becomes
<1>5. ASSUME NEW s \in Receiver, SameBuffers(r, s)
      PROVE  SameBuffers(g(r), g(s))
  <2>1. /\ small(r) = small(s) /\ full(r) = full(s) /\ last(r) = last(s)
        /\ whole(r) = whole(s) /\ join(r) = join(s) /\ r.little = s.little
        /\ r.large = s.large /\ r.ftLength = s.ftLength /\ r.got = s.got
    BY <1>3, <1>5 DEF SameBuffers
  <2>2. CASE p.kind = "plain"
    BY <1>2, <2>1, <2>2 DEF SameBuffers, Becomes
  <2>3. CASE p.kind = "body"
    BY <1>2, <2>1, <2>3 DEF SameBuffers, Becomes
  <2>4. CASE p.kind = "tail"
    BY <1>2, <2>1, <2>4 DEF SameBuffers, Becomes
  <2>5. CASE p.kind = "big"
    BY <1>2, <2>1, <2>5 DEF SameBuffers, Becomes
  <2>6. CASE p.kind = "cancel"
    BY <1>2, <2>1, <2>6 DEF SameBuffers, Becomes
  <2> QED
    BY <1>1, <2>2, <2>3, <2>4, <2>5, <2>6
<1> QED
  BY <1>4, <1>5 DEF g

(* Messages handled one after the other.                                   *)
LEMMA HandledInTurn ==
    ASSUME NEW r \in Receiver, NEW q \in Seq(Posted), NEW v,
           \A k \in 0 .. Len(q) : v[k] \in Receiver,
           \A k \in 1 .. Len(q) : v[k] = GotMessage(v[k - 1], q[k]),
           SameBuffers(r, v[0])
    PROVE  LET t == Through(GotMessage, r, q)
           IN  /\ t \in Receiver /\ t.step = r.step /\ t.held = r.held
               /\ SameBuffers(t, v[Len(q)])
<1> DEFINE n == Len(q)
           R == {s \in Receiver : s.step = r.step /\ s.held = r.held}
           Def(f) == [k \in 0 .. n |-> IF k = 0 THEN r ELSE GotMessage(f[k - 1], q[k])]
           up == CHOOSE f : f = Def(f)
           step == [k \in 1 .. n |-> [s \in R |-> GotMessage(s, q[k])]]
<1>1. n \in Nat /\ \A k \in 1 .. n : q[k] \in Posted
  OBVIOUS
<1>2. Through(GotMessage, r, q) = up[n]
  BY Zenon DEF Through
<1>3. \A s \in R, k \in 1 .. n : GotMessage(s, q[k]) \in R
  BY <1>1, HandledIs
<1>4. r \in R
  OBVIOUS
<1> HIDE DEF n, R
<1>5. step \in [1 .. n -> [R -> R]]
  BY <1>3
<1>6. PICK f \in [0 .. n -> R] : Iterates(f, n, r, step)
  <2> HIDE DEF step
  <2> QED
    BY <1>1, <1>4, <1>5, Iteration
<1>7. f = Def(f)
  <2>1. ASSUME NEW k \in 1 .. n PROVE f[k] = GotMessage(f[k - 1], q[k])
    <3>1. f[k - 1] \in R
      BY <1>1
    <3> QED
      BY <1>6, <3>1 DEF Iterates
  <2>2. \A k \in 0 .. n : f[k] = IF k = 0 THEN r ELSE GotMessage(f[k - 1], q[k])
    BY <1>1, <1>6, <2>1 DEF Iterates
  <2> DEFINE h == Def(f)
  <2>3. \A k \in 0 .. n : f[k] = h[k]
    BY <2>2
  <2>4. f = [k \in 0 .. n |-> f[k]] /\ h = [k \in 0 .. n |-> h[k]]
    OBVIOUS
  <2> HIDE DEF h
  <2>5. f = h
    BY <2>3, <2>4
  <2> QED
    BY <2>5 DEF h
<1>8. up = Def(up)
  <2> HIDE DEF Def
  <2> QED
    BY <1>7, Zenon
<1> HIDE DEF up
<1>9. up[0] = r /\ \A k \in 1 .. n : up[k] = GotMessage(up[k - 1], q[k])
  <2> DEFINE g == Def(up)
  <2>1. \A k \in 0 .. n : g[k] = IF k = 0 THEN r ELSE GotMessage(up[k - 1], q[k])
    OBVIOUS
  <2>2. 0 \in 0 .. n /\ \A k \in 1 .. n : k \in 0 .. n /\ k # 0
    BY <1>1
  <2> HIDE DEF g
  <2>3. up = g
    BY <1>8 DEF g
  <2> QED
    BY <2>1, <2>2, <2>3
<1> DEFINE T == {k \in 0 .. n : up[k] \in R /\ SameBuffers(up[k], v[k])}
<1>10. 0 \in T
  BY <1>1, <1>4, <1>9
<1>11. ASSUME NEW k \in 0 .. n - 1, k \in T PROVE k + 1 \in T
  <2>1. k + 1 \in 1 .. n /\ (k + 1) - 1 = k /\ k + 1 \in 0 .. n /\ k \in 0 .. n
    BY <1>1
  <2>2. up[k] \in R /\ SameBuffers(up[k], v[k]) /\ v[k] \in Receiver
    BY <1>11, <2>1 DEF n
  <2>3. /\ up[k + 1] = GotMessage(up[k], q[k + 1])
        /\ v[k + 1] = GotMessage(v[k], q[k + 1]) /\ q[k + 1] \in Posted
    BY <1>1, <1>9, <2>1 DEF n
  <2>4. up[k + 1] \in R
    BY <1>3, <2>1, <2>2, <2>3
  <2>5. SameBuffers(up[k + 1], v[k + 1])
    <3>1. up[k] \in Receiver
      BY <2>2 DEF R
    <3> QED
      BY <2>2, <2>3, <3>1, HandledIs
  <2> QED
    BY <2>1, <2>4, <2>5
<1>12. 0 .. n \subseteq T
  <2> HIDE DEF T
  <2> QED
    BY <1>1, <1>10, <1>11, InductionUpTo
<1>13. up[n] \in R /\ SameBuffers(up[n], v[n])
  BY <1>1, <1>12
<1> QED
  BY <1>2, <1>13 DEF R, n
-----------------------------------------------------------------------------
(* The messages with stamps, as they were posted, and what a receiver      *)
(* becomes that handles them in turn.                                      *)
Told(log, v) ==
    /\ log \in Seq(Posted) /\ v \in [0 .. Len(log) -> Receiver]
    /\ \A k \in 1 .. Len(log) : v[k] = GotMessage(v[k - 1], log[k])

(* A message with a stamp is what was posted under it.                     *)
Stamped(m, log) ==
    /\ m \in [stamp : Nat, part : Part]
    /\ m.stamp \in 0 .. Len(log) - 1 /\ m.part = log[m.stamp + 1]

(* r has handled the messages before r.step, and keeps some that follow.   *)
Hears(r, log, v) ==
    /\ r \in Receiver /\ r.step \in 0 .. Len(log) /\ SameBuffers(r, v[r.step])
    /\ IsFiniteSet(r.held)
    /\ \A w \in r.held : Stamped(w, log) /\ w.stamp > r.step

StampsOf(messages) == {w.stamp : w \in messages}

(* The greatest of numbers that have a bound.                              *)
LEMMA Greatest ==
    ASSUME NEW S \in SUBSET Nat, S # {}, NEW bound \in Nat, \A n \in S : n <= bound
    PROVE  Max(S) \in S /\ \A n \in S : n <= Max(S)
<1> DEFINE T == {k \in 0 .. bound : bound - k \in S}
<1>1. T \in SUBSET Nat /\ T # {}
  <2>1. PICK n \in S : TRUE
    OBVIOUS
  <2>2. bound - n \in 0 .. bound /\ bound - (bound - n) = n
    BY <2>1
  <2>3. bound - n \in T
    BY <2>1, <2>2
  <2>4. T \in SUBSET Nat
    OBVIOUS
  <2> HIDE DEF T
  <2> QED
    BY <2>3, <2>4
<1>2. PICK k \in T : \A j \in T : k <= j
  <2> HIDE DEF T
  <2> QED
    BY <1>1, LeastElement
<1> DEFINE m == bound - k
<1>3. m \in S /\ \A n \in S : n <= m
  <2>1. m \in S /\ k \in 0 .. bound
    OBVIOUS
  <2>2. ASSUME NEW n \in S PROVE n <= m
    <3>1. bound - n \in 0 .. bound /\ bound - (bound - n) = n
      OBVIOUS
    <3>2. k <= bound - n
      BY <1>2, <3>1
    <3> QED
      BY <2>1, <3>2
  <2> QED
    BY <2>1, <2>2
<1> HIDE DEF m
<1>4. \E x \in S : \A y \in S : x >= y
  <2>1. \A y \in S : m >= y
    BY <1>3
  <2> QED
    BY <1>3, <2>1
<1>5. Max(S) \in S /\ \A y \in S : Max(S) >= y
  BY <1>4 DEF Max
<1> QED
  BY <1>5

(* checkReceived(): the messages that are ready are those whose turn it    *)
(* is, up to one that is missing.                                          *)
LEMMA ReadyIs ==
    ASSUME NEW log, NEW v, NEW r, NEW m, Told(log, v), Hears(r, log, v), Stamped(m, log)
    PROVE  \E last \in r.step .. Len(log) :
              /\ Ready(r, m) = [k \in 1 .. last - r.step |-> log[r.step + k]]
              /\ last \notin StampsOf(r.held \cup {m})
<1> DEFINE L == Len(log)
           a == r.step
           waiting == r.held \cup {m}
           W == StampsOf(waiting)
           c == Cardinality(waiting)
           S == {a} \cup {n \in a + 1 .. a + c : a .. n - 1 \subseteq W}
           last == Max(S)
<1>1. L \in Nat /\ a \in Nat /\ a <= L
  BY DEF Told, Hears
<1>2. \A w \in waiting : Stamped(w, log)
  BY DEF Hears
<1>3. IsFiniteSet(waiting) /\ c \in Nat
  <2>1. IsFiniteSet(waiting)
    BY FS_AddElement DEF Hears
  <2> QED
    BY <2>1, FS_CardinalityType
<1>4. W \subseteq 0 .. L - 1 /\ \A n \in W : \E w \in waiting : w.stamp = n
  BY <1>2 DEF StampsOf, Stamped
<1>5. Ready(r, m) = [k \in 1 .. last - a |-> (CHOOSE w \in waiting : w.stamp = a + k - 1).part]
  <2>1. Cardinality(waiting) = c
    BY DEF Cardinality, Cardinality
  <2> HIDE DEF c
  <2>2. Ready(r, m) =
          [k \in 1 .. Max({a} \cup {n \in a + 1 .. a + Cardinality(waiting) :
                                  a .. n - 1 \subseteq {w.stamp : w \in waiting}}) - a |->
              (CHOOSE w \in waiting : w.stamp = a + k - 1).part]
    BY Zenon DEF Ready
  <2> HIDE DEF a, waiting
  <2> QED
    BY <2>1, <2>2, Zenon DEF StampsOf
<1> HIDE DEF L, a, waiting, W, c
<1>6. last \in S /\ \A n \in S : n <= last
  <2>1. S \in SUBSET Nat /\ a \in S /\ a + c \in Nat /\ \A n \in S : n <= a + c
    BY <1>1, <1>3
  <2> HIDE DEF S
  <2> QED
    BY <2>1, Greatest
<1> HIDE DEF last
<1>7. last \in Nat /\ a <= last /\ \A n \in a .. last - 1 : n \in W
  BY <1>1, <1>3, <1>6
<1>8. last <= L
  <2>1. CASE last = a
    BY <1>1, <2>1
  <2>2. CASE last # a
    <3>1. last - 1 \in W
      BY <1>1, <1>7, <2>2
    <3> QED
      BY <1>1, <1>4, <1>7, <3>1
  <2> QED
    BY <2>1, <2>2
<1>9. last \notin W
  <2> SUFFICES ASSUME last \in W PROVE FALSE
    OBVIOUS
  <2>1. a .. last \subseteq W
    BY <1>1, <1>7
  <2>2. IsFiniteSet(W) /\ Cardinality(W) <= c
    <3> DEFINE f == [w \in waiting |-> w.stamp]
    <3>1. f \in Surjection(waiting, W)
      BY <1>4 DEF Surjection, W, StampsOf
    <3> HIDE DEF f
    <3> QED
      BY <1>3, <3>1, FS_Surjection DEF c
  <2>3. IsFiniteSet(a .. last) /\ Cardinality(a .. last) = last - a + 1
    BY <1>1, <1>7, FS_Interval
  <2>4. last - a + 1 <= Cardinality(W) /\ Cardinality(W) \in Nat
    <3> DEFINE A == a .. last
    <3>1. A \subseteq W /\ Cardinality(A) = last - a + 1
      BY <2>1, <2>3
    <3> HIDE DEF A
    <3>2. Cardinality(A) <= Cardinality(W) /\ Cardinality(W) \in Nat
      BY <2>2, <3>1, FS_Subset, FS_CardinalityType
    <3> QED
      BY <3>1, <3>2
  <2>5. last - a + 1 <= c
    BY <1>1, <1>3, <1>7, <2>2, <2>4
  <2>6. last + 1 \in a + 1 .. a + c /\ a .. (last + 1) - 1 \subseteq W
    BY <1>1, <1>3, <1>7, <2>1, <2>5
  <2>7. last + 1 \in S
    BY <2>6
  <2> QED
    BY <1>6, <1>7, <2>7
<1>10. ASSUME NEW k \in 1 .. last - a
       PROVE  (CHOOSE w \in waiting : w.stamp = a + k - 1).part = log[a + k]
  <2>1. a + k - 1 \in W /\ (a + k - 1) + 1 = a + k
    BY <1>1, <1>7
  <2> DEFINE w == CHOOSE w \in waiting : w.stamp = a + k - 1
  <2>2. w \in waiting /\ w.stamp = a + k - 1
    BY <1>4, <2>1
  <2> HIDE DEF w
  <2>3. w.part = log[a + k]
    BY <1>2, <2>1, <2>2 DEF Stamped
  <2> QED
    BY <2>3 DEF w
<1>11. Ready(r, m) = [k \in 1 .. last - a |-> log[a + k]]
  BY <1>5, <1>10
<1>12. last \in a .. L
  BY <1>1, <1>7, <1>8
<1> QED
  BY <1>9, <1>11, <1>12 DEF a, L, W, waiting

(* A message with a stamp: what is ready is handled, the rest is kept.     *)
LEMMA ReliableIs ==
    ASSUME NEW log, NEW v, NEW r, NEW m, Told(log, v), Hears(r, log, v), Stamped(m, log)
    PROVE  LET t == GotStamped(r, m)
           IN  /\ Hears(t, log, v) /\ t.step >= r.step
               /\ \A n \in StampsOf(r.held \cup {m}) : n >= t.step => n \in StampsOf(t.held)
<1> DEFINE a == r.step
           t == GotStamped(r, m)
<1>1. PICK last \in a .. Len(log) :
         /\ Ready(r, m) = [k \in 1 .. last - a |-> log[a + k]]
         /\ last \notin StampsOf(r.held \cup {m})
  BY ReadyIs
<1>2. /\ log \in Seq(Posted) /\ Len(log) \in Nat /\ \A k \in 1 .. Len(log) : log[k] \in Posted
      /\ a \in Nat /\ last \in Nat /\ a <= last /\ last <= Len(log)
  BY DEF Told, Hears
<1> DEFINE n == last - a
           q == [k \in 1 .. n |-> log[a + k]]
           w == [k \in 0 .. n |-> v[a + k]]
           u == Through(GotMessage, r, q)
           kept == {x \in r.held \cup {m} : x.stamp >= last}
<1>3. q \in Seq(Posted) /\ Len(q) = n /\ n \in Nat
  <2>1. n \in Nat /\ \A k \in 1 .. n : log[a + k] \in Posted
    BY <1>2
  <2> HIDE DEF n
  <2> QED
    BY <2>1
<1>4. /\ u \in Receiver /\ u.step = r.step /\ u.held = r.held
      /\ SameBuffers(u, v[last])
  <2>1. \A k \in 0 .. n : w[k] \in Receiver /\ w[k] = v[a + k]
    BY <1>2, <1>3 DEF Told
  <2>2. ASSUME NEW k \in 1 .. n PROVE w[k] = GotMessage(w[k - 1], q[k])
    <3>0. k \in Nat /\ 1 <= k /\ a + k <= last
      BY <1>2
    <3>1. a + k \in 1 .. Len(log) /\ (a + k) - 1 = a + (k - 1) /\ k - 1 \in 0 .. n
          /\ k \in 0 .. n
      <4> HIDE DEF a
      <4> QED
        BY <1>2, <3>0
    <3>2. v[a + k] = GotMessage(v[a + (k - 1)], log[a + k])
      BY <3>1 DEF Told
    <3>3. w[k] = v[a + k] /\ w[k - 1] = v[a + (k - 1)] /\ q[k] = log[a + k]
      BY <3>1
    <3> QED
      BY <3>2, <3>3
  <2>3. w[0] = v[a] /\ w[n] = v[last] /\ a + 0 = a /\ a + n = last
    BY <1>2, <1>3
  <2>4. r \in Receiver /\ SameBuffers(r, w[0])
    BY <2>3 DEF Hears
  <2>5. q \in Seq(Posted) /\ Len(q) = n
    BY <1>3
  <2> HIDE DEF w, q, u
  <2>6. /\ \A k \in 0 .. Len(q) : w[k] \in Receiver
        /\ \A k \in 1 .. Len(q) : w[k] = GotMessage(w[k - 1], q[k])
    BY <2>1, <2>2, <2>5
  <2>7. w[Len(q)] = v[last]
    BY <2>3, <2>5
  <2> QED
    BY <2>4, <2>5, <2>6, <2>7, HandledInTurn DEF u
<1>5. t = [u EXCEPT !.step = @ + n,
               !.held = {x \in @ \cup {m} : x.stamp >= r.step + n}]
  <2>1. Ready(r, m) = q
    BY <1>1
  <2> HIDE DEF q, n
  <2> QED
    BY <1>3, <2>1, Zenon DEF GotStamped
<1>6. r.step + n = last /\ u.step + n = last
  BY <1>2, <1>4
<1>7. t = [u EXCEPT !.step = last, !.held = kept]
  <2>1. {x \in u.held \cup {m} : x.stamp >= r.step + n} = kept
    BY <1>4, <1>6
  <2> HIDE DEF u, kept, n
  <2> QED
    BY <1>5, <1>6, <2>1
<1>8. \A x \in r.held \cup {m} : Stamped(x, log) /\ x.stamp \in Nat /\ x.stamp # last
  <2>1. \A x \in r.held \cup {m} : Stamped(x, log)
    BY DEF Hears
  <2> QED
    BY <1>1, <2>1 DEF StampsOf, Stamped
<1>9. kept \in SUBSET [stamp : Nat, part : Part]
  BY <1>8 DEF Stamped
<1>10. /\ t \in Receiver /\ t.step = last /\ t.held = kept
       /\ SameBuffers(t, u)
  <2> DEFINE B == Seq(Part)
             H == SUBSET [stamp : Nat, part : Part]
             N == Seq(Nat)
  <2>1. Receiver = [step : Nat, held : H, little : B, large : B, ftLength : Nat, got : N]
    BY DEF Receiver
  <2>2. kept \in H
    BY <1>9
  <2> HIDE DEF B, H, N, u, t, kept
  <2> QED
    BY <1>2, <1>4, <1>7, <2>1, <2>2 DEF SameBuffers
<1>11. IsFiniteSet(kept)
  <2>1. IsFiniteSet(r.held \cup {m})
    BY FS_AddElement DEF Hears
  <2>2. kept \subseteq r.held \cup {m}
    OBVIOUS
  <2> HIDE DEF kept
  <2> QED
    BY <2>1, <2>2, FS_Subset
<1>12. \A x \in kept : Stamped(x, log) /\ x.stamp > last
  BY <1>2, <1>8
<1>13. SameBuffers(t, v[last])
  BY <1>4, <1>10 DEF SameBuffers
<1>14. Hears(t, log, v)
  <2> HIDE DEF t, kept
  <2> QED
    BY <1>2, <1>10, <1>11, <1>12, <1>13 DEF Hears
<1>15. \A x \in StampsOf(r.held \cup {m}) : x >= t.step => x \in StampsOf(t.held)
  <2>1. t.step = last /\ t.held = kept
    BY <1>10
  <2> HIDE DEF t
  <2> QED
    BY <2>1 DEF StampsOf
<1>16. t.step >= r.step
  <2> HIDE DEF t
  <2> QED
    BY <1>2, <1>10
<1> QED
  BY <1>14, <1>15, <1>16 DEF t
-----------------------------------------------------------------------------
(* The stamps of the messages of a datagram.                               *)
StampsIn(d) == {d[j].stamp : j \in 1 .. Len(d)} \ {NoStamp}

(* Every message with a stamp is what was posted under it.                 *)
AsTold(d, log) ==
    /\ d \in Seq(Parcel)
    /\ \A j \in 1 .. Len(d) : d[j].stamp # NoStamp => Stamped(d[j], log)

(* One message of a datagram arrives.                                      *)
Arrival(r, m) == IF m.stamp = NoStamp THEN r ELSE GotStamped(r, m)

(* A datagram arrives: none of its messages is lost.                       *)
LEMMA PacketIs ==
    ASSUME NEW log, NEW v, NEW r, NEW d, Told(log, v), Hears(r, log, v), AsTold(d, log)
    PROVE  LET t == Through(Arrival, r, d)
           IN  /\ Hears(t, log, v) /\ t.step >= r.step
               /\ \A x \in StampsOf(r.held) \cup StampsIn(d) :
                     x >= t.step => x \in StampsOf(t.held)
<1> DEFINE n == Len(d)
           R == {q \in Receiver : Hears(q, log, v)}
           Def(f) == [k \in 0 .. n |-> IF k = 0 THEN r ELSE Arrival(f[k - 1], d[k])]
           up == CHOOSE f : f = Def(f)
           step == [k \in 1 .. n |-> [q \in R |-> Arrival(q, d[k])]]
<1>1. n \in Nat
  BY DEF AsTold
<1>2. Through(Arrival, r, d) = up[n]
  BY Zenon DEF Through
<1>3. r \in R
  BY DEF Hears
<1>4. ASSUME NEW q \in R, NEW k \in 1 .. n
      PROVE  /\ Arrival(q, d[k]) \in R /\ Arrival(q, d[k]).step >= q.step
             /\ \A x \in StampsOf(q.held) \cup ({d[k].stamp} \ {NoStamp}) :
                   x >= Arrival(q, d[k]).step => x \in StampsOf(Arrival(q, d[k]).held)
  <2>1. CASE d[k].stamp = NoStamp
    <3>1. Arrival(q, d[k]) = q
      BY <2>1 DEF Arrival
    <3>2. q.step >= q.step
      BY ReceiverIs
    <3> QED
      BY <2>1, <3>1, <3>2
  <2>2. CASE d[k].stamp # NoStamp
    <3> DEFINE m == d[k]
               t == GotStamped(q, m)
    <3>1. Arrival(q, m) = t
      BY <2>2 DEF Arrival
    <3>2. Stamped(m, log) /\ Hears(q, log, v)
      BY <2>2 DEF AsTold
    <3> HIDE DEF m
    <3>3. /\ Hears(t, log, v) /\ t.step >= q.step
          /\ \A x \in StampsOf(q.held \cup {m}) : x >= t.step => x \in StampsOf(t.held)
      BY <3>2, ReliableIs
    <3>4. t \in Receiver
      BY <3>3 DEF Hears
    <3>5. StampsOf(q.held \cup {m}) = StampsOf(q.held) \cup {m.stamp}
      BY DEF StampsOf
    <3> HIDE DEF t
    <3> QED
      BY <3>1, <3>3, <3>4, <3>5 DEF m
  <2> QED
    BY <2>1, <2>2
<1> HIDE DEF n
<1>5. step \in [1 .. n -> [R -> R]]
  <2> HIDE DEF R
  <2> QED
    BY <1>4
<1> HIDE DEF R
<1>6. PICK f \in [0 .. n -> R] : Iterates(f, n, r, step)
  <2> HIDE DEF step
  <2> QED
    BY <1>1, <1>3, <1>5, Iteration
<1>7. f = Def(f)
  <2>1. ASSUME NEW k \in 1 .. n PROVE f[k] = Arrival(f[k - 1], d[k])
    <3>1. f[k - 1] \in R
      BY <1>1
    <3> QED
      BY <1>6, <3>1 DEF Iterates
  <2>2. \A k \in 0 .. n : f[k] = IF k = 0 THEN r ELSE Arrival(f[k - 1], d[k])
    BY <1>1, <1>6, <2>1 DEF Iterates
  <2> DEFINE h == Def(f)
  <2>3. \A k \in 0 .. n : f[k] = h[k]
    BY <2>2
  <2>4. f = [k \in 0 .. n |-> f[k]] /\ h = [k \in 0 .. n |-> h[k]]
    OBVIOUS
  <2> HIDE DEF h
  <2>5. f = h
    BY <2>3, <2>4
  <2> QED
    BY <2>5 DEF h
<1>8. up = Def(up)
  <2> HIDE DEF Def
  <2> QED
    BY <1>7, Zenon
<1> HIDE DEF up
<1>9. up[0] = r /\ \A k \in 1 .. n : up[k] = Arrival(up[k - 1], d[k])
  <2> DEFINE g == Def(up)
  <2>1. \A k \in 0 .. n : g[k] = IF k = 0 THEN r ELSE Arrival(up[k - 1], d[k])
    OBVIOUS
  <2>2. 0 \in 0 .. n /\ \A k \in 1 .. n : k \in 0 .. n /\ k # 0
    BY <1>1
  <2> HIDE DEF g
  <2>3. up = g
    BY <1>8 DEF g
  <2> QED
    BY <2>1, <2>2, <2>3
<1> DEFINE X(k) == StampsOf(r.held) \cup ({d[j].stamp : j \in 1 .. k} \ {NoStamp})
           Good(k) == /\ up[k] \in R /\ up[k].step >= r.step
                      /\ \A x \in X(k) : x >= up[k].step => x \in StampsOf(up[k].held)
           T == {k \in 0 .. n : Good(k)}
<1>10. \A q \in R : q.step \in Nat
  BY ReceiverIs DEF R
<1>11. 0 \in T
  <2>1. X(0) = StampsOf(r.held)
    OBVIOUS
  <2>2. 0 \in 0 .. n /\ r.step >= r.step
    BY <1>1, <1>3, <1>10
  <2> HIDE DEF X
  <2> QED
    BY <1>3, <1>9, <2>1, <2>2
<1>12. ASSUME NEW k \in 0 .. n - 1, k \in T PROVE k + 1 \in T
  <2>1. k + 1 \in 1 .. n /\ (k + 1) - 1 = k /\ k + 1 \in 0 .. n /\ k \in 0 .. n
    BY <1>1
  <2> DEFINE q == up[k]
             t == up[k + 1]
  <2>2. q \in R /\ q.step >= r.step /\ \A x \in X(k) : x >= q.step => x \in StampsOf(q.held)
    BY <1>12
  <2>3. t = Arrival(q, d[k + 1])
    BY <1>9, <2>1
  <2> HIDE DEF q, t
  <2>4. /\ t \in R /\ t.step >= q.step
        /\ \A x \in StampsOf(q.held) \cup ({d[k + 1].stamp} \ {NoStamp}) :
              x >= t.step => x \in StampsOf(t.held)
    BY <1>4, <2>1, <2>2, <2>3
  <2>5. X(k + 1) \subseteq X(k) \cup ({d[k + 1].stamp} \ {NoStamp})
    <3>1. \A j \in 1 .. k + 1 : j \in 1 .. k \/ j = k + 1
      BY <2>1
    <3> QED
      BY <3>1
  <2>6. X(k) \subseteq Nat
    <3>1. StampsOf(r.held) \subseteq Nat
      BY DEF Hears, Stamped, StampsOf
    <3>2. \A j \in 1 .. k : j \in 1 .. Len(d)
      BY <2>1 DEF n
    <3>3. \A j \in 1 .. k : d[j].stamp \in Nat \cup {NoStamp}
      <4>1. \A j \in 1 .. Len(d) : d[j] \in Parcel
        BY DEF AsTold
      <4>2. \A m \in Parcel : m.stamp \in Nat \cup {NoStamp}
        BY DEF Parcel
      <4> QED
        BY <3>2, <4>1, <4>2
    <3> QED
      BY <3>1, <3>3
  <2> HIDE DEF X
  <2>7. q.step \in Nat /\ t.step \in Nat /\ r.step \in Nat
    BY <1>3, <1>10, <2>2, <2>4
  <2>8. t.step >= r.step
    BY <2>2, <2>4, <2>7
  <2>9. ASSUME NEW x \in X(k + 1), x >= t.step PROVE x \in StampsOf(t.held)
    <3>1. CASE x \in X(k)
      <4>1. x \in Nat /\ x >= q.step
        BY <2>4, <2>6, <2>7, <2>9, <3>1
      <4> QED
        BY <2>2, <2>4, <2>9, <3>1, <4>1
    <3>2. CASE x \in {d[k + 1].stamp} \ {NoStamp}
      BY <2>4, <2>9, <3>2
    <3> QED
      BY <2>5, <3>1, <3>2
  <2>10. Good(k + 1)
    BY <2>4, <2>8, <2>9 DEF t
  <2> QED
    BY <2>1, <2>10
<1>13. 0 .. n \subseteq T
  <2> HIDE DEF T
  <2> QED
    BY <1>1, <1>11, <1>12, InductionUpTo
<1>14. Good(n)
  <2> HIDE DEF Good
  <2> QED
    BY <1>1, <1>13
<1>15. X(n) = StampsOf(r.held) \cup StampsIn(d)
  BY DEF StampsIn, n
<1> HIDE DEF X
<1> QED
  BY <1>2, <1>14, <1>15 DEF R
-----------------------------------------------------------------------------
(* The lengths of the messages of a datagram, each with its own byte.      *)
SizeOf(d) == Through(LAMBDA n, m : n + 1 + Size(m), 0, d)

(* The length of a message is a number.                                    *)
LEMMA SizeIs ==
    ASSUME NEW m \in Parcel
    PROVE  Size(m) \in Nat
<1>1. m.part \in Part
  BY DEF Parcel
<1>2. /\ m.part.data \in Nat
      /\ m.part.kind \in {"plain", "body", "tail", "big", "cancel"}
  BY <1>1 DEF Part
<1>3. Header(m.part) \in Nat
  BY <1>2 DEF Header
<1> QED
  BY <1>2, <1>3 DEF Size

(* The length of a datagram is a sum.                                      *)
LEMMA SizeOfIs ==
    ASSUME NEW b \in Seq(Parcel)
    PROVE  \E f \in [0 .. Len(b) -> Nat] :
              /\ Adds(f, Len(b), [k \in 1 .. Len(b) |-> 1 + Size(b[k])])
              /\ SizeOf(b) = f[Len(b)]
<1> DEFINE n == Len(b)
           w == [k \in 1 .. n |-> 1 + Size(b[k])]
           Def(f) == [k \in 0 .. n |-> IF k = 0 THEN 0 ELSE f[k - 1] + 1 + Size(b[k])]
           up == CHOOSE f : f = Def(f)
           step == [k \in 1 .. n |-> [e \in Nat |-> e + 1 + Size(b[k])]]
<1>1. n \in Nat
  OBVIOUS
<1>2. SizeOf(b) = up[n]
  BY Zenon DEF SizeOf, Through
<1>3. \A k \in 1 .. n : Size(b[k]) \in Nat
  <2>1. \A k \in 1 .. n : b[k] \in Parcel
    OBVIOUS
  <2> QED
    BY <2>1, SizeIs
<1> HIDE DEF n
<1>4. step \in [1 .. n -> [Nat -> Nat]]
  BY <1>3
<1>5. PICK f \in [0 .. n -> Nat] : Iterates(f, n, 0, step)
  <2> HIDE DEF step
  <2> QED
    BY <1>1, <1>4, Iteration
<1>6. f[0] = 0 /\ \A k \in 1 .. n : f[k] = f[k - 1] + 1 + Size(b[k])
  <2>1. ASSUME NEW k \in 1 .. n PROVE f[k] = f[k - 1] + 1 + Size(b[k])
    <3>1. f[k - 1] \in Nat
      BY <1>1
    <3> QED
      BY <1>5, <3>1 DEF Iterates
  <2> QED
    BY <1>5, <2>1 DEF Iterates
<1>7. f = Def(f)
  BY <1>1, <1>6
<1>8. up = Def(up)
  <2> HIDE DEF Def
  <2> QED
    BY <1>7, Zenon
<1> HIDE DEF up
<1>9. up[0] = 0 /\ \A k \in 1 .. n : up[k] = up[k - 1] + 1 + Size(b[k])
  <2> DEFINE g == Def(up)
  <2>1. \A k \in 0 .. n : g[k] = IF k = 0 THEN 0 ELSE up[k - 1] + 1 + Size(b[k])
    OBVIOUS
  <2>2. 0 \in 0 .. n /\ \A k \in 1 .. n : k \in 0 .. n /\ k # 0
    BY <1>1
  <2> HIDE DEF g
  <2>3. up = g
    BY <1>8 DEF g
  <2> QED
    BY <2>1, <2>2, <2>3
<1> DEFINE T == {k \in 0 .. n : up[k] = f[k]}
<1>10. 0 \in T
  BY <1>1, <1>6, <1>9
<1>11. ASSUME NEW k \in 0 .. n - 1, k \in T PROVE k + 1 \in T
  <2>1. k + 1 \in 1 .. n /\ (k + 1) - 1 = k /\ k + 1 \in 0 .. n
    BY <1>1
  <2>2. up[k + 1] = up[k] + 1 + Size(b[k + 1]) /\ f[k + 1] = f[k] + 1 + Size(b[k + 1])
    BY <1>6, <1>9, <2>1
  <2> QED
    BY <1>11, <2>1, <2>2
<1>12. 0 .. n \subseteq T
  <2> HIDE DEF T
  <2> QED
    BY <1>1, <1>10, <1>11, InductionUpTo
<1>13. up[n] = f[n]
  BY <1>1, <1>12
<1>14. Adds(f, n, w)
  <2>1. \A k \in 1 .. n : w[k] = 1 + Size(b[k]) /\ k - 1 \in 0 .. n
    BY <1>1
  <2> HIDE DEF w
  <2>2. ASSUME NEW k \in 1 .. n PROVE f[k] = f[k - 1] + w[k]
    <3>1. f[k - 1] \in Nat /\ Size(b[k]) \in Nat
      BY <1>3, <2>1
    <3> DEFINE e == f[k - 1]
               s == Size(b[k])
    <3>2. f[k] = e + 1 + s /\ w[k] = 1 + s
      BY <1>6, <2>1
    <3>3. e \in Nat /\ s \in Nat
      BY <3>1
    <3> HIDE DEF e, s
    <3>4. f[k] = e + w[k]
      BY <3>2, <3>3
    <3> QED
      BY <3>4 DEF e
  <2> QED
    BY <1>6, <2>2 DEF Adds
<1> QED
  BY <1>2, <1>13, <1>14 DEF n

(* A message more makes a datagram longer by itself and its own byte.      *)
LEMMA SizeOfGrows ==
    /\ SizeOf(<<>>) = 0
    /\ \A b \in Seq(Parcel), p \in Parcel :
          SizeOf(b) \in Nat /\ SizeOf(Append(b, p)) = SizeOf(b) + 1 + Size(p)
<1>1. SizeOf(<<>>) = 0
  <2> DEFINE b == <<>>
  <2>1. b \in Seq(Parcel) /\ Len(b) = 0
    OBVIOUS
  <2> HIDE DEF b
  <2>2. PICK f \in [0 .. Len(b) -> Nat] :
           /\ Adds(f, Len(b), [k \in 1 .. Len(b) |-> 1 + Size(b[k])])
           /\ SizeOf(b) = f[Len(b)]
    BY <2>1, SizeOfIs
  <2>3. f[0] = 0
    BY <2>2 DEF Adds
  <2> QED
    BY <2>1, <2>2, <2>3 DEF b
<1>2. ASSUME NEW b \in Seq(Parcel), NEW p \in Parcel
      PROVE  SizeOf(b) \in Nat /\ SizeOf(Append(b, p)) = SizeOf(b) + 1 + Size(p)
  <2> DEFINE n == Len(b)
             c == Append(b, p)
             w == [k \in 1 .. n |-> 1 + Size(b[k])]
             x == [k \in 1 .. n + 1 |-> 1 + Size(c[k])]
  <2>1. /\ n \in Nat /\ c \in Seq(Parcel) /\ Len(c) = n + 1 /\ c[n + 1] = p
        /\ \A k \in 1 .. n : c[k] = b[k]
    OBVIOUS
  <2> HIDE DEF n, c
  <2>2. PICK f \in [0 .. n -> Nat] : Adds(f, n, w) /\ SizeOf(b) = f[n]
    BY SizeOfIs DEF n
  <2>3. PICK g \in [0 .. n + 1 -> Nat] : Adds(g, n + 1, x) /\ SizeOf(c) = g[n + 1]
    <3>1. \E g \in [0 .. Len(c) -> Nat] :
             /\ Adds(g, Len(c), [k \in 1 .. Len(c) |-> 1 + Size(c[k])])
             /\ SizeOf(c) = g[Len(c)]
      BY <2>1, SizeOfIs
    <3> QED
      BY <2>1, <3>1
  <2>4. Adds(g, n, w)
    <3>1. ASSUME NEW k \in 1 .. n PROVE g[k] = g[k - 1] + w[k]
      <4>1. k \in 1 .. n + 1 /\ x[k] = w[k]
        <5>1. n \in Nat
          BY <2>1
        <5>2. k \in 1 .. n + 1
          BY <5>1
        <5>3. c[k] = b[k]
          BY <2>1
        <5> QED
          BY <5>2, <5>3
      <4> HIDE DEF w, x
      <4> QED
        BY <2>3, <4>1 DEF Adds
    <3> QED
      BY <2>3, <3>1 DEF Adds
  <2>5. g[n] = f[n]
    <3> HIDE DEF w
    <3> QED
      BY <2>1, <2>2, <2>4, OneSum
  <2>6. g[n + 1] = g[n] + (1 + Size(p))
    <3>1. n + 1 \in 1 .. n + 1 /\ (n + 1) - 1 = n
      BY <2>1
    <3>2. x[n + 1] = 1 + Size(p)
      BY <2>1, <3>1
    <3> HIDE DEF x
    <3> QED
      BY <2>3, <3>1, <3>2 DEF Adds
  <2>7. f[n] \in Nat /\ Size(p) \in Nat
    BY <2>1, SizeIs
  <2> DEFINE e == f[n]
             s == Size(p)
  <2>8. SizeOf(b) = e /\ SizeOf(c) = e + (1 + s) /\ e \in Nat /\ s \in Nat
    BY <2>2, <2>3, <2>5, <2>6, <2>7
  <2> HIDE DEF e, s
  <2>9. SizeOf(b) \in Nat /\ SizeOf(c) = SizeOf(b) + 1 + s
    BY <2>8
  <2> QED
    BY <2>9 DEF c, s
<1> QED
  BY <1>1, <1>2
-----------------------------------------------------------------------------
(* A message that can be sent again in a datagram of its own.              *)
Carried(m, log) ==
    /\ m \in Parcel /\ Size(m) <= ChunkSize + 12
    /\ m.stamp # NoStamp => Stamped(m, log)

(* A datagram that can be under way.                                       *)
OnWire(d, log) ==
    /\ d \in Seq(Parcel) /\ \A j \in 1 .. Len(d) : Carried(d[j], log)
    /\ Len(d) # 1 => /\ 2 + SizeOf(d) <= PacketMax
                     /\ \A j \in 1 .. Len(d) : Size(d[j]) < 256

(* sendClustered(): the datagrams that are full, and the one it fills.     *)
Flushed(s) == IF s.open = <<>> THEN s.out ELSE Append(s.out, s.open)

Filling(s, m) ==
    IF Size(m) > ItemMax THEN [s EXCEPT !.out = Append(@, <<m>>)]
    ELSE IF s.len + Size(m) > ChunkSize + 12
         THEN [out |-> Flushed(s), open |-> <<m>>, len |-> 3 + Size(m)]
         ELSE [s EXCEPT !.open = Append(@, m), !.len = @ + 1 + Size(m)]

Packing == [out : Seq(Seq(Parcel)), open : Seq(Parcel), len : Nat]

Packed(s, log) ==
    /\ s \in Packing
    /\ \A i \in 1 .. Len(s.out) : OnWire(s.out[i], log)
    /\ OnWire(s.open, log) /\ s.len = 2 + SizeOf(s.open)
    /\ \A j \in 1 .. Len(s.open) : Size(s.open[j]) < 256

(* The stamps that are in some of the datagrams.                           *)
StampsOut(out) == UNION {StampsIn(out[i]) : i \in 1 .. Len(out)}

(* The stamps in what is put together.                                     *)
LEMMA StampsJoin ==
    /\ \A d \in Seq(Parcel), m \in Parcel :
          StampsIn(Append(d, m)) = StampsIn(d) \cup ({m.stamp} \ {NoStamp})
    /\ \A m \in Parcel : StampsIn(<<m>>) = {m.stamp} \ {NoStamp}
    /\ StampsIn(<<>>) = {}
    /\ \A out \in Seq(Seq(Parcel)), d \in Seq(Parcel) :
          StampsOut(Append(out, d)) = StampsOut(out) \cup StampsIn(d)
<1>1. ASSUME NEW d \in Seq(Parcel), NEW m \in Parcel
      PROVE  StampsIn(Append(d, m)) = StampsIn(d) \cup ({m.stamp} \ {NoStamp})
  <2> DEFINE e == Append(d, m)
             n == Len(d)
  <2>1. /\ n \in Nat /\ Len(e) = n + 1 /\ e[n + 1] = m
        /\ \A j \in 1 .. n : e[j] = d[j]
    OBVIOUS
  <2>2. \A j : j \in 1 .. n + 1 <=> j \in 1 .. n \/ j = n + 1
    BY <2>1
  <2> HIDE DEF e, n
  <2>3. \A x : x \in {e[j].stamp : j \in 1 .. n + 1} <=> x \in {d[j].stamp : j \in 1 .. n} \/ x = m.stamp
    BY <2>1, <2>2
  <2>4. StampsIn(e) = {e[j].stamp : j \in 1 .. n + 1} \ {NoStamp}
        /\ StampsIn(d) = {d[j].stamp : j \in 1 .. n} \ {NoStamp}
    BY <2>1 DEF StampsIn, n
  <2>5. StampsIn(e) = StampsIn(d) \cup ({m.stamp} \ {NoStamp})
    BY <2>3, <2>4
  <2> QED
    BY <2>5 DEF e
<1>2. ASSUME NEW m \in Parcel PROVE StampsIn(<<m>>) = {m.stamp} \ {NoStamp}
  <2>1. Len(<<m>>) = 1 /\ <<m>>[1] = m /\ 1 .. 1 = {1}
    OBVIOUS
  <2> QED
    BY <2>1 DEF StampsIn
<1>3. StampsIn(<<>>) = {}
  <2>1. 1 .. Len(<<>>) = {}
    OBVIOUS
  <2> QED
    BY <2>1 DEF StampsIn
<1>4. ASSUME NEW out \in Seq(Seq(Parcel)), NEW d \in Seq(Parcel)
      PROVE  StampsOut(Append(out, d)) = StampsOut(out) \cup StampsIn(d)
  <2> DEFINE e == Append(out, d)
             n == Len(out)
  <2>1. /\ n \in Nat /\ Len(e) = n + 1 /\ e[n + 1] = d
        /\ \A j \in 1 .. n : e[j] = out[j]
    OBVIOUS
  <2>2. \A j : j \in 1 .. n + 1 <=> j \in 1 .. n \/ j = n + 1
    BY <2>1
  <2> HIDE DEF e, n
  <2>3. StampsOut(e) = UNION {StampsIn(e[i]) : i \in 1 .. n + 1}
        /\ StampsOut(out) = UNION {StampsIn(out[i]) : i \in 1 .. n}
    BY <2>1 DEF StampsOut, n
  <2>4. \A x : x \in StampsOut(e) <=> x \in StampsOut(out) \/ x \in StampsIn(d)
    BY <2>1, <2>2, <2>3
  <2>5. StampsOut(e) = StampsOut(out) \cup StampsIn(d)
    BY <2>4
  <2> QED
    BY <2>5 DEF e
<1> QED
  BY <1>1, <1>2, <1>3, <1>4

(* A message by itself can be under way.                                   *)
LEMMA AloneOnWire ==
    ASSUME NEW log, NEW m, Carried(m, log)
    PROVE  OnWire(<<m>>, log) /\ SizeOf(<<m>>) = 1 + Size(m)
<1> DEFINE d == <<m>>
<1>1. m \in Parcel
  BY DEF Carried
<1>2. d \in Seq(Parcel) /\ Len(d) = 1 /\ \A j \in 1 .. 1 : d[j] = m
  BY <1>1
<1>3. SizeOf(<<m>>) = 1 + Size(m)
  <2> DEFINE none == <<>>
             s == Size(m)
  <2>1. none \in Seq(Parcel) /\ <<m>> = Append(none, m)
    OBVIOUS
  <2>2. SizeOf(none) = 0
    BY SizeOfGrows
  <2>3. s \in Nat
    BY <1>1, SizeIs
  <2> HIDE DEF none
  <2>4. SizeOf(Append(none, m)) = SizeOf(none) + 1 + s
    BY <1>1, <2>1, SizeOfGrows
  <2> HIDE DEF s
  <2>5. SizeOf(Append(none, m)) = 1 + s
    BY <2>2, <2>3, <2>4
  <2> QED
    BY <2>1, <2>5 DEF s
<1> HIDE DEF d
<1>4. OnWire(d, log)
  BY <1>2 DEF OnWire
<1> QED
  BY <1>3, <1>4 DEF d

(* A message more among those of a cluster.                                *)
LEMMA PackedMore ==
    ASSUME NEW log, NEW s, NEW m, Packed(s, log), Carried(m, log)
    PROVE  /\ Packed(Filling(s, m), log)
           /\ StampsOut(s.out) \cup StampsIn(s.open) \cup ({m.stamp} \ {NoStamp})
                 \subseteq StampsOut(Filling(s, m).out) \cup StampsIn(Filling(s, m).open)
<1> DEFINE z == Size(m)
           c == ChunkSize + 12
           t == Filling(s, m)
           alone == <<m>>
           longer == Append(s.open, m)
           more == Append(s.out, alone)
           flush == Flushed(s)
           sum == SizeOf(s.open)
<1>1. /\ m \in Parcel /\ z \in Nat /\ z <= c /\ c \in Nat
      /\ ItemMax \in Nat /\ ItemMax < 256 /\ c + 1 <= PacketMax /\ PacketMax \in Nat
  <2>1. {ChunkSize, ItemMax, PacketMax} \subseteq Nat
    BY NetAssumption
  <2>2. ItemMax < 256 /\ ChunkSize + 13 <= PacketMax
    BY NetAssumption
  <2> QED
    BY <2>1, <2>2, SizeIs DEF Carried
<1>2. /\ s \in [out : Seq(Seq(Parcel)), open : Seq(Parcel), len : Nat]
      /\ s.out \in Seq(Seq(Parcel)) /\ s.open \in Seq(Parcel) /\ s.len \in Nat
  BY DEF Packed, Packing
<1>3. /\ \A i \in 1 .. Len(s.out) : OnWire(s.out[i], log)
      /\ OnWire(s.open, log) /\ s.len = 2 + sum
      /\ \A j \in 1 .. Len(s.open) : Size(s.open[j]) < 256
  BY DEF Packed
<1>4. OnWire(alone, log) /\ alone \in Seq(Parcel) /\ SizeOf(alone) = 1 + z
      /\ Len(alone) = 1 /\ \A j \in 1 .. 1 : alone[j] = m
  BY <1>1, AloneOnWire
<1>5. sum \in Nat /\ SizeOf(longer) = sum + 1 + z /\ longer \in Seq(Parcel)
      /\ Len(longer) = Len(s.open) + 1
      /\ \A j \in 1 .. Len(longer) : (j \in 1 .. Len(s.open) /\ longer[j] = s.open[j]) \/ longer[j] = m
  <2>1. sum \in Nat /\ SizeOf(longer) = sum + 1 + z
    BY <1>1, <1>2, SizeOfGrows
  <2>2. longer \in Seq(Parcel) /\ Len(longer) = Len(s.open) + 1
        /\ \A j \in 1 .. Len(longer) : (j \in 1 .. Len(s.open) /\ longer[j] = s.open[j]) \/ longer[j] = m
    BY <1>1, <1>2
  <2> QED
    BY <2>1, <2>2
<1>6. /\ more \in Seq(Seq(Parcel)) /\ \A i \in 1 .. Len(more) : OnWire(more[i], log)
  <2>1. \A i \in 1 .. Len(more) : (i \in 1 .. Len(s.out) /\ more[i] = s.out[i]) \/ more[i] = alone
    <3> DEFINE o == s.out
    <3>1. o \in Seq(Seq(Parcel)) /\ alone \in Seq(Parcel)
      BY <1>2, <1>4
    <3> HIDE DEF o, alone
    <3>2. Len(o) \in Nat
      BY <3>1
    <3>3. /\ Len(Append(o, alone)) = Len(o) + 1 /\ Append(o, alone)[Len(o) + 1] = alone
          /\ \A i \in 1 .. Len(o) : Append(o, alone)[i] = o[i]
      BY <3>1, AppendKeeps
    <3>4. \A i \in 1 .. Len(Append(o, alone)) :
             (i \in 1 .. Len(o) /\ Append(o, alone)[i] = o[i]) \/ Append(o, alone)[i] = alone
      BY <3>2, <3>3
    <3> QED
      BY <3>4 DEF o
  <2> HIDE DEF alone
  <2>2. more \in Seq(Seq(Parcel))
    BY <1>2, <1>4
  <2> HIDE DEF more
  <2> QED
    BY <1>3, <1>4, <2>1, <2>2
<1>7. /\ flush \in Seq(Seq(Parcel)) /\ \A i \in 1 .. Len(flush) : OnWire(flush[i], log)
      /\ StampsOut(flush) = StampsOut(s.out) \cup StampsIn(s.open)
  <2>1. CASE s.open = <<>>
    <3>1. flush = s.out
      BY <2>1 DEF Flushed
    <3>2. StampsIn(s.open) = {}
      BY <2>1, StampsJoin
    <3> QED
      BY <1>2, <1>3, <3>1, <3>2
  <2>2. CASE s.open # <<>>
    <3>1. flush = Append(s.out, s.open)
      BY <2>2 DEF Flushed
    <3>2. \A i \in 1 .. Len(flush) : (i \in 1 .. Len(s.out) /\ flush[i] = s.out[i]) \/ flush[i] = s.open
      BY <1>2, <3>1
    <3>3. flush \in Seq(Seq(Parcel)) /\ StampsOut(flush) = StampsOut(s.out) \cup StampsIn(s.open)
      BY <1>2, <3>1, StampsJoin
    <3> HIDE DEF flush
    <3> QED
      BY <1>3, <3>2, <3>3
  <2> QED
    BY <2>1, <2>2
<1>8. /\ StampsIn(longer) = StampsIn(s.open) \cup ({m.stamp} \ {NoStamp})
      /\ StampsIn(alone) = {m.stamp} \ {NoStamp}
      /\ StampsOut(more) = StampsOut(s.out) \cup StampsIn(alone)
  <2>1. StampsIn(longer) = StampsIn(s.open) \cup ({m.stamp} \ {NoStamp})
        /\ StampsIn(alone) = {m.stamp} \ {NoStamp}
    BY <1>1, <1>2, StampsJoin
  <2> HIDE DEF alone
  <2>2. StampsOut(more) = StampsOut(s.out) \cup StampsIn(alone)
    BY <1>2, <1>4, StampsJoin
  <2> QED
    BY <2>1, <2>2
<1>9. t = IF z > ItemMax THEN [s EXCEPT !.out = more]
          ELSE IF s.len + z > c THEN [out |-> flush, open |-> alone, len |-> 3 + z]
          ELSE [s EXCEPT !.open = longer, !.len = s.len + 1 + z]
  BY <1>2, Zenon DEF Filling
<1> HIDE DEF t, z, c, alone, longer, more, flush, sum
<1>10. CASE z > ItemMax
  <2>1. t \in Packing /\ t.out = more /\ t.open = s.open /\ t.len = s.len
    BY <1>2, <1>6, <1>9, <1>10 DEF Packing
  <2>2. Packed(t, log)
    BY <1>3, <1>6, <2>1 DEF Packed, sum
  <2> QED
    BY <1>8, <2>1, <2>2 DEF t
<1>11. CASE ~(z > ItemMax) /\ s.len + z > c
  <2>1. t \in Packing /\ t.out = flush /\ t.open = alone /\ t.len = 3 + z
    <3>1. t = [out |-> flush, open |-> alone, len |-> 3 + z] /\ 3 + z \in Nat
      BY <1>1, <1>9, <1>11
    <3> QED
      BY <1>4, <1>7, <3>1 DEF Packing
  <2>2. 3 + z = 2 + (1 + z) /\ z < 256
    BY <1>1, <1>11
  <2>3. \A j \in 1 .. Len(alone) : Size(alone[j]) < 256
    BY <1>4, <2>2 DEF z
  <2>4. Packed(t, log)
    BY <1>4, <1>7, <2>1, <2>2, <2>3 DEF Packed
  <2> QED
    BY <1>7, <1>8, <2>1, <2>4 DEF t
<1>12. CASE ~(z > ItemMax) /\ ~(s.len + z > c)
  <2>1. s.len + 1 + z \in Nat /\ z < 256 /\ s.len + 1 + z = 2 + (sum + 1 + z)
        /\ 2 + (sum + 1 + z) <= PacketMax
    BY <1>1, <1>2, <1>3, <1>5, <1>12
  <2>2. t \in Packing /\ t.out = s.out /\ t.open = longer /\ t.len = s.len + 1 + z
    <3>1. t = [s EXCEPT !.open = longer, !.len = s.len + 1 + z]
      BY <1>9, <1>12
    <3> QED
      BY <1>2, <1>5, <2>1, <3>1 DEF Packing
  <2>3. \A j \in 1 .. Len(longer) : Size(longer[j]) < 256 /\ Carried(longer[j], log)
    BY <1>3, <1>5, <2>1 DEF OnWire, z
  <2>4. OnWire(longer, log)
    BY <1>5, <2>1, <2>3 DEF OnWire
  <2>5. Packed(t, log)
    BY <1>3, <1>5, <2>1, <2>2, <2>3, <2>4 DEF Packed
  <2> QED
    BY <1>8, <2>2, <2>5 DEF t
<1> QED
  BY <1>10, <1>11, <1>12

(* sendClustered(): the datagrams fit, and they hold every message.        *)
LEMMA ClusterIs ==
    ASSUME NEW log, NEW ms \in Seq(Parcel), \A k \in 1 .. Len(ms) : Carried(ms[k], log)
    PROVE  LET out == SendClustered(ms)
           IN  /\ out \in Seq(Seq(Parcel)) /\ \A i \in 1 .. Len(out) : OnWire(out[i], log)
               /\ StampsIn(ms) \subseteq StampsOut(out)
<1> DEFINE n == Len(ms)
           first == [out |-> <<>>, open |-> <<>>, len |-> 2]
           R == {s \in Packing : Packed(s, log)}
           Def(f) == [k \in 0 .. n |-> IF k = 0 THEN first ELSE Filling(f[k - 1], ms[k])]
           up == CHOOSE f : f = Def(f)
           step == [k \in 1 .. n |-> [s \in R |-> Filling(s, ms[k])]]
<1>1. n \in Nat /\ \A k \in 1 .. n : ms[k] \in Parcel
  OBVIOUS
<1>2. SendClustered(ms) = Flushed(up[n])
  <2>1. SendClustered(ms) = Flushed(Through(Filling, first, ms))
    BY DEF SendClustered, Datagrams, Flushed, Filling
  <2>2. Through(Filling, first, ms) = up[n]
    BY Zenon DEF Through
  <2> QED
    BY <2>1, <2>2
<1>3. first \in R /\ StampsOut(first.out) = {}
  <2> DEFINE none == <<>>
             nothing == <<>>
             a == [out |-> nothing, open |-> none, len |-> 2]
  <2>1. none \in Seq(Parcel) /\ nothing \in Seq(Seq(Parcel)) /\ Len(none) = 0 /\ Len(nothing) = 0
        /\ 1 .. 0 = {}
    OBVIOUS
  <2>2. SizeOf(none) = 0
    BY SizeOfGrows
  <2>3. PacketMax \in Nat /\ 2 <= PacketMax
    <3>1. {ChunkSize, PacketMax} \subseteq Nat /\ ChunkSize + 13 <= PacketMax
      BY NetAssumption
    <3> QED
      BY <3>1
  <2> HIDE DEF none, nothing
  <2>4. OnWire(none, log)
    BY <2>1, <2>2, <2>3 DEF OnWire
  <2>5. a \in Packing /\ a.out = nothing /\ a.open = none /\ a.len = 2
    BY <2>1 DEF Packing
  <2>6. Packed(a, log)
    BY <2>1, <2>2, <2>4, <2>5 DEF Packed
  <2>7. StampsOut(a.out) = {}
    BY <2>1, <2>5 DEF StampsOut
  <2> QED
    BY <2>5, <2>6, <2>7 DEF none, nothing
<1>4. ASSUME NEW s \in R, NEW k \in 1 .. n
      PROVE  /\ Filling(s, ms[k]) \in R
             /\ StampsOut(s.out) \cup StampsIn(s.open) \cup ({ms[k].stamp} \ {NoStamp})
                   \subseteq StampsOut(Filling(s, ms[k]).out) \cup StampsIn(Filling(s, ms[k]).open)
  <2> DEFINE m == ms[k]
  <2>1. Packed(s, log) /\ Carried(m, log)
    OBVIOUS
  <2> HIDE DEF m
  <2>2. /\ Packed(Filling(s, m), log)
        /\ StampsOut(s.out) \cup StampsIn(s.open) \cup ({m.stamp} \ {NoStamp})
              \subseteq StampsOut(Filling(s, m).out) \cup StampsIn(Filling(s, m).open)
    BY <2>1, PackedMore
  <2>3. Filling(s, m) \in Packing
    BY <2>2 DEF Packed
  <2> QED
    BY <2>2, <2>3 DEF m
<1> HIDE DEF n, R, first
<1>5. step \in [1 .. n -> [R -> R]]
  BY <1>4
<1>6. PICK f \in [0 .. n -> R] : Iterates(f, n, first, step)
  <2> HIDE DEF step
  <2> QED
    BY <1>1, <1>3, <1>5, Iteration
<1>7. f = Def(f)
  <2>1. ASSUME NEW k \in 1 .. n PROVE f[k] = Filling(f[k - 1], ms[k])
    <3>1. f[k - 1] \in R
      BY <1>1
    <3> QED
      BY <1>6, <3>1 DEF Iterates
  <2>2. \A k \in 0 .. n : f[k] = IF k = 0 THEN first ELSE Filling(f[k - 1], ms[k])
    BY <1>1, <1>6, <2>1 DEF Iterates
  <2> DEFINE h == Def(f)
  <2>3. \A k \in 0 .. n : f[k] = h[k]
    BY <2>2
  <2>4. f = [k \in 0 .. n |-> f[k]] /\ h = [k \in 0 .. n |-> h[k]]
    OBVIOUS
  <2> HIDE DEF h
  <2>5. f = h
    BY <2>3, <2>4
  <2> QED
    BY <2>5 DEF h
<1>8. up = Def(up)
  <2> HIDE DEF Def
  <2> QED
    BY <1>7, Zenon
<1> HIDE DEF up
<1>9. up[0] = first /\ \A k \in 1 .. n : up[k] = Filling(up[k - 1], ms[k])
  <2> DEFINE g == Def(up)
  <2>1. \A k \in 0 .. n : g[k] = IF k = 0 THEN first ELSE Filling(up[k - 1], ms[k])
    OBVIOUS
  <2>2. 0 \in 0 .. n /\ \A k \in 1 .. n : k \in 0 .. n /\ k # 0
    BY <1>1
  <2> HIDE DEF g
  <2>3. up = g
    BY <1>8 DEF g
  <2> QED
    BY <2>1, <2>2, <2>3
<1> DEFINE X(k) == {ms[j].stamp : j \in 1 .. k} \ {NoStamp}
           Y(s) == StampsOut(s.out) \cup StampsIn(s.open)
           T == {k \in 0 .. n : up[k] \in R /\ X(k) \subseteq Y(up[k])}
<1>10. 0 \in T
  <2>1. X(0) = {}
    OBVIOUS
  <2> HIDE DEF X
  <2> QED
    BY <1>1, <1>3, <1>9, <2>1
<1>11. ASSUME NEW k \in 0 .. n - 1, k \in T PROVE k + 1 \in T
  <2>1. k + 1 \in 1 .. n /\ (k + 1) - 1 = k /\ k + 1 \in 0 .. n /\ k \in 0 .. n
    BY <1>1
  <2>2. up[k] \in R /\ X(k) \subseteq Y(up[k]) /\ up[k + 1] = Filling(up[k], ms[k + 1])
    BY <1>9, <1>11, <2>1
  <2>3. up[k + 1] \in R /\ Y(up[k]) \cup ({ms[k + 1].stamp} \ {NoStamp}) \subseteq Y(up[k + 1])
    BY <1>4, <2>1, <2>2
  <2>4. X(k + 1) \subseteq X(k) \cup ({ms[k + 1].stamp} \ {NoStamp})
    <3>1. \A j \in 1 .. k + 1 : j \in 1 .. k \/ j = k + 1
      BY <2>1
    <3> QED
      BY <3>1
  <2> HIDE DEF X, Y
  <2>5. X(k + 1) \subseteq Y(up[k + 1])
    BY <2>2, <2>3, <2>4
  <2> QED
    BY <2>1, <2>3, <2>5
<1>12. 0 .. n \subseteq T
  <2> HIDE DEF T
  <2> QED
    BY <1>1, <1>10, <1>11, InductionUpTo
<1> DEFINE s == up[n]
           out == Flushed(s)
<1>13. Packed(s, log) /\ StampsIn(ms) \subseteq StampsOut(s.out) \cup StampsIn(s.open)
  <2>1. n \in T
    <3> HIDE DEF T
    <3> QED
      BY <1>1, <1>12
  <2>2. StampsIn(ms) = X(n)
    BY DEF StampsIn, n
  <2> QED
    BY <2>1, <2>2 DEF R
<1> HIDE DEF s
<1>14. s.out \in Seq(Seq(Parcel)) /\ s.open \in Seq(Parcel)
       /\ (\A i \in 1 .. Len(s.out) : OnWire(s.out[i], log)) /\ OnWire(s.open, log)
  BY <1>13 DEF Packed, Packing
<1>15. out \in Seq(Seq(Parcel)) /\ (\A i \in 1 .. Len(out) : OnWire(out[i], log))
       /\ StampsIn(ms) \subseteq StampsOut(out)
  <2>1. CASE s.open = <<>>
    <3>1. out = s.out
      BY <2>1 DEF Flushed
    <3>2. StampsIn(s.open) = {}
      BY <2>1, StampsJoin
    <3> QED
      BY <1>13, <1>14, <3>1, <3>2
  <2>2. CASE s.open # <<>>
    <3>1. out = Append(s.out, s.open)
      BY <2>2 DEF Flushed
    <3>2. \A i \in 1 .. Len(out) : (i \in 1 .. Len(s.out) /\ out[i] = s.out[i]) \/ out[i] = s.open
      BY <1>14, <3>1
    <3>3. out \in Seq(Seq(Parcel)) /\ StampsOut(out) = StampsOut(s.out) \cup StampsIn(s.open)
      BY <1>14, <3>1, StampsJoin
    <3> HIDE DEF out
    <3> QED
      BY <1>13, <1>14, <3>2, <3>3
  <2> QED
    BY <2>1, <2>2
<1> QED
  BY <1>2, <1>15 DEF s
-----------------------------------------------------------------------------
(* What a receiver becomes, message by message.                            *)
Handling(r, q, w) ==
    /\ w \in [0 .. Len(q) -> Receiver] /\ w[0] = r
    /\ \A k \in 1 .. Len(q) : w[k] = GotMessage(w[k - 1], q[k])

(* A receiver can handle any messages.                                     *)
LEMMA InTurn ==
    ASSUME NEW r \in Receiver, NEW q \in Seq(Posted)
    PROVE  \E w : Handling(r, q, w)
<1> DEFINE n == Len(q)
           R == Receiver
           step == [k \in 1 .. n |-> [s \in R |-> GotMessage(s, q[k])]]
<1>1. n \in Nat /\ \A k \in 1 .. n : q[k] \in Posted
  OBVIOUS
<1>2. \A s \in R, k \in 1 .. n : GotMessage(s, q[k]) \in R
  BY <1>1, HandledIs
<1>3. r \in R
  OBVIOUS
<1> HIDE DEF n, R
<1>4. step \in [1 .. n -> [R -> R]]
  BY <1>2
<1>5. PICK f \in [0 .. n -> R] : Iterates(f, n, r, step)
  <2> HIDE DEF step
  <2> QED
    BY <1>1, <1>3, <1>4, Iteration
<1>6. f[0] = r /\ \A k \in 1 .. n : f[k] = GotMessage(f[k - 1], q[k])
  <2>1. ASSUME NEW k \in 1 .. n PROVE f[k] = GotMessage(f[k - 1], q[k])
    <3>1. f[k - 1] \in R
      BY <1>1
    <3> QED
      BY <1>5, <3>1 DEF Iterates
  <2> QED
    BY <1>5, <2>1 DEF Iterates
<1> QED
  BY <1>6 DEF n, R, Handling

(* More has been posted.                                                   *)
Continues(log, v, more, w) ==
    /\ Told(log, v) /\ Told(more, w) /\ Len(log) <= Len(more)
    /\ \A k \in 1 .. Len(log) : more[k] = log[k]
    /\ \A k \in 0 .. Len(log) : w[k] = v[k]

(* The messages q have been posted, and handling them goes on with w.      *)
GoesOn(log, v, q, w, more, x) ==
    /\ Continues(log, v, more, x) /\ Len(more) = Len(log) + Len(q)
    /\ \A k \in 1 .. Len(q) : more[Len(log) + k] = q[k]
    /\ \A k \in 0 .. Len(q) : x[Len(log) + k] = w[k]

(* Messages are posted after those that have been.                         *)
LEMMA ContinuedBy ==
    ASSUME NEW log, NEW v, Told(log, v), NEW q \in Seq(Posted), NEW w,
           Handling(v[Len(log)], q, w)
    PROVE  \E more, x : GoesOn(log, v, q, w, more, x)
<1> DEFINE a == Len(log)
           b == Len(q)
           R == Receiver
           more == log \o q
           x == [k \in 0 .. a + b |-> IF k <= a THEN v[k] ELSE w[k - a]]
<1>1. /\ log \in Seq(Posted) /\ a \in Nat /\ b \in Nat
      /\ v \in [0 .. a -> R] /\ w \in [0 .. b -> R] /\ w[0] = v[a]
      /\ \A k \in 1 .. a : v[k] = GotMessage(v[k - 1], log[k])
      /\ \A k \in 1 .. b : w[k] = GotMessage(w[k - 1], q[k])
  BY DEF Told, Handling
<1>2. /\ more \in Seq(Posted) /\ Len(more) = a + b
      /\ \A k \in 1 .. a : more[k] = log[k]
      /\ \A k \in 1 .. b : more[a + k] = q[k]
  BY <1>1
<1> HIDE DEF a, b, R, more
<1>3. x \in [0 .. a + b -> R]
  <2>1. ASSUME NEW k \in 0 .. a + b
        PROVE  (IF k <= a THEN v[k] ELSE w[k - a]) \in R
    <3>1. CASE k <= a
      <4>1. k \in 0 .. a
        BY <1>1, <3>1
      <4> QED
        BY <1>1, <3>1, <4>1
    <3>2. CASE ~(k <= a)
      <4>1. k - a \in 0 .. b
        BY <1>1, <3>2
      <4> QED
        BY <1>1, <3>2, <4>1
    <3> QED
      BY <3>1, <3>2
  <2> QED
    BY <2>1
<1>4. ASSUME NEW k \in 0 .. a PROVE x[k] = v[k]
  <2>1. k \in 0 .. a + b /\ k <= a
    BY <1>1
  <2> QED
    BY <2>1
<1>5. ASSUME NEW k \in 0 .. b PROVE x[a + k] = w[k]
  <2>1. a + k \in 0 .. a + b /\ (a + k) - a = k
    BY <1>1
  <2>2. CASE k = 0
    <3>1. a + k = a /\ a <= a /\ a \in 0 .. a
      BY <1>1, <2>2
    <3> QED
      BY <1>1, <1>4, <2>2, <3>1
  <2>3. CASE k # 0
    <3>1. ~(a + k <= a)
      BY <1>1, <2>3
    <3>2. x[a + k] = w[(a + k) - a]
      BY <2>1, <3>1
    <3> QED
      BY <2>1, <3>2
  <2> QED
    BY <2>2, <2>3
<1> HIDE DEF x
<1>6. ASSUME NEW k \in 1 .. a + b PROVE x[k] = GotMessage(x[k - 1], more[k])
  <2>1. CASE k <= a
    <3>1. k \in 1 .. a /\ k \in 0 .. a /\ k - 1 \in 0 .. a
      BY <1>1, <2>1
    <3>2. x[k] = v[k] /\ x[k - 1] = v[k - 1] /\ more[k] = log[k]
      BY <1>2, <1>4, <3>1
    <3> QED
      BY <1>1, <3>1, <3>2
  <2>2. CASE ~(k <= a)
    <3> DEFINE j == k - a
    <3>1. j \in 1 .. b /\ j \in 0 .. b /\ j - 1 \in 0 .. b /\ a + j = k /\ a + (j - 1) = k - 1
      BY <1>1, <2>2
    <3> HIDE DEF j
    <3>2. x[a + j] = w[j] /\ x[a + (j - 1)] = w[j - 1] /\ more[a + j] = q[j]
      BY <1>2, <1>5, <3>1
    <3>3. w[j] = GotMessage(w[j - 1], q[j])
      BY <1>1, <3>1
    <3> QED
      BY <3>1, <3>2, <3>3
  <2> QED
    BY <2>1, <2>2
<1>7. Told(more, x)
  BY <1>2, <1>3, <1>6 DEF Told, R
<1>8. a <= a + b
  BY <1>1
<1>9. Continues(log, v, more, x)
  BY <1>2, <1>4, <1>7, <1>8 DEF Continues, a
<1> QED
  BY <1>2, <1>5, <1>9 DEF a, b, GoesOn

(* What is under way and what has been heard is as it was.                 *)
LEMMA StillTold ==
    ASSUME NEW log, NEW v, NEW more, NEW w, Continues(log, v, more, w)
    PROVE  /\ \A m : Stamped(m, log) => Stamped(m, more)
           /\ \A m : Carried(m, log) => Carried(m, more)
           /\ \A d : OnWire(d, log) => OnWire(d, more)
           /\ \A r : Hears(r, log, v) => Hears(r, more, w)
<1>1. Len(log) \in Nat /\ Len(more) \in Nat /\ Len(log) <= Len(more)
  BY DEF Continues, Told
<1>2. ASSUME NEW m, Stamped(m, log) PROVE Stamped(m, more)
  <2>1. m.stamp \in 0 .. Len(log) - 1 /\ m.stamp + 1 \in 1 .. Len(log)
    BY <1>1, <1>2 DEF Stamped
  <2>2. more[m.stamp + 1] = log[m.stamp + 1]
    BY <2>1 DEF Continues
  <2>3. m.stamp \in 0 .. Len(more) - 1
    BY <1>1, <2>1
  <2> QED
    BY <1>2, <2>2, <2>3 DEF Stamped
<1>3. ASSUME NEW m, Carried(m, log) PROVE Carried(m, more)
  BY <1>2, <1>3 DEF Carried
<1>4. ASSUME NEW d, OnWire(d, log) PROVE OnWire(d, more)
  BY <1>3, <1>4 DEF OnWire
<1>5. ASSUME NEW r, Hears(r, log, v) PROVE Hears(r, more, w)
  <2>1. r.step \in 0 .. Len(log) /\ r.step \in 0 .. Len(more)
    BY <1>1, <1>5 DEF Hears
  <2>2. w[r.step] = v[r.step]
    BY <2>1 DEF Continues
  <2> QED
    BY <1>2, <1>5, <2>1, <2>2 DEF Hears
<1> QED
  BY <1>2, <1>3, <1>4, <1>5
-----------------------------------------------------------------------------
(* The stamps that are kept, that wait, and that are under way.            *)
Somewhere == StampsOf(rx.held) \cup StampsIn(clustered) \cup UNION {StampsIn(d) : d \in wire}

(* What has been posted is under way as it was posted, and what has not    *)
(* been handled is somewhere.                                              *)
UnderWay(log, v) ==
    /\ Told(log, v) /\ Len(log) = nextStamp
    /\ clustered \in Seq(Parcel) /\ \A k \in 1 .. Len(clustered) : Carried(clustered[k], log)
    /\ \A d \in wire : OnWire(d, log)
    /\ Hears(rx, log, v)
    /\ \A x \in rx.step .. nextStamp - 1 : x \in Somewhere

(* The end of post(): messages to the cluster, or out.                     *)
LEMMA PutIs ==
    ASSUME NEW log, NEW v, NEW more, NEW w, NEW ms \in Seq(Parcel),
           UnderWay(log, v), Continues(log, v, more, w), Put(ms), rx' = rx,
           nextStamp' = Len(more), \A k \in 1 .. Len(ms) : Carried(ms[k], more),
           \A x \in nextStamp .. nextStamp' - 1 : x \in StampsIn(ms)
    PROVE  UnderWay(more, w)'
<1> DEFINE B == Len(clustered)
           N == Len(ms)
<1>1. /\ Told(more, w) /\ Len(more) = nextStamp' /\ nextStamp \in Nat
      /\ clustered \in Seq(Parcel) /\ B \in Nat /\ N \in Nat
      /\ \A k \in 1 .. B : Carried(clustered[k], more)
      /\ \A d \in wire : OnWire(d, more)
      /\ Hears(rx, more, w) /\ rx.step \in Nat
  <2>1. Told(more, w) /\ Len(more) = nextStamp' /\ clustered \in Seq(Parcel)
    BY DEF UnderWay, Continues
  <2>2. nextStamp \in Nat
    BY DEF UnderWay, Told
  <2>3. /\ \A k \in 1 .. B : Carried(clustered[k], more)
        /\ \A d \in wire : OnWire(d, more)
        /\ Hears(rx, more, w)
    BY StillTold DEF UnderWay
  <2>4. rx.step \in Nat
    BY <2>3 DEF Hears, Told
  <2> QED
    BY <2>1, <2>2, <2>3, <2>4
<1>2. ASSUME clustering
      PROVE  UnderWay(more, w)'
  <2> DEFINE all == clustered \o ms
  <2>1. clustered' = all /\ wire' = wire
    BY <1>2 DEF Put
  <2>2. /\ all \in Seq(Parcel) /\ Len(all) = B + N
        /\ \A k \in 1 .. B : all[k] = clustered[k]
        /\ \A k \in 1 .. N : all[B + k] = ms[k]
    BY <1>1
  <2> HIDE DEF all, B, N
  <2>3. \A k \in 1 .. B + N : k \in 1 .. B \/ (k - B \in 1 .. N /\ B + (k - B) = k)
    BY <1>1
  <2>4. ASSUME NEW k \in 1 .. B + N PROVE Carried(all[k], more)
    <3>1. CASE k \in 1 .. B
      BY <1>1, <2>2, <3>1
    <3>2. CASE k - B \in 1 .. N /\ B + (k - B) = k
      <4>1. all[k] = ms[k - B]
        BY <2>2, <3>2
      <4> QED
        BY <3>2, <4>1 DEF N
    <3> QED
      BY <2>3, <3>1, <3>2
  <2>5. StampsIn(clustered) \subseteq StampsIn(all) /\ StampsIn(ms) \subseteq StampsIn(all)
    <3>1. ASSUME NEW x \in StampsIn(clustered) PROVE x \in StampsIn(all)
      <4>1. PICK k \in 1 .. B : x = clustered[k].stamp /\ x # NoStamp
        BY DEF StampsIn, B
      <4>2. k \in 1 .. B + N /\ x = all[k].stamp
        BY <1>1, <2>2, <4>1
      <4> QED
        BY <2>2, <4>1, <4>2 DEF StampsIn
    <3>2. ASSUME NEW x \in StampsIn(ms) PROVE x \in StampsIn(all)
      <4>1. PICK k \in 1 .. N : x = ms[k].stamp /\ x # NoStamp
        BY DEF StampsIn, N
      <4>2. B + k \in 1 .. B + N /\ x = all[B + k].stamp
        BY <1>1, <2>2, <4>1
      <4> QED
        BY <2>2, <4>1, <4>2 DEF StampsIn
    <3> QED
      BY <3>1, <3>2
  <2>6. ASSUME NEW x \in rx.step .. nextStamp' - 1 PROVE x \in Somewhere'
    <3>1. Somewhere' = StampsOf(rx.held) \cup StampsIn(all) \cup UNION {StampsIn(d) : d \in wire}
      BY <2>1 DEF Somewhere
    <3>2. x \in rx.step .. nextStamp - 1 \/ x \in nextStamp .. nextStamp' - 1
      BY <1>1
    <3>3. CASE x \in rx.step .. nextStamp - 1
      <4>1. x \in Somewhere
        BY <3>3 DEF UnderWay
      <4> QED
        BY <2>5, <3>1, <4>1 DEF Somewhere
    <3>4. CASE x \in nextStamp .. nextStamp' - 1
      BY <2>5, <3>1, <3>4
    <3> QED
      BY <3>2, <3>3, <3>4
  <2>7. /\ clustered' \in Seq(Parcel) /\ \A k \in 1 .. Len(clustered') : Carried(clustered'[k], more)
        /\ \A d \in wire' : OnWire(d, more)
        /\ Hears(rx', more, w)
        /\ \A x \in rx'.step .. nextStamp' - 1 : x \in Somewhere'
    <3>1. /\ clustered' \in Seq(Parcel) /\ Len(clustered') = B + N
          /\ \A k \in 1 .. B + N : Carried(clustered'[k], more)
      BY <2>1, <2>2, <2>4
    <3>2. (\A d \in wire' : OnWire(d, more)) /\ Hears(rx', more, w)
      BY <1>1, <2>1
    <3>3. \A x \in rx'.step .. nextStamp' - 1 : x \in Somewhere'
      BY <2>6
    <3> QED
      BY <3>1, <3>2, <3>3
  <2> QED
    BY <1>1, <2>7 DEF UnderWay
<1>3. ASSUME ~clustering
      PROVE  UnderWay(more, w)'
  <2> DEFINE apart == {<<ms[k]>> : k \in DOMAIN ms}
  <2>1. clustered' = clustered /\ wire' = wire \cup apart
    BY <1>3 DEF Put
  <2>2. \A k \in 1 .. N : ms[k] \in Parcel
    OBVIOUS
  <2>3. ASSUME NEW d \in apart PROVE OnWire(d, more)
    <3>1. PICK k \in 1 .. N : d = <<ms[k]>>
      OBVIOUS
    <3>2. Carried(ms[k], more)
      BY <3>1
    <3> QED
      BY <3>1, <3>2, AloneOnWire
  <2>4. StampsIn(ms) \subseteq UNION {StampsIn(d) : d \in apart}
    <3>1. ASSUME NEW x \in StampsIn(ms) PROVE \E d \in apart : x \in StampsIn(d)
      <4>1. PICK k \in 1 .. N : x = ms[k].stamp /\ x # NoStamp
        BY DEF StampsIn
      <4>2. <<ms[k]>> \in apart
        BY <4>1
      <4>3. StampsIn(<<ms[k]>>) = {ms[k].stamp} \ {NoStamp}
        BY <2>2, <4>1, StampsJoin
      <4>4. x \in StampsIn(<<ms[k]>>)
        BY <4>1, <4>3
      <4> HIDE DEF apart
      <4> QED
        BY <4>2, <4>4
    <3> HIDE DEF apart
    <3> QED
      BY <3>1
  <2> HIDE DEF apart
  <2>5. ASSUME NEW x \in rx.step .. nextStamp' - 1 PROVE x \in Somewhere'
    <3>1. Somewhere' = StampsOf(rx.held) \cup StampsIn(clustered)
                       \cup UNION {StampsIn(d) : d \in wire \cup apart}
      BY <2>1 DEF Somewhere
    <3>2. x \in rx.step .. nextStamp - 1 \/ x \in nextStamp .. nextStamp' - 1
      BY <1>1
    <3>3. CASE x \in rx.step .. nextStamp - 1
      <4>1. x \in Somewhere
        BY <3>3 DEF UnderWay
      <4> QED
        BY <3>1, <4>1 DEF Somewhere
    <3>4. CASE x \in nextStamp .. nextStamp' - 1
      BY <2>4, <3>1, <3>4
    <3> QED
      BY <3>2, <3>3, <3>4
  <2>6. /\ clustered' \in Seq(Parcel) /\ \A k \in 1 .. Len(clustered') : Carried(clustered'[k], more)
        /\ \A d \in wire' : OnWire(d, more)
        /\ Hears(rx', more, w)
        /\ \A x \in rx'.step .. nextStamp' - 1 : x \in Somewhere'
    <3>1. /\ clustered' \in Seq(Parcel) /\ \A k \in 1 .. Len(clustered') : Carried(clustered'[k], more)
          /\ Hears(rx', more, w)
      BY <1>1, <2>1
    <3>2. \A d \in wire' : OnWire(d, more)
      BY <1>1, <2>1, <2>3
    <3>3. \A x \in rx'.step .. nextStamp' - 1 : x \in Somewhere'
      BY <2>5
    <3> QED
      BY <3>1, <3>2, <3>3
  <2> QED
    BY <1>1, <2>6 DEF UnderWay
<1> QED
  BY <1>2, <1>3
-----------------------------------------------------------------------------
(* What has been handled is always some of the first messages posted       *)
(* whole, and in the end all of them.                                      *)
Heard(v) ==
    /\ due \in Seq(Nat) /\ \A k \in 0 .. nextStamp : Prefix(v[k].got, due)
    /\ v[nextStamp].got = due /\ v[nextStamp].little = <<>>

(* What is some of the first stays so when there are more.                 *)
LEMMA PrefixOfMore ==
    ASSUME NEW t \in Seq(Nat), NEW u, u = t \/ \E e \in Nat : u = Append(t, e)
    PROVE  /\ u \in Seq(Nat) /\ Prefix(t, t) /\ Prefix(u, u)
           /\ \A s \in Seq(Nat) : Prefix(s, t) => Prefix(s, u)
<1>1. /\ u \in Seq(Nat) /\ Len(t) \in Nat /\ Len(u) \in Nat /\ Len(t) <= Len(u)
      /\ \A i \in 1 .. Len(t) : u[i] = t[i]
  <2>1. CASE u = t
    BY <2>1
  <2>2. ASSUME NEW e \in Nat, u = Append(t, e)
        PROVE  /\ u \in Seq(Nat) /\ Len(t) \in Nat /\ Len(u) \in Nat /\ Len(t) <= Len(u)
               /\ \A i \in 1 .. Len(t) : u[i] = t[i]
    BY <2>2
  <2> QED
    BY <2>1, <2>2
<1>2. ASSUME NEW s \in Seq(Nat), Prefix(s, t) PROVE Prefix(s, u)
  <2>1. Len(s) \in Nat /\ Len(s) <= Len(t) /\ \A i \in 1 .. Len(s) : s[i] = t[i] /\ i \in 1 .. Len(t)
    BY <1>1, <1>2 DEF Prefix
  <2> QED
    BY <1>1, <2>1 DEF Prefix
<1> QED
  BY <1>1, <1>2 DEF Prefix

(* Parts are posted with the next stamps.                                  *)
LEMMA PartsPut ==
    ASSUME NEW log, NEW v, UnderWay(log, v), NEW q \in Seq(Posted), PutReliable(q),
           rx' = rx,
           \A k \in 1 .. Len(q) : q[k].data + Header(q[k]) <= ChunkSize + 6,
           NEW w, Handling(v[nextStamp], q, w)
    PROVE  \E more, x :
              /\ UnderWay(more, x)' /\ Continues(log, v, more, x)
              /\ nextStamp' = nextStamp + Len(q)
              /\ \A k \in 0 .. Len(q) : x[nextStamp + k] = w[k]
<1> DEFINE a == nextStamp
           n == Len(q)
           ms == [k \in DOMAIN q |-> [stamp |-> nextStamp + k - 1, part |-> q[k]]]
<1>1. /\ Told(log, v) /\ Len(log) = a /\ a \in Nat /\ n \in Nat
      /\ \A k \in 1 .. n : q[k] \in Posted
  BY DEF UnderWay, Told
<1>2. PICK more, x :
         /\ Continues(log, v, more, x) /\ Len(more) = a + n
         /\ \A k \in 1 .. n : more[a + k] = q[k]
         /\ \A k \in 0 .. n : x[a + k] = w[k]
  <2>1. Handling(v[Len(log)], q, w)
    BY <1>1
  <2>2. Told(log, v)
    BY <1>1
  <2> HIDE DEF a, n, ms
  <2>3. \E more, x : GoesOn(log, v, q, w, more, x)
    BY <2>1, <2>2, ContinuedBy
  <2> QED
    BY <1>1, <2>3 DEF GoesOn, n
<1>3. Put(ms) /\ nextStamp' = a + n
  BY DEF PutReliable
<1>4. /\ Len(ms) = n
      /\ \A k \in 1 .. n : ms[k] = [stamp |-> a + k - 1, part |-> q[k]]
  BY <1>1
<1>5. ASSUME NEW k \in 1 .. n
      PROVE  Carried(ms[k], more) /\ ms[k] \in Parcel /\ ms[k].stamp = a + k - 1
             /\ ms[k].stamp # NoStamp
  <2> DEFINE m == ms[k]
             p == q[k]
             s == a + k - 1
  <2>1. m = [stamp |-> s, part |-> p]
    BY <1>4
  <2>2. s \in Nat /\ s \in 0 .. (a + n) - 1 /\ s + 1 = a + k
    BY <1>1
  <2>3. p \in Part
    BY <1>1 DEF Posted
  <2>4. NoStamp \notin Nat
    BY NetAssumption
  <2>5. p.data + Header(p) <= ChunkSize + 6 /\ more[a + k] = p
    BY <1>2
  <2>6. p.data + Header(p) \in Nat /\ ChunkSize \in Nat
    <3>1. p.data \in Nat /\ p.kind \in {"plain", "body", "tail", "big", "cancel"}
      BY <2>3 DEF Part
    <3>2. Header(p) \in Nat
      BY <3>1 DEF Header
    <3>3. {ChunkSize} \subseteq Nat
      BY NetAssumption
    <3> DEFINE y == p.data
               z == Header(p)
    <3>4. y \in Nat /\ z \in Nat
      BY <3>1, <3>2
    <3> HIDE DEF y, z
    <3>5. y + z \in Nat /\ ChunkSize \in Nat
      BY <3>3, <3>4
    <3> QED
      BY <3>5 DEF y, z
  <2> HIDE DEF m, p, s
  <2>7. m.stamp = s /\ m.part = p /\ s # NoStamp
    BY <2>1, <2>2, <2>4
  <2>8. m \in Parcel /\ m \in [stamp : Nat, part : Part]
    BY <2>1, <2>2, <2>3 DEF Parcel
  <2>9. Size(m) = p.data + Header(p) + 6
    BY <2>7 DEF Size
  <2>10. Size(m) <= ChunkSize + 12
    <3> DEFINE z == p.data + Header(p)
    <3>1. z \in Nat /\ z <= ChunkSize + 6 /\ Size(m) = z + 6
      BY <2>5, <2>6, <2>9
    <3> HIDE DEF z
    <3> QED
      BY <2>6, <3>1
  <2>11. Stamped(m, more)
    BY <1>2, <2>2, <2>5, <2>7, <2>8 DEF Stamped
  <2>12. Carried(m, more)
    BY <2>8, <2>10, <2>11 DEF Carried
  <2> QED
    BY <2>7, <2>8, <2>12 DEF m, s
<1>6. ms \in Seq(Parcel)
  <2>1. ms \in [1 .. n -> Parcel]
    <3>1. ms = [k \in 1 .. n |-> ms[k]]
      BY <1>4
    <3> HIDE DEF ms, n
    <3> QED
      BY <1>5, <3>1
  <2>2. n \in Nat
    BY <1>1
  <2> HIDE DEF ms, n
  <2> QED
    BY <2>1, <2>2
<1>7. \A y \in nextStamp .. nextStamp' - 1 : y \in StampsIn(ms)
  <2> SUFFICES ASSUME NEW y \in nextStamp .. nextStamp' - 1 PROVE y \in StampsIn(ms)
    OBVIOUS
  <2> DEFINE k == y - a + 1
  <2>1. k \in 1 .. n /\ a + k - 1 = y
    BY <1>1, <1>3
  <2> HIDE DEF k, ms, n
  <2>2. ms[k].stamp = y /\ ms[k].stamp # NoStamp
    BY <1>5, <2>1
  <2> QED
    BY <1>4, <2>1, <2>2 DEF StampsIn
<1>8. \A k \in 1 .. Len(ms) : Carried(ms[k], more)
  BY <1>4, <1>5
<1> HIDE DEF ms
<1>9. UnderWay(more, x)'
  BY <1>2, <1>3, <1>6, <1>7, <1>8, PutIs
<1> QED
  BY <1>2, <1>3, <1>9

(* A message that is posted: what is handled when its parts have been.     *)
LEMMA PostedIs ==
    ASSUME NEW log, NEW v, UnderWay(log, v), Heard(v), NEW q \in Seq(Posted), q # <<>>,
           PutReliable(q), rx' = rx,
           \A k \in 1 .. Len(q) : q[k].data + Header(q[k]) <= ChunkSize + 6,
           NEW w, Handling(v[nextStamp], q, w),
           \A k \in 1 .. Len(q) - 1 : w[k].got = due,
           w[Len(q)].got = due', w[Len(q)].little = <<>>,
           due' = due \/ \E e \in Nat : due' = Append(due, e)
    PROVE  \E more, x :
              UnderWay(more, x)' /\ Heard(x)' /\ x[nextStamp'] = w[Len(q)]
<1> DEFINE a == nextStamp
           n == Len(q)
<1>1. PICK more, x :
         /\ UnderWay(more, x)' /\ Continues(log, v, more, x)
         /\ nextStamp' = a + n
         /\ \A k \in 0 .. n : x[a + k] = w[k]
  <2>1. \E more, x :
           /\ UnderWay(more, x)' /\ Continues(log, v, more, x)
           /\ nextStamp' = nextStamp + Len(q)
           /\ \A k \in 0 .. Len(q) : x[nextStamp + k] = w[k]
    BY PartsPut
  <2> QED
    BY <2>1
<1>2. /\ Told(log, v) /\ Len(log) = a /\ a \in Nat /\ n \in Nat /\ n # 0
      /\ \A k \in 0 .. a : v[k] \in Receiver
  <2>1. Told(log, v) /\ Len(log) = a
    BY DEF UnderWay
  <2>2. log \in Seq(Posted) /\ v \in [0 .. Len(log) -> Receiver]
    BY <2>1 DEF Told
  <2>4. Len(log) \in Nat /\ \A k \in 0 .. Len(log) : v[k] \in Receiver
    BY <2>2
  <2>3. n \in Nat /\ n # 0
    OBVIOUS
  <2> QED
    BY <2>1, <2>3, <2>4
<1>3. /\ due \in Seq(Nat) /\ due' \in Seq(Nat) /\ Prefix(due, due') /\ Prefix(due', due')
      /\ \A s \in Seq(Nat) : Prefix(s, due) => Prefix(s, due')
  <2>1. due \in Seq(Nat)
    BY DEF Heard
  <2> QED
    BY <2>1, PrefixOfMore
<1> HIDE DEF n
<1>4. ASSUME NEW k \in 0 .. a + n PROVE Prefix(x[k].got, due')
  <2>1. CASE k <= a
    <3>1. k \in 0 .. a
      BY <1>2, <2>1
    <3>2. x[k] = v[k] /\ Prefix(v[k].got, due) /\ v[k].got \in Seq(Nat)
      BY <1>1, <1>2, <3>1, ReceiverIs DEF Continues, Heard
    <3> QED
      BY <1>3, <3>2
  <2>2. CASE ~(k <= a)
    <3>1. k - a \in 1 .. n /\ k - a \in 0 .. n /\ a + (k - a) = k
      BY <1>2, <2>2
    <3>2. x[k] = w[k - a]
      BY <1>1, <3>1
    <3>3. k - a = n \/ k - a \in 1 .. n - 1
      BY <1>2, <3>1
    <3>4. x[k].got = due \/ x[k].got = due'
      BY <3>2, <3>3 DEF n
    <3> QED
      BY <1>3, <3>4
  <2> QED
    BY <2>1, <2>2
<1>5. x[nextStamp'] = w[n]
  BY <1>1, <1>2
<1>6. Heard(x)'
  <2>1. \A k \in 0 .. nextStamp' : Prefix(x[k].got, due')
    BY <1>1, <1>4
  <2>2. x[nextStamp'].got = due' /\ x[nextStamp'].little = <<>>
    BY <1>5 DEF n
  <2> QED
    BY <1>3, <2>1, <2>2 DEF Heard
<1> QED
  BY <1>1, <1>5, <1>6 DEF n
-----------------------------------------------------------------------------
(* P makes a message again, and each of its pieces can be sent.            *)
MakeIt(P, no, total, size, kind, last) ==
    /\ Joined(P) = no /\ P \in Seq(Posted) /\ P # <<>>
    /\ \A k \in 1 .. Len(P) :
          /\ P[k] \in Posted /\ P[k].no = no /\ P[k].total = total
          /\ P[k].kind = (IF k = Len(P) THEN last ELSE kind)
          /\ P[k].data \in Nat /\ P[k].data <= size

(* The pieces of a message make the message.                               *)
LEMMA PiecesMakeIt ==
    ASSUME NEW no \in Nat, NEW total \in Nat \ {0}, NEW size \in Nat \ {0},
           NEW kind \in {"plain", "body", "tail", "big", "cancel"},
           NEW last \in {"plain", "body", "tail", "big", "cancel"}
    PROVE  MakeIt(Parts(no, total, size, kind, last), no, total, size, kind, last)
<1> DEFINE P == Parts(no, total, size, kind, last)
           n == Len(P)
<1>1. /\ P \in Seq(Part) /\ n \in Nat \ {0}
      /\ \A k \in 1 .. n :
            IsPiece(P[k], IF k = n THEN last ELSE kind, no, (k - 1) * size, total, size)
      /\ \A k \in 1 .. n : Filled(SubSeq(P, 1, k - 1)) = P[k].from
      /\ Filled(P) = total
  <2>1. AreParts(P, no, total, size, kind, last)
    BY PartsAre
  <2> HIDE DEF P
  <2> QED
    BY <2>1 DEF AreParts
<1> HIDE DEF P
<1>2. ASSUME NEW k \in 1 .. n
      PROVE  /\ P[k] \in Posted /\ P[k].no = no /\ P[k].total = total
             /\ P[k].kind = (IF k = n THEN last ELSE kind)
             /\ P[k].data \in Nat /\ P[k].data <= size
  <2>1. IsPiece(P[k], IF k = n THEN last ELSE kind, no, (k - 1) * size, total, size)
    BY <1>1
  <2> QED
    BY <2>1 DEF IsPiece, Posted
<1>3. P \in Seq(Posted)
  <2>1. P = [k \in 1 .. n |-> P[k]]
    BY <1>1
  <2>2. P \in [1 .. n -> Posted]
    <3> HIDE DEF n
    <3> QED
      BY <1>2, <2>1
  <2>3. n \in Nat
    BY <1>1
  <2> HIDE DEF n
  <2> QED
    BY <2>2, <2>3
<1>4. DOMAIN P = 1 .. n /\ 1 \in 1 .. n /\ P # <<>>
  BY <1>1
<1> HIDE DEF n
<1>5. P[1].no = no /\ P[1].total = total
  BY <1>2, <1>4
<1>6. Joined(P) = no
  BY <1>1, <1>2, <1>4, <1>5 DEF Joined
<1> QED
  BY <1>2, <1>3, <1>4, <1>6 DEF P, n, MakeIt

(* A short message is one piece.                                           *)
LEMMA OnePiece ==
    ASSUME NEW no \in Nat, NEW total \in Nat \ {0}
    PROVE  Len(Parts(no, total, total, "plain", "plain")) = 1
<1> DEFINE P == Parts(no, total, total, "plain", "plain")
           n == Len(P)
<1>1. /\ P \in Seq(Part) /\ n \in Nat \ {0}
      /\ \A k \in 1 .. n :
            IsPiece(P[k], IF k = n THEN "plain" ELSE "plain", no, (k - 1) * total, total, total)
      /\ \A k \in 1 .. n : Filled(SubSeq(P, 1, k - 1)) = P[k].from
      /\ \A k \in 0 .. n - 1 : Filled(SubSeq(P, 1, k)) < total
  <2>1. AreParts(P, no, total, total, "plain", "plain")
    BY PartsAre
  <2> HIDE DEF P
  <2> QED
    BY <2>1 DEF AreParts
<1>2. SUFFICES ASSUME n >= 2 PROVE FALSE
  <2> HIDE DEF P
  <2>1. n \in Nat \ {0}
    BY <1>1
  <2> HIDE DEF n
  <2>2. n >= 2 \/ n = 1
    BY <2>1
  <2> QED
    BY <2>2 DEF P, n
<1> HIDE DEF P, n
<1>3. 2 \in 1 .. n /\ 1 \in 0 .. n - 1 /\ 2 - 1 = 1
  BY <1>1, <1>2
<1>4. P[2].from = 1 * total /\ Filled(SubSeq(P, 1, 1)) = P[2].from
      /\ Filled(SubSeq(P, 1, 1)) < total
  BY <1>1, <1>3 DEF IsPiece
<1> QED
  BY <1>4

(* The parts P become the message no, and nothing else happens.            *)
WholeAtTheEnd(r, P, no, w) ==
    /\ \A k \in 1 .. Len(P) - 1 : w[k].got = r.got
    /\ w[Len(P)].little = <<>> /\ w[Len(P)].large = r.large
    /\ w[Len(P)].ftLength = r.ftLength /\ w[Len(P)].got = Append(r.got, no)

(* The chunks of a message are put together, and the buffer is empty.      *)
LEMMA ChunksHandled ==
    ASSUME NEW no \in Nat, NEW total \in Nat \ {0},
           total <= LittleLimit, NEW r \in Receiver, r.little = <<>>, NEW w,
           Handling(r, Parts(no, total, ChunkSize + 4, "body", "tail"), w)
    PROVE  WholeAtTheEnd(r, Parts(no, total, ChunkSize + 4, "body", "tail"), no, w)
<1> DEFINE size == ChunkSize + 4
           P == Parts(no, total, size, "body", "tail")
           n == Len(P)
<1>1. size \in Nat \ {0} /\ LittleLimit \in Nat
  <2>1. {ChunkSize, LittleLimit} \subseteq Nat
    BY NetAssumption
  <2> QED
    BY <2>1
<1> HIDE DEF size
<1>2. /\ P \in Seq(Part) /\ n \in Nat \ {0} /\ Filled(P) = total
      /\ \A k \in 0 .. n - 1 : Filled(SubSeq(P, 1, k)) < total
  <2>1. AreParts(P, no, total, size, "body", "tail")
    BY <1>1, PartsAre
  <2> HIDE DEF P
  <2> QED
    BY <2>1 DEF AreParts
<1>3. /\ Joined(P) = no /\ P \in Seq(Posted) /\ P # <<>>
      /\ \A k \in 1 .. n : P[k].kind = (IF k = n THEN "tail" ELSE "body") /\ P[k] \in Posted
  <2>1. MakeIt(P, no, total, size, "body", "tail")
    BY <1>1, PiecesMakeIt
  <2> HIDE DEF P
  <2> QED
    BY <2>1 DEF MakeIt
<1>4. /\ \A k \in 0 .. n : w[k] \in Receiver
      /\ w[0] = r /\ \A k \in 1 .. n : w[k] = GotMessage(w[k - 1], P[k])
  BY DEF Handling, size
<1> HIDE DEF P, n
<1> DEFINE Same(s) == s.large = r.large /\ s.ftLength = r.ftLength /\ s.got = r.got
           T == {k \in 0 .. n - 1 : Same(w[k]) /\ w[k].little = SubSeq(P, 1, k)}
           Fits(k) == AddMessage(SubSeq(P, 1, k), P[k + 1], LittleLimit) = SubSeq(P, 1, k + 1)
<1>5. ASSUME NEW k \in 0 .. n - 1 PROVE Fits(k)
  <2>1. /\ SubSeq(P, 1, k) \in Seq(Part) /\ P[k + 1] \in Part
        /\ SubSeq(P, 1, k + 1) = Append(SubSeq(P, 1, k), P[k + 1])
    BY <1>2, OneMore DEF n
  <2> DEFINE b == SubSeq(P, 1, k)
             p == P[k + 1]
  <2>2. Filled(Append(b, p)) = Filled(b) + p.data
    BY <2>1, FilledGrows
  <2>3. Filled(SubSeq(P, 1, k + 1)) <= total
    <3>1. CASE k + 1 = n
      <4>1. SubSeq(P, 1, k + 1) = P
        BY <1>2, <3>1, Beginning DEF n
      <4>2. Filled(SubSeq(P, 1, k + 1)) = Filled(P)
        BY <4>1, Zenon
      <4>3. total <= total
        OBVIOUS
      <4> QED
        BY <1>2, <4>2, <4>3, Zenon
    <3>2. CASE k + 1 # n
      <4>1. k + 1 \in 0 .. n - 1
        BY <1>2, <3>2
      <4>2. Filled(SubSeq(P, 1, k + 1)) < total
        BY <1>2, <4>1
      <4>3. Filled(SubSeq(P, 1, k + 1)) \in Nat
        <5>1. SubSeq(P, 1, k + 1) \in Seq(Part)
          BY <1>2, <4>1, Beginning DEF n
        <5> QED
          BY <2>1, <5>1, FilledGrows
      <4> QED
        BY <4>2, <4>3
    <3> QED
      BY <3>1, <3>2
  <2> HIDE DEF b, p
  <2>4. Filled(Append(b, p)) <= total /\ b \in Seq(Part) /\ p \in Part
    BY <2>1, <2>3 DEF b, p
  <2>5. Filled(Append(b, p)) \in Nat
    <3>1. Append(b, p) \in Seq(Part)
      BY <2>4
    <3> QED
      BY <2>4, <3>1, FilledGrows
  <2>6. Filled(b) + p.data <= LittleLimit
    <3> DEFINE y == Filled(Append(b, p))
    <3>1. y \in Nat /\ y <= total /\ LittleLimit \in Nat
      BY <1>1, <2>4, <2>5
    <3>2. y = Filled(b) + p.data
      BY <2>2 DEF b, p
    <3> HIDE DEF y
    <3>3. y <= LittleLimit
      BY <3>1
    <3> QED
      BY <3>2, <3>3
  <2>7. AddMessage(b, p, LittleLimit) = Append(b, p)
    BY <2>4, <2>6, BufferIs
  <2> QED
    BY <2>1, <2>7 DEF b, p
<1>6. 0 \in T
  <2>1. SubSeq(P, 1, 0) = <<>> /\ 0 \in 0 .. n - 1
    BY <1>2, Beginning
  <2> QED
    BY <1>4, <2>1
<1> HIDE DEF Fits
<1>7. ASSUME NEW k \in 0 .. (n - 1) - 1, k \in T PROVE k + 1 \in T
  <2>1. k + 1 \in 1 .. n /\ (k + 1) - 1 = k /\ k + 1 \in 0 .. n - 1 /\ k \in 0 .. n /\ k \in 0 .. n - 1
        /\ k + 1 # n
    <3>1. n \in Nat /\ n >= 1
      BY <1>2
    <3> QED
      BY <3>1
  <2> DEFINE s == w[k]
             t == w[k + 1]
             p == P[k + 1]
             b == AddMessage(s.little, p, LittleLimit)
  <2>2. s \in Receiver /\ t = GotMessage(s, p) /\ p \in Posted /\ p.kind = "body"
    BY <1>3, <1>4, <2>1
  <2>3. Same(s) /\ s.little = SubSeq(P, 1, k) /\ Fits(k)
    BY <1>5, <1>7, <2>1
  <2>4. b = SubSeq(P, 1, k + 1)
    BY <2>3 DEF Fits
  <2> HIDE DEF s, t, p
  <2>5. Becomes(t, s, b, s.large, s.ftLength, s.got)
    BY <2>2, Handled
  <2> HIDE DEF b
  <2>6. Same(t) /\ t.little = SubSeq(P, 1, k + 1)
    BY <2>3, <2>4, <2>5 DEF Becomes
  <2> QED
    BY <2>1, <2>6 DEF t
<1>8. 0 .. n - 1 \subseteq T
  <2>1. n - 1 \in Nat
    BY <1>2
  <2> HIDE DEF T
  <2> QED
    BY <1>6, <1>7, <2>1, InductionUpTo
<1>9. /\ w[n].little = <<>> /\ w[n].large = r.large /\ w[n].ftLength = r.ftLength
      /\ w[n].got = Append(r.got, no)
  <2> DEFINE k == n - 1
             s == w[k]
             t == w[n]
             p == P[n]
             b == AddMessage(s.little, p, LittleLimit)
  <2>1. k \in 0 .. n - 1 /\ k \in 0 .. n /\ k + 1 = n /\ n \in 1 .. n
    BY <1>2
  <2>2. s \in Receiver /\ t = GotMessage(s, p) /\ p \in Posted /\ p.kind = "tail"
    BY <1>3, <1>4, <2>1
  <2>3. k \in T
    BY <1>8, <2>1
  <2>4. Same(s) /\ s.little = SubSeq(P, 1, k) /\ Fits(k)
    BY <1>5, <2>1, <2>3
  <2>5. b = P
    <3>1. SubSeq(P, 1, n) = P
      BY <1>2, Beginning DEF n
    <3> HIDE DEF k
    <3> QED
      BY <2>1, <2>4, <3>1 DEF Fits
  <2> HIDE DEF s, t, p, k
  <2>6. b # <<>> /\ Joined(b) = no
    BY <1>3, <2>5
  <2>7. Becomes(t, s, <<>>, s.large, s.ftLength, Append(s.got, Joined(b)))
    BY <2>2, <2>6, Handled
  <2> HIDE DEF b
  <2>8. t.little = <<>> /\ t.large = s.large /\ t.ftLength = s.ftLength /\ t.got = Append(s.got, no)
    BY <2>6, <2>7 DEF Becomes
  <2> QED
    BY <2>4, <2>8 DEF t
<1>10. \A k \in 1 .. n - 1 : w[k].got = r.got
  BY <1>2, <1>8
<1>11. WholeAtTheEnd(r, P, no, w)
  BY <1>9, <1>10 DEF n, WholeAtTheEnd
<1> QED
  BY <1>11 DEF P, size

(* A part has been put to the i that the buffer held.                      *)
PartTaken(g, r, P, i, no, total) ==
    /\ g \in Receiver /\ g.little = r.little
    /\ i + 1 # Len(P) => g.large = SubSeq(P, 1, i + 1) /\ g.ftLength = total /\ g.got = r.got
    /\ i + 1 = Len(P) => g.large = <<>> /\ g.ftLength = 0 /\ g.got = Append(r.got, no)

(* A part of a transfer is put to those before it; the last one makes the  *)
(* message.                                                                *)
LEMMA BigHandled ==
    ASSUME NEW no \in Nat, NEW total \in Nat \ {0},
           total <= LargeLimit, NEW r \in Receiver, NEW i \in Nat, NEW P,
           P = Parts(no, total, ChunkSize, "big", "big"), i < Len(P),
           r.large = SubSeq(P, 1, i), r.ftLength = (IF i = 0 THEN 0 ELSE total)
    PROVE  PartTaken(GotMessage(r, P[i + 1]), r, P, i, no, total)
<1> DEFINE n == Len(P)
           p == P[i + 1]
           g == GotMessage(r, p)
           b == SubSeq(P, 1, i)
           c == SubSeq(P, 1, i + 1)
<1>1. ChunkSize \in Nat \ {0} /\ LargeLimit \in Nat
  <2>1. {ChunkSize, LargeLimit} \subseteq Nat \ {0}
    BY NetAssumption
  <2> QED
    BY <2>1
<1>2. /\ P \in Seq(Part) /\ n \in Nat \ {0} /\ Filled(P) = total
      /\ \A k \in 0 .. n - 1 : Filled(SubSeq(P, 1, k)) < total
  <2>1. AreParts(P, no, total, ChunkSize, "big", "big")
    BY <1>1, PartsAre
  <2> QED
    BY <2>1 DEF AreParts
<1>3. /\ Joined(P) = no
      /\ \A k \in 1 .. n : P[k].kind = "big" /\ P[k].total = total /\ P[k] \in Posted
  <2>1. MakeIt(P, no, total, ChunkSize, "big", "big")
    BY <1>1, PiecesMakeIt
  <2> QED
    BY <2>1 DEF MakeIt
<1> HIDE DEF n
<1>4. i \in 0 .. n - 1 /\ i + 1 \in 1 .. n /\ (i + 1 # n => i + 1 \in 0 .. n - 1)
  BY <1>2 DEF n
<1>5. p.kind = "big" /\ p.total = total /\ p \in Posted
  BY <1>3, <1>4
<1>6. /\ b \in Seq(Part) /\ p \in Part /\ c = Append(b, p)
  <2>1. P \in Seq(Part) /\ i \in 0 .. Len(P) - 1
    BY <1>2, <1>4 DEF n
  <2> QED
    BY <2>1, OneMore
<1> HIDE DEF p
<1>7. /\ Filled(c) = Filled(b) + p.data
      /\ Filled(c) \in Nat
      /\ i + 1 # n => Filled(c) < total
      /\ i + 1 = n => c = P /\ Filled(c) = total
  <2>1. Filled(c) = Filled(b) + p.data
    BY <1>6, FilledGrows
  <2>2. i + 1 # n => Filled(c) < total
    BY <1>2, <1>4
  <2>3. i + 1 = n => c = P
    BY <1>2, Beginning DEF n
  <2> HIDE DEF c, b
  <2>4. c \in Seq(Part)
    BY <1>6
  <2>5. Filled(c) \in Nat
    BY <1>6, <2>4, FilledGrows
  <2>6. i + 1 = n => Filled(c) = total
    BY <1>2, <2>3
  <2> QED
    BY <2>1, <2>2, <2>3, <2>5, <2>6
<1> DEFINE old == IF r.ftLength \in {0, p.total} THEN r.large ELSE <<>>
           full == AddMessage(old, p, LargeLimit)
<1>8. old = b
  BY <1>5
<1>9. full = c
  <2> HIDE DEF b, c, old
  <2>1. Filled(b) + p.data <= LargeLimit
    <3> DEFINE z == Filled(b) + p.data
    <3>1. z \in Nat /\ (z < total \/ z = total)
      BY <1>7
    <3> HIDE DEF z
    <3>2. z <= LargeLimit
      BY <1>1, <3>1
    <3> QED
      BY <3>2 DEF z
  <2>2. AddMessage(b, p, LargeLimit) = Append(b, p)
    BY <1>6, <2>1, BufferIs
  <2> QED
    BY <1>6, <1>8, <2>2
<1>10. /\ Filled(full) < p.total => Becomes(g, r, r.little, full, p.total, r.got)
       /\ ~(Filled(full) < p.total) =>
             Becomes(g, r, r.little, <<>>, 0,
                     IF Filled(full) = p.total
                     THEN Append(r.got, Joined(full)) ELSE r.got)
  BY <1>5, Handled
<1> HIDE DEF g, b, c, old, full
<1>11. /\ i + 1 # n => Becomes(g, r, r.little, c, total, r.got)
       /\ i + 1 = n => Becomes(g, r, r.little, <<>>, 0, Append(r.got, no))
  <2>1. i + 1 # n => Becomes(g, r, r.little, c, total, r.got)
    BY <1>5, <1>7, <1>9, <1>10
  <2>2. ASSUME i + 1 = n PROVE Becomes(g, r, r.little, <<>>, 0, Append(r.got, no))
    <3>1. Filled(full) = total /\ ~(total < total) /\ Joined(full) = no
      BY <1>3, <1>7, <1>9, <2>2
    <3> QED
      BY <1>5, <1>10, <3>1
  <2> QED
    BY <2>1, <2>2
<1>12. PartTaken(g, r, P, i, no, total)
  BY <1>11 DEF Becomes, PartTaken, n, c
<1> QED
  BY <1>12 DEF g, p
-----------------------------------------------------------------------------
(* i parts of the transfer no have been posted, and are all that the       *)
(* receiver that handles what has been posted holds.                       *)
Uploading(r, no, len, i) ==
    LET P == Parts(no, len, ChunkSize, "big", "big")
    IN  /\ i < Len(P) /\ Len(upload) = Len(P) - i
        /\ \A k \in 1 .. Len(P) - i : upload[k] = P[i + k]
        /\ r.large = SubSeq(P, 1, i) /\ r.ftLength = IF i = 0 THEN 0 ELSE len

UploadFits(r) ==
    /\ upload \in Seq(Part)
    /\ upload = <<>> => r.large = <<>> /\ r.ftLength = 0
    /\ upload # <<>> =>
          \E no \in 1 .. posts, len \in Transfers, i \in Nat : Uploading(r, no, len, i)

(* The invariant: some story explains what is under way, what has been     *)
(* heard, and what is still to be posted.                                  *)
NetInv ==
    /\ posts \in 0 .. MaxMessages /\ clustering \in BOOLEAN
    /\ \A k \in 1 .. Len(due) : due[k] \in 1 .. posts
    /\ \E log, v, r :
          UnderWay(log, v) /\ Heard(v) /\ r = v[nextStamp] /\ UploadFits(r)

(* The last receiver of a story.                                           *)
LEMMA InTheEnd ==
    ASSUME NEW log, NEW v, UnderWay(log, v), Heard(v)
    PROVE  /\ v[nextStamp] \in Receiver /\ nextStamp \in Nat /\ due \in Seq(Nat)
           /\ v[nextStamp].got = due /\ v[nextStamp].little = <<>>
<1>1. log \in Seq(Posted) /\ Len(log) = nextStamp /\ v \in [0 .. Len(log) -> Receiver]
  BY DEF UnderWay, Told
<1>2. nextStamp \in Nat
  BY <1>1
<1>3. v[nextStamp] \in Receiver
  BY <1>1, <1>2
<1> QED
  BY <1>2, <1>3 DEF Heard

(* A transfer goes on as long as its buffer is left alone.                 *)
LEMMA UploadStays ==
    ASSUME NEW r, NEW s, UploadFits(r), s.large = r.large, s.ftLength = r.ftLength,
           upload' = upload, posts \in Nat, posts' \in Nat, posts <= posts'
    PROVE  UploadFits(s)'
<1>1. ASSUME NEW no, NEW len, NEW i, Uploading(r, no, len, i)
      PROVE  Uploading(s, no, len, i)'
  BY <1>1 DEF Uploading
<1>2. \A no \in 1 .. posts : no \in 1 .. posts'
  OBVIOUS
<1> QED
  BY <1>1, <1>2 DEF UploadFits

(* In the beginning nothing has been posted, and the story is empty.       *)
LEMMA NetBegins ==
    ASSUME NetInit
    PROVE  NetInv
<1> DEFINE none == <<>>
           r == [step |-> 0, held |-> {}, little |-> <<>>, large |-> <<>>, ftLength |-> 0,
                 got |-> <<>>]
           v == [k \in 0 .. 0 |-> r]
<1>1. /\ posts = 0 /\ upload = none /\ nextStamp = 0 /\ clustering = FALSE
      /\ clustered = none /\ wire = {} /\ due = none /\ rx = r /\ MaxMessages \in Nat
  BY NetAssumption DEF NetInit
<1>2. /\ none \in Seq(Posted) /\ none \in Seq(Parcel) /\ none \in Seq(Nat)
      /\ none \in Seq(Part) /\ Len(none) = 0 /\ 1 .. 0 = {} /\ none = <<>>
  OBVIOUS
<1>3. /\ r \in Receiver /\ r.step = 0 /\ r.held = {} /\ r.little = none /\ r.large = none
      /\ r.ftLength = 0 /\ r.got = none
  BY <1>2 DEF Receiver
<1> HIDE DEF none, r
<1>4. v \in [0 .. 0 -> Receiver] /\ v[0] = r /\ \A k \in 0 .. 0 : k = 0
  BY <1>3
<1> HIDE DEF v
<1>5. Told(none, v)
  BY <1>2, <1>3, <1>4 DEF Told
<1>6. Hears(rx, none, v)
  <2>1. IsFiniteSet({}) /\ 0 \in 0 .. 0
    BY FS_EmptySet
  <2> QED
    BY <1>1, <1>2, <1>3, <1>4, <2>1 DEF Hears, SameBuffers
<1>7. UnderWay(none, v)
  BY <1>1, <1>2, <1>3, <1>5, <1>6 DEF UnderWay
<1>8. Heard(v)
  BY <1>1, <1>2, <1>3, <1>4 DEF Heard, Prefix
<1>9. UploadFits(r) /\ r = v[nextStamp]
  BY <1>1, <1>2, <1>3, <1>4 DEF UploadFits
<1>10. posts \in 0 .. MaxMessages /\ clustering \in BOOLEAN
  <2>1. 0 \in 0 .. MaxMessages
    BY <1>1
  <2> QED
    BY <1>1, <2>1
<1> QED
  BY <1>1, <1>2, <1>7, <1>8, <1>9, <1>10 DEF NetInv

(* A step that posts nothing whole and leaves transfers alone.             *)
LEMMA NetStays ==
    ASSUME NEW log, NEW v, NEW r, Heard(v), r = v[nextStamp], UploadFits(r),
           UnderWay(log, v)',
           posts \in 0 .. MaxMessages, posts' \in 0 .. MaxMessages, posts <= posts',
           MaxMessages \in Nat, clustering' \in BOOLEAN, due' = due, nextStamp' = nextStamp,
           upload' = upload, \A k \in 1 .. Len(due) : due[k] \in 1 .. posts
    PROVE  NetInv'
<1>1. Heard(v)'
  BY DEF Heard
<1>2. posts \in Nat /\ posts' \in Nat
  OBVIOUS
<1>3. UploadFits(r)'
  BY <1>2, UploadStays
<1>4. \A k \in 1 .. Len(due') : due'[k] \in 1 .. posts'
  BY <1>2
<1>5. r = v[nextStamp']
  OBVIOUS
<1> QED
  BY <1>1, <1>3, <1>4, <1>5 DEF NetInv
-----------------------------------------------------------------------------
(* What the constants are.                                                 *)
LEMMA ConstantsAre ==
    /\ ChunkSize \in Nat \ {0} /\ BigLimit \in Nat /\ LittleLimit \in Nat
    /\ LargeLimit \in Nat /\ MaxMessages \in Nat /\ NoStamp \notin Nat
    /\ ChunkSize + 12 <= BigLimit /\ BigLimit <= LittleLimit
    /\ PacketMax \in Nat /\ ChunkSize + 13 <= PacketMax
    /\ \A len \in Lengths : /\ len \in Nat \ {0} /\ len <= BigLimit
                            /\ len <= ChunkSize + 6 \/ len > ChunkSize + 12
    /\ \A len \in Transfers : len \in Nat \ {0} /\ len > BigLimit /\ len <= LargeLimit
<1>1. {ChunkSize, BigLimit, ItemMax, PacketMax, LittleLimit, LargeLimit} \subseteq Nat \ {0}
  BY NetAssumption
<1>2. /\ ChunkSize \in Nat \ {0} /\ BigLimit \in Nat /\ LittleLimit \in Nat
      /\ LargeLimit \in Nat /\ PacketMax \in Nat
  BY <1>1
<1>3. \A n \in Lengths : n \in 1 .. BigLimit /\ (n <= ChunkSize + 6 \/ n > ChunkSize + 12)
  BY NetAssumption
<1>4. \A n \in Transfers : n \in BigLimit + 1 .. LargeLimit
  BY NetAssumption
<1>5. /\ ChunkSize + 12 <= BigLimit /\ BigLimit <= LittleLimit /\ ChunkSize + 13 <= PacketMax
      /\ NoStamp \notin Nat /\ MaxMessages \in Nat
  BY NetAssumption
<1>6. \A len \in Lengths : /\ len \in Nat \ {0} /\ len <= BigLimit
                           /\ len <= ChunkSize + 6 \/ len > ChunkSize + 12
  BY <1>2, <1>3
<1>7. \A len \in Transfers : len \in Nat \ {0} /\ len > BigLimit /\ len <= LargeLimit
  BY <1>2, <1>4
<1> QED
  BY <1>2, <1>5, <1>6, <1>7

(* post() of a message, whole or in chunks.                                *)
LEMMA PostKeeps ==
    ASSUME NetInv, NEW len \in Lengths, PostReliable(len)
    PROVE  NetInv'
<1> DEFINE no == posts + 1
           q == Split(no, len)
<1>1. PICK log, v, r : UnderWay(log, v) /\ Heard(v) /\ r = v[nextStamp] /\ UploadFits(r)
  BY DEF NetInv
<1>2. /\ posts < MaxMessages /\ posts' = no /\ PutReliable(q) /\ due' = Append(due, no)
      /\ upload' = upload /\ clustering' = clustering /\ rx' = rx
  BY DEF PostReliable
<1>3. /\ r \in Receiver /\ nextStamp \in Nat /\ due \in Seq(Nat) /\ r.got = due
      /\ r.little = <<>>
  BY <1>1, InTheEnd
<1>4. /\ posts \in Nat /\ no \in Nat \ {0} /\ no \in 0 .. MaxMessages /\ posts <= no
      /\ clustering' \in BOOLEAN /\ \A k \in 1 .. Len(due) : due[k] \in 1 .. posts
  BY <1>2, ConstantsAre DEF NetInv
<1>5. PICK n : n = no
  OBVIOUS
<1> HIDE DEF no
<1>6. PICK p : p = q
  OBVIOUS
<1> HIDE DEF q
<1>7. /\ p \in Seq(Posted) /\ p # <<>>
      /\ \A k \in 1 .. Len(p) : p[k].data + Header(p[k]) <= ChunkSize + 6
      /\ \A w : Handling(r, p, w) => WholeAtTheEnd(r, p, n, w)
  <2>1. CASE len <= ChunkSize + 12
    <3>1. p = Parts(n, len, len, "plain", "plain")
      BY <1>5, <1>6, <2>1 DEF Split, q
    <3>2. len \in Nat \ {0} /\ len <= ChunkSize + 6 /\ ChunkSize \in Nat /\ n \in Nat
      BY <1>4, <1>5, <2>1, ConstantsAre
    <3>3. MakeIt(p, n, len, len, "plain", "plain") /\ Len(p) = 1
      BY <3>1, <3>2, PiecesMakeIt, OnePiece
    <3>4. /\ p \in Seq(Posted) /\ p # <<>> /\ p[1] \in Posted /\ p[1].kind = "plain"
          /\ p[1].no = n /\ p[1].data \in Nat /\ p[1].data <= len
      BY <3>3 DEF MakeIt
    <3>5. \A k \in 1 .. Len(p) : k = 1
      BY <3>3
    <3>6. p[1].data + Header(p[1]) <= ChunkSize + 6
      <4>1. Header(p[1]) = 0
        BY <3>4 DEF Header
      <4> QED
        BY <3>2, <3>4, <4>1
    <3>7. ASSUME NEW w, Handling(r, p, w)
          PROVE  WholeAtTheEnd(r, p, n, w)
      <4>1. 1 \in 1 .. Len(p) /\ 1 - 1 = 0
        BY <3>3
      <4>2. w[1] = GotMessage(r, p[1])
        BY <3>7, <4>1 DEF Handling
      <4>3. Becomes(w[1], r, r.little, r.large, r.ftLength, Append(r.got, p[1].no))
        BY <1>3, <3>4, <4>2, Handled
      <4>4. 1 .. Len(p) - 1 = {}
        BY <3>3
      <4> QED
        BY <1>3, <3>3, <3>4, <4>3, <4>4 DEF Becomes, WholeAtTheEnd
    <3> QED
      BY <3>4, <3>5, <3>6, <3>7
  <2>2. CASE ~(len <= ChunkSize + 12)
    <3>1. ~(len > BigLimit) /\ len \in Nat \ {0} /\ len <= LittleLimit /\ n \in Nat
          /\ ChunkSize \in Nat /\ ChunkSize + 4 \in Nat \ {0}
      BY <1>4, <1>5, ConstantsAre
    <3> DEFINE size == ChunkSize + 4
    <3>2. p = Parts(n, len, size, "body", "tail")
      BY <1>5, <1>6, <2>2, <3>1 DEF Split, q
    <3>3. MakeIt(p, n, len, size, "body", "tail")
      <4>1. size \in Nat \ {0}
        BY <3>1
      <4> HIDE DEF size
      <4> QED
        BY <3>1, <3>2, <4>1, PiecesMakeIt
    <3>4. ASSUME NEW k \in 1 .. Len(p)
          PROVE  p[k].data + Header(p[k]) <= ChunkSize + 6
      <4>1. p[k].kind \in {"body", "tail"} /\ p[k].data \in Nat /\ p[k].data <= size
        <5> HIDE DEF size
        <5> QED
          BY <3>3 DEF MakeIt
      <4>2. Header(p[k]) = 2
        BY <4>1 DEF Header
      <4> QED
        BY <3>1, <4>1, <4>2
    <3>5. ASSUME NEW w, Handling(r, p, w)
          PROVE  WholeAtTheEnd(r, p, n, w)
      <4> DEFINE P == Parts(n, len, ChunkSize + 4, "body", "tail")
      <4>1. Handling(r, P, w) /\ p = P
        BY <3>2, <3>5
      <4>2. WholeAtTheEnd(r, P, n, w)
        BY <1>3, <3>1, <4>1, ChunksHandled
      <4> HIDE DEF P
      <4> QED
        BY <4>1, <4>2
    <3>6. p \in Seq(Posted) /\ p # <<>>
      BY <3>3 DEF MakeIt
    <3> QED
      BY <3>4, <3>5, <3>6
  <2> QED
    BY <2>1, <2>2
<1>8. PICK w : Handling(r, p, w)
  BY <1>3, <1>7, InTurn
<1>9. PICK s : s = w[Len(p)]
  OBVIOUS
<1>10. /\ \A k \in 1 .. Len(p) - 1 : w[k].got = due
       /\ s.little = <<>> /\ s.large = r.large /\ s.ftLength = r.ftLength
       /\ s.got = Append(due, n)
  BY <1>3, <1>7, <1>8, <1>9 DEF WholeAtTheEnd
<1>11. PICK more, x : UnderWay(more, x)' /\ Heard(x)' /\ x[nextStamp'] = s
  <2>1. PutReliable(p) /\ s.got = due' /\ Handling(v[nextStamp], p, w)
        /\ due' = Append(due, n) /\ n \in Nat
    BY <1>1, <1>2, <1>4, <1>5, <1>6, <1>8, <1>10
  <2>2. w[Len(p)].got = due' /\ w[Len(p)].little = <<>>
    BY <1>9, <1>10, <2>1
  <2>3. due' = due \/ \E e \in Nat : due' = Append(due, e)
    BY <2>1
  <2>4. \E more, x : UnderWay(more, x)' /\ Heard(x)' /\ x[nextStamp'] = w[Len(p)]
    BY <1>1, <1>2, <1>7, <1>10, <2>1, <2>2, <2>3, PostedIs
  <2> QED
    BY <1>9, <2>4
<1>12. UploadFits(s)'
  BY <1>1, <1>2, <1>4, <1>10, UploadStays
<1>13. \A k \in 1 .. Len(due') : due'[k] \in 1 .. posts'
  <2>1. \A k \in 1 .. Len(due') : (k \in 1 .. Len(due) /\ due'[k] = due[k]) \/ due'[k] = no
    <3>1. /\ Len(due') = Len(due) + 1 /\ due'[Len(due) + 1] = no /\ Len(due) \in Nat
          /\ \A k \in 1 .. Len(due) : due'[k] = due[k]
      <4>1. due \in Seq(Nat) /\ no \in Nat
        BY <1>3, <1>4
      <4>2. Len(due) \in Nat
        BY <4>1
      <4> QED
        BY <1>2, <4>1, <4>2, AppendKeeps
    <3> QED
      BY <3>1
  <2>2. no \in 1 .. no /\ \A k \in 1 .. posts : k \in 1 .. no
    BY <1>4
  <2> QED
    BY <1>2, <1>4, <2>1, <2>2
<1> QED
  BY <1>2, <1>4, <1>11, <1>12, <1>13 DEF NetInv

(* post() of a message that is not reliable.                               *)
LEMMA PostUnreliableKeeps ==
    ASSUME NetInv, NEW len \in Lengths, PostUnreliable(len)
    PROVE  NetInv'
<1> DEFINE p == Split(posts + 1, len)[1]
           ms == <<[stamp |-> NoStamp, part |-> p]>>
<1>1. PICK log, v, r : UnderWay(log, v) /\ Heard(v) /\ r = v[nextStamp] /\ UploadFits(r)
  BY DEF NetInv
<1>2. /\ posts < MaxMessages /\ len <= ChunkSize + 12 /\ posts' = posts + 1 /\ Put(ms)
      /\ upload' = upload /\ nextStamp' = nextStamp /\ clustering' = clustering
      /\ rx' = rx /\ due' = due
  BY DEF PostUnreliable
<1>3. /\ posts \in 0 .. MaxMessages /\ posts' \in 0 .. MaxMessages /\ posts <= posts' /\ MaxMessages \in Nat
      /\ clustering' \in BOOLEAN /\ posts + 1 \in Nat
      /\ \A k \in 1 .. Len(due) : due[k] \in 1 .. posts
  BY <1>2, ConstantsAre DEF NetInv
<1>4. PICK m : m = [stamp |-> NoStamp, part |-> p]
  OBVIOUS
<1>5. Carried(m, log) /\ m \in Parcel /\ m.stamp = NoStamp
  <2> DEFINE no == posts + 1
             P == Parts(no, len, len, "plain", "plain")
  <2>1. no \in Nat /\ len \in Nat \ {0} /\ ChunkSize \in Nat
    BY <1>3, ConstantsAre
  <2>2. p = P[1]
    BY <1>2 DEF Split
  <2> HIDE DEF no
  <2>3. MakeIt(P, no, len, len, "plain", "plain") /\ Len(P) = 1
    BY <2>1, PiecesMakeIt, OnePiece
  <2> HIDE DEF P
  <2>4. p \in Posted /\ p.kind = "plain" /\ p.data \in Nat /\ p.data <= len
    <3>1. 1 \in 1 .. Len(P)
      BY <2>3
    <3> HIDE DEF p
    <3> QED
      BY <2>2, <2>3, <3>1 DEF MakeIt
  <2> HIDE DEF p
  <2>5. m.stamp = NoStamp /\ m.part = p /\ p \in Part
    BY <1>4, <2>4 DEF Posted
  <2>6. m \in Parcel
    BY <1>4, <2>5 DEF Parcel
  <2>7. Size(m) = p.data
    BY <2>4, <2>5 DEF Size, Header
  <2>8. Size(m) <= ChunkSize + 12
    BY <1>2, <2>1, <2>4, <2>7
  <2> QED
    BY <2>5, <2>6, <2>8 DEF Carried
<1>6. UnderWay(log, v)'
  <2> HIDE DEF p
  <2>1. Put(<<m>>)
    BY <1>2, <1>4
  <2>2. Continues(log, v, log, v) /\ nextStamp' = Len(log) /\ Len(log) \in Nat
    <3>1. Told(log, v) /\ Len(log) = nextStamp
      BY <1>1 DEF UnderWay
    <3>2. Len(log) \in Nat
      BY <3>1 DEF Told
    <3> QED
      BY <1>2, <3>1, <3>2 DEF Continues
  <2>3. \A x \in nextStamp .. nextStamp' - 1 : x \in StampsIn(<<m>>)
    BY <1>2, <2>2
  <2>4. <<m>> \in Seq(Parcel) /\ \A k \in 1 .. Len(<<m>>) : Carried(<<m>>[k], log)
    BY <1>5
  <2>5. rx' = rx
    BY <1>2
  <2> QED
    BY <1>1, <2>1, <2>2, <2>3, <2>4, <2>5, PutIs
<1> HIDE DEF p
<1> QED
  BY <1>1, <1>2, <1>3, <1>6, NetStays

(* A transfer is split, and nothing of it is posted yet.                   *)
LEMMA StartTransferKeeps ==
    ASSUME NetInv, NEW len \in Transfers, StartTransfer(len)
    PROVE  NetInv'
<1>1. PICK log, v, r : UnderWay(log, v) /\ Heard(v) /\ r = v[nextStamp] /\ UploadFits(r)
  BY DEF NetInv
<1>2. /\ posts < MaxMessages /\ upload = <<>> /\ posts' = posts + 1
      /\ upload' = Split(posts + 1, len)
      /\ nextStamp' = nextStamp /\ clustering' = clustering
      /\ clustered' = clustered /\ wire' = wire /\ rx' = rx /\ due' = due
  BY DEF StartTransfer
<1>3. /\ posts + 1 \in 1 .. posts' /\ posts' \in 0 .. MaxMessages /\ clustering' \in BOOLEAN
      /\ posts + 1 \in Nat
      /\ \A k \in 1 .. Len(due) : due[k] \in 1 .. posts'
  <2>1. /\ posts \in 0 .. MaxMessages /\ clustering \in BOOLEAN
        /\ \A k \in 1 .. Len(due) : due[k] \in 1 .. posts
    BY DEF NetInv
  <2>2. posts \in Nat /\ MaxMessages \in Nat
    BY <2>1, ConstantsAre
  <2>3. /\ posts + 1 \in 1 .. posts + 1 /\ posts + 1 \in 0 .. MaxMessages /\ posts + 1 \in Nat
        /\ \A k \in 1 .. posts : k \in 1 .. posts + 1
    <3>1. posts < MaxMessages
      BY <1>2
    <3> QED
      BY <2>2, <3>1
  <2>4. \A k \in 1 .. Len(due) : due[k] \in 1 .. posts + 1
    BY <2>1, <2>3
  <2> QED
    BY <1>2, <2>1, <2>3, <2>4
<1>4. PICK no : no = posts + 1
  OBVIOUS
<1>5. PICK P : P = Parts(no, len, ChunkSize, "big", "big")
  OBVIOUS
<1>6. /\ len \in Nat \ {0} /\ len > ChunkSize + 12 /\ len > BigLimit /\ ChunkSize \in Nat \ {0}
  BY ConstantsAre
<1>7. upload' = P
  BY <1>2, <1>4, <1>5, <1>6 DEF Split
<1>8. AreParts(P, no, len, ChunkSize, "big", "big")
  BY <1>3, <1>4, <1>5, <1>6, PartsAre
<1>9. P \in Seq(Part) /\ Len(P) \in Nat \ {0} /\ SubSeq(P, 1, 0) = <<>>
  <2>1. P \in Seq(Part) /\ Len(P) \in Nat \ {0}
    BY <1>8 DEF AreParts
  <2> QED
    BY <2>1, Beginning
<1>10. r.large = <<>> /\ r.ftLength = 0
  BY <1>1, <1>2 DEF UploadFits
<1>11. Uploading(r, no, len, 0)'
  <2>1. 0 < Len(P) /\ Len(P) = Len(P) - 0 /\ \A k \in 1 .. Len(P) - 0 : P[k] = P[0 + k]
    BY <1>9
  <2> QED
    BY <1>5, <1>7, <1>9, <1>10, <2>1 DEF Uploading
<1>12. UploadFits(r)'
  <2>1. P # <<>>
    BY <1>9
  <2>2. no \in 1 .. posts'
    BY <1>3, <1>4
  <2> QED
    BY <1>7, <1>9, <1>11, <2>1, <2>2 DEF UploadFits
<1>13. UnderWay(log, v)'
  BY <1>1, <1>2 DEF UnderWay, Somewhere
<1>14. Heard(v)'
  BY <1>1, <1>2 DEF Heard
<1>15. r = v[nextStamp'] /\ \A k \in 1 .. Len(due') : due'[k] \in 1 .. posts'
  BY <1>1, <1>2, <1>3
<1> QED
  BY <1>3, <1>12, <1>13, <1>14, <1>15 DEF NetInv

(* One message, and what is handled of it.                                 *)
LEMMA OnePosted ==
    ASSUME NEW log, NEW v, NEW r, UnderWay(log, v), Heard(v), r = v[nextStamp],
           NEW p \in Posted, PutReliable(<<p>>), rx' = rx,
           p.data + Header(p) <= ChunkSize + 6,
           NEW g, g = GotMessage(r, p), g.got = due', g.little = <<>>,
           due' = due \/ \E e \in Nat : due' = Append(due, e)
    PROVE  \E more, x : UnderWay(more, x)' /\ Heard(x)' /\ x[nextStamp'] = g
<1>1. PICK q : q = <<p>>
  OBVIOUS
<1>2. /\ q \in Seq(Posted) /\ q # <<>> /\ Len(q) = 1 /\ \A k \in 1 .. 1 : q[k] = p
      /\ 1 .. 1 - 1 = {}
  BY <1>1
<1>3. r \in Receiver
  BY InTheEnd
<1>4. PICK w : Handling(r, q, w)
  BY <1>2, <1>3, InTurn
<1>5. w[1] = g
  <2>1. 1 \in 1 .. Len(q) /\ 1 - 1 = 0
    BY <1>2
  <2> QED
    BY <1>2, <1>4, <2>1 DEF Handling
<1>6. /\ PutReliable(q) /\ Handling(v[nextStamp], q, w)
      /\ \A k \in 1 .. Len(q) : q[k].data + Header(q[k]) <= ChunkSize + 6
      /\ \A k \in 1 .. Len(q) - 1 : w[k].got = due
      /\ w[Len(q)].got = due' /\ w[Len(q)].little = <<>>
  BY <1>1, <1>2, <1>4, <1>5
<1>7. \E more, x : UnderWay(more, x)' /\ Heard(x)' /\ x[nextStamp'] = w[Len(q)]
  BY <1>2, <1>6, PostedIs
<1> QED
  BY <1>2, <1>5, <1>7

(* A part of the transfer is posted; the last one makes it whole.          *)
LEMMA NextPartKeeps ==
    ASSUME NetInv, NextPart
    PROVE  NetInv'
<1>1. PICK log, v, r : UnderWay(log, v) /\ Heard(v) /\ r = v[nextStamp] /\ UploadFits(r)
  BY DEF NetInv
<1>2. /\ upload # <<>> /\ PutReliable(<<Head(upload)>>) /\ upload' = Tail(upload)
      /\ due' = (IF Len(upload) = 1 THEN Append(due, Head(upload).no) ELSE due)
      /\ posts' = posts /\ clustering' = clustering /\ rx' = rx
  BY DEF NextPart
<1>3. /\ r \in Receiver /\ due \in Seq(Nat) /\ r.got = due /\ r.little = <<>>
  BY <1>1, InTheEnd
<1>4. /\ posts \in 0 .. MaxMessages /\ posts' = posts /\ clustering' \in BOOLEAN
      /\ \A k \in 1 .. Len(due) : due[k] \in 1 .. posts
  BY <1>2 DEF NetInv
<1>5. PICK no \in 1 .. posts, len \in Transfers, i \in Nat : Uploading(r, no, len, i)
  BY <1>1, <1>2 DEF UploadFits
<1>6. PICK P : P = Parts(no, len, ChunkSize, "big", "big")
  OBVIOUS
<1>7. /\ len \in Nat \ {0} /\ len <= LargeLimit /\ ChunkSize \in Nat \ {0} /\ no \in Nat
      /\ no \in 1 .. posts
  BY <1>4, <1>5, ConstantsAre
<1>8. /\ P \in Seq(Part) /\ Len(P) \in Nat \ {0}
      /\ \A k \in 1 .. Len(P) :
            P[k] \in Posted /\ P[k].no = no /\ P[k].data \in Nat /\ P[k].data <= ChunkSize
            /\ P[k].kind = "big"
  <2>1. AreParts(P, no, len, ChunkSize, "big", "big") /\ MakeIt(P, no, len, ChunkSize, "big", "big")
    BY <1>6, <1>7, PartsAre, PiecesMakeIt
  <2> QED
    BY <2>1 DEF AreParts, MakeIt
<1>9. /\ i < Len(P) /\ Len(upload) = Len(P) - i
      /\ \A k \in 1 .. Len(P) - i : upload[k] = P[i + k]
      /\ r.large = SubSeq(P, 1, i) /\ r.ftLength = (IF i = 0 THEN 0 ELSE len)
      /\ upload \in Seq(Part)
  BY <1>1, <1>5, <1>6 DEF Uploading, UploadFits
<1>10. PICK n : n = Len(P)
  OBVIOUS
<1>11. PICK p : p = P[i + 1]
  OBVIOUS
<1>12. /\ i + 1 \in 1 .. n /\ Head(upload) = p /\ p \in Posted /\ p.no = no
       /\ p.data \in Nat /\ p.data <= ChunkSize /\ p.kind = "big"
  <2>1. i + 1 \in 1 .. n /\ 1 \in 1 .. Len(P) - i
    <3>1. n \in Nat \ {0} /\ i < n /\ n = Len(P)
      BY <1>8, <1>9, <1>10
    <3> QED
      BY <3>1
  <2>2. Head(upload) = upload[1]
    BY <1>2, <1>9
  <2> QED
    BY <1>8, <1>9, <1>10, <1>11, <2>1, <2>2
<1>13. PICK g : g = GotMessage(r, p)
  OBVIOUS
<1>14. /\ g \in Receiver /\ g.little = r.little
       /\ i + 1 # n => g.large = SubSeq(P, 1, i + 1) /\ g.ftLength = len /\ g.got = r.got
       /\ i + 1 = n => g.large = <<>> /\ g.ftLength = 0 /\ g.got = Append(r.got, no)
  <2>1. PartTaken(GotMessage(r, P[i + 1]), r, P, i, no, len)
    <3>1. i < Len(P) /\ r.large = SubSeq(P, 1, i) /\ r.ftLength = (IF i = 0 THEN 0 ELSE len)
      BY <1>9
    <3>2. i \in Nat /\ no \in Nat /\ len \in Nat \ {0} /\ len <= LargeLimit
      BY <1>5, <1>7
    <3> QED
      BY <1>3, <1>6, <3>1, <3>2, BigHandled
  <2> QED
    BY <1>10, <1>11, <1>13, <2>1 DEF PartTaken
<1>15. Len(upload) = 1 <=> i + 1 = n
  BY <1>8, <1>9, <1>10
<1>16. PICK more, x : UnderWay(more, x)' /\ Heard(x)' /\ x[nextStamp'] = g
  <2>1. p.data + Header(p) <= ChunkSize + 6
    <3>1. Header(p) = 6
      BY <1>12 DEF Header
    <3> QED
      BY <1>7, <1>12, <3>1
  <2>2. g.got = due' /\ g.little = <<>> /\ (due' = due \/ \E e \in Nat : due' = Append(due, e))
    BY <1>2, <1>3, <1>7, <1>12, <1>14, <1>15
  <2>3. PutReliable(<<p>>) /\ rx' = rx
    BY <1>2, <1>12
  <2>4. p \in Posted
    BY <1>12
  <2> QED
    BY <1>1, <1>13, <2>1, <2>2, <2>3, <2>4, OnePosted
<1>17. UploadFits(g)'
  <2>1. /\ upload' \in Seq(Part) /\ Len(upload') = n - (i + 1)
        /\ \A k \in 1 .. n - (i + 1) : upload'[k] = P[(i + 1) + k]
    <3>1. /\ upload' \in Seq(Part) /\ Len(upload') = Len(upload) - 1
          /\ \A k \in 1 .. Len(upload) - 1 : upload'[k] = upload[k + 1]
      BY <1>2, <1>9
    <3>2. n \in Nat /\ Len(upload) - 1 = n - (i + 1)
      BY <1>8, <1>9, <1>10
    <3>3. ASSUME NEW k \in 1 .. n - (i + 1) PROVE upload'[k] = P[(i + 1) + k]
      <4>1. k \in 1 .. Len(upload) - 1 /\ k + 1 \in 1 .. Len(P) - i /\ i + (k + 1) = (i + 1) + k
        BY <1>10, <3>2
      <4>2. upload'[k] = upload[k + 1] /\ upload[k + 1] = P[i + (k + 1)]
        BY <1>9, <3>1, <4>1
      <4> QED
        BY <4>1, <4>2
    <3> QED
      BY <3>1, <3>2, <3>3
  <2>2. CASE i + 1 = n
    <3>1. Len(upload') = 0
      BY <1>8, <1>10, <2>1, <2>2
    <3>2. upload' = <<>>
      BY <2>1, <3>1
    <3> QED
      BY <1>14, <2>1, <2>2, <3>2 DEF UploadFits
  <2>3. CASE i + 1 # n
    <3>1. i + 1 < n /\ i + 1 # 0 /\ i + 1 \in Nat /\ n - (i + 1) > 0
      <4>1. n \in Nat /\ i + 1 \in 1 .. n
        BY <1>8, <1>10, <1>12
      <4> QED
        BY <2>3, <4>1
    <3>2. upload' # <<>>
      BY <2>1, <3>1
    <3>3. Uploading(g, no, len, i + 1)'
      BY <1>6, <1>10, <1>14, <2>1, <2>3, <3>1 DEF Uploading
    <3>4. no \in 1 .. posts'
      BY <1>4, <1>7
    <3> QED
      BY <1>5, <2>1, <3>1, <3>2, <3>3, <3>4 DEF UploadFits
  <2> QED
    BY <2>2, <2>3
<1>18. \A k \in 1 .. Len(due') : due'[k] \in 1 .. posts'
  <2>1. \A k \in 1 .. Len(due') : (k \in 1 .. Len(due) /\ due'[k] = due[k]) \/ due'[k] = no
    <3>1. CASE due' = due
      BY <3>1
    <3>2. CASE due' = Append(due, no)
      <4>1. due \in Seq(Nat) /\ no \in Nat
        BY <1>3, <1>7
      <4>2. /\ Len(due) \in Nat /\ Len(due') = Len(due) + 1 /\ due'[Len(due) + 1] = no
            /\ \A k \in 1 .. Len(due) : due'[k] = due[k]
        BY <3>2, <4>1
      <4>3. \A k \in 1 .. Len(due') : k \in 1 .. Len(due) \/ k = Len(due) + 1
        BY <4>2
      <4> QED
        BY <4>2, <4>3
    <3> QED
      BY <1>2, <1>12, <3>1, <3>2
  <2> QED
    BY <1>4, <1>7, <2>1
<1> QED
  BY <1>4, <1>16, <1>17, <1>18 DEF NetInv

(* The transfer is given up: the buffer of the receiver is emptied, too.   *)
LEMMA CancelTransferKeeps ==
    ASSUME NetInv, CancelTransfer
    PROVE  NetInv'
<1>1. PICK log, v, r : UnderWay(log, v) /\ Heard(v) /\ r = v[nextStamp] /\ UploadFits(r)
  BY DEF NetInv
<1>2. PICK p : p = [kind |-> "cancel", no |-> 0, from |-> 0, data |-> 2, total |-> 2]
  OBVIOUS
<1>3. /\ PutReliable(<<p>>) /\ upload' = <<>> /\ posts' = posts
      /\ clustering' = clustering /\ rx' = rx /\ due' = due
  BY <1>2 DEF CancelTransfer
<1>4. /\ r \in Receiver /\ due \in Seq(Nat) /\ r.got = due /\ r.little = <<>>
  BY <1>1, InTheEnd
<1>5. /\ posts' \in 0 .. MaxMessages /\ clustering' \in BOOLEAN
      /\ \A k \in 1 .. Len(due') : due'[k] \in 1 .. posts'
  BY <1>3 DEF NetInv
<1>6. p \in Posted /\ p.kind = "cancel" /\ p.data = 2
  BY <1>2 DEF Posted, Part
<1>7. PICK g : g = GotMessage(r, p)
  OBVIOUS
<1>8. Becomes(g, r, r.little, <<>>, 0, r.got)
  BY <1>4, <1>6, <1>7, Handled
<1>9. g.little = <<>> /\ g.large = <<>> /\ g.ftLength = 0 /\ g.got = due
  BY <1>4, <1>8 DEF Becomes
<1>10. p.data + Header(p) <= ChunkSize + 6
  <2>1. Header(p) = 0 /\ ChunkSize \in Nat
    BY <1>6, ConstantsAre DEF Header
  <2> QED
    BY <1>6, <2>1
<1>11. PICK more, x : UnderWay(more, x)' /\ Heard(x)' /\ x[nextStamp'] = g
  BY <1>1, <1>3, <1>6, <1>7, <1>9, <1>10, OnePosted
<1>12. UploadFits(g)'
  BY <1>3, <1>9 DEF UploadFits
<1> QED
  BY <1>5, <1>11, <1>12 DEF NetInv

(* The cluster begins, and nothing else happens.                           *)
LEMMA BeginClusterKeeps ==
    ASSUME NetInv, BeginCluster
    PROVE  NetInv'
<1>1. PICK log, v, r : UnderWay(log, v) /\ Heard(v) /\ r = v[nextStamp] /\ UploadFits(r)
  BY DEF NetInv
<1>2. /\ clustering' = TRUE /\ posts' = posts /\ upload' = upload /\ nextStamp' = nextStamp
      /\ clustered' = clustered /\ wire' = wire /\ rx' = rx /\ due' = due
  BY DEF BeginCluster
<1>3. UnderWay(log, v)'
  BY <1>1, <1>2 DEF UnderWay, Somewhere
<1>4. /\ posts \in 0 .. MaxMessages /\ posts' \in 0 .. MaxMessages /\ posts <= posts' /\ MaxMessages \in Nat
      /\ clustering' \in BOOLEAN /\ \A k \in 1 .. Len(due) : due[k] \in 1 .. posts
  BY <1>2, ConstantsAre DEF NetInv
<1> QED
  BY <1>1, <1>2, <1>3, <1>4, NetStays

(* sendClustered(): the messages that waited are under way.                *)
LEMMA EndClusterKeeps ==
    ASSUME NetInv, EndCluster
    PROVE  NetInv'
<1>1. PICK log, v, r : UnderWay(log, v) /\ Heard(v) /\ r = v[nextStamp] /\ UploadFits(r)
  BY DEF NetInv
<1>2. PICK out : out = SendClustered(clustered)
  OBVIOUS
<1>3. /\ clustering' = FALSE /\ wire' = wire \cup ToSet(out) /\ clustered' = <<>>
      /\ posts' = posts /\ upload' = upload /\ nextStamp' = nextStamp /\ rx' = rx /\ due' = due
  BY <1>2 DEF EndCluster
<1>4. PICK ms : ms = clustered
  OBVIOUS
<1>5. ms \in Seq(Parcel) /\ \A k \in 1 .. Len(ms) : Carried(ms[k], log)
  BY <1>1, <1>4 DEF UnderWay
<1>6. /\ out \in Seq(Seq(Parcel)) /\ \A i \in 1 .. Len(out) : OnWire(out[i], log)
      /\ StampsIn(clustered) \subseteq StampsOut(out)
  BY <1>2, <1>4, <1>5, ClusterIs
<1>7. ToSet(out) = {out[i] : i \in 1 .. Len(out)}
  <2>1. DOMAIN out = 1 .. Len(out)
    BY <1>6
  <2> QED
    BY <2>1 DEF ToSet
<1>8. \A d \in wire' : OnWire(d, log)
  BY <1>1, <1>3, <1>6, <1>7 DEF UnderWay
<1>9. Somewhere \subseteq Somewhere'
  <2>1. StampsOut(out) = UNION {StampsIn(d) : d \in ToSet(out)}
    BY <1>7 DEF StampsOut
  <2>2. Somewhere' = StampsOf(rx.held) \cup StampsIn(<<>>)
                        \cup UNION {StampsIn(d) : d \in wire \cup ToSet(out)}
    BY <1>3 DEF Somewhere
  <2> QED
    BY <1>6, <2>1, <2>2 DEF Somewhere
<1>10. UnderWay(log, v)'
  <2>1. clustered' \in Seq(Parcel) /\ \A k \in 1 .. Len(clustered') : Carried(clustered'[k], log)
    BY <1>3
  <2>2. \A x \in rx'.step .. nextStamp' - 1 : x \in Somewhere'
    BY <1>1, <1>3, <1>9 DEF UnderWay
  <2>3. /\ Told(log, v) /\ Len(log) = nextStamp' /\ Hears(rx', log, v)
    BY <1>1, <1>3 DEF UnderWay
  <2> QED
    BY <1>8, <2>1, <2>2, <2>3 DEF UnderWay
<1>11. /\ posts \in 0 .. MaxMessages /\ posts' \in 0 .. MaxMessages /\ posts <= posts' /\ MaxMessages \in Nat
       /\ clustering' \in BOOLEAN /\ \A k \in 1 .. Len(due) : due[k] \in 1 .. posts
  <2>1. posts \in 0 .. MaxMessages /\ \A k \in 1 .. Len(due) : due[k] \in 1 .. posts
    BY DEF NetInv
  <2>2. MaxMessages \in Nat /\ clustering' \in BOOLEAN
    BY <1>3, ConstantsAre
  <2>3. posts' \in 0 .. MaxMessages /\ posts <= posts'
    BY <1>3, <2>1, <2>2
  <2> QED
    BY <2>1, <2>2, <2>3
<1> QED
  BY <1>1, <1>3, <1>10, <1>11, NetStays

(* A datagram arrives: its messages are handled, or kept.                  *)
LEMMA GotPacketKeeps ==
    ASSUME NetInv, NEW d \in wire, GotPacket(d)
    PROVE  NetInv'
<1>1. PICK log, v, r : UnderWay(log, v) /\ Heard(v) /\ r = v[nextStamp] /\ UploadFits(r)
  BY DEF NetInv
<1>2. /\ wire' = wire \ {d} /\ rx' = Through(Arrival, rx, d)
      /\ posts' = posts /\ upload' = upload /\ nextStamp' = nextStamp
      /\ clustering' = clustering /\ clustered' = clustered /\ due' = due
  BY DEF GotPacket, Arrival
<1>3. PICK a, b, e : a = rx /\ b = rx' /\ e = d
  OBVIOUS
<1>4. Told(log, v) /\ Hears(a, log, v) /\ AsTold(e, log)
  <2>1. OnWire(e, log) /\ Told(log, v) /\ Hears(a, log, v)
    BY <1>1, <1>3 DEF UnderWay
  <2> QED
    BY <2>1 DEF OnWire, Carried, AsTold
<1>5. b = Through(Arrival, a, e)
  BY <1>2, <1>3
<1>6. /\ Hears(b, log, v) /\ b.step >= a.step
      /\ \A x \in StampsOf(a.held) \cup StampsIn(e) : x >= b.step => x \in StampsOf(b.held)
  BY <1>4, <1>5, PacketIs
<1>7. \A x \in rx'.step .. nextStamp' - 1 : x \in Somewhere'
  <2>1. a.step \in Nat /\ b.step \in Nat /\ nextStamp \in Nat
    BY <1>1, <1>4, <1>6, ReceiverIs DEF Hears, UnderWay, Told
  <2> SUFFICES ASSUME NEW x \in b.step .. nextStamp - 1 PROVE x \in Somewhere'
    BY <1>2, <1>3
  <2>2. x >= b.step /\ x \in rx.step .. nextStamp - 1
    BY <1>3, <1>6, <2>1
  <2>3. x \in Somewhere
    BY <1>1, <2>2 DEF UnderWay
  <2>4. Somewhere' = StampsOf(b.held) \cup StampsIn(clustered)
                        \cup UNION {StampsIn(c) : c \in wire \ {e}}
    BY <1>2, <1>3 DEF Somewhere
  <2>5. Somewhere \subseteq StampsOf(a.held) \cup StampsIn(e) \cup StampsIn(clustered)
                        \cup UNION {StampsIn(c) : c \in wire \ {e}}
    BY <1>3 DEF Somewhere
  <2> QED
    BY <1>6, <2>2, <2>3, <2>4, <2>5
<1>8. UnderWay(log, v)'
  <2>1. Hears(rx', log, v) /\ Told(log, v) /\ Len(log) = nextStamp'
    BY <1>1, <1>2, <1>3, <1>6 DEF UnderWay
  <2>2. clustered' \in Seq(Parcel) /\ \A k \in 1 .. Len(clustered') : Carried(clustered'[k], log)
    BY <1>1, <1>2 DEF UnderWay
  <2>3. \A c \in wire' : OnWire(c, log)
    BY <1>1, <1>2 DEF UnderWay
  <2> QED
    BY <1>7, <2>1, <2>2, <2>3 DEF UnderWay
<1>9. /\ posts \in 0 .. MaxMessages /\ posts' \in 0 .. MaxMessages /\ posts <= posts' /\ MaxMessages \in Nat
      /\ clustering' \in BOOLEAN /\ \A k \in 1 .. Len(due) : due[k] \in 1 .. posts
  BY <1>2, ConstantsAre DEF NetInv
<1> QED
  BY <1>1, <1>2, <1>8, <1>9, NetStays

(* A datagram is lost: its stamped messages are under way again.           *)
LEMMA LoseKeeps ==
    ASSUME NetInv, NEW d \in wire, LoseDatagram(d)
    PROVE  NetInv'
<1>1. PICK log, v, r : UnderWay(log, v) /\ Heard(v) /\ r = v[nextStamp] /\ UploadFits(r)
  BY DEF NetInv
<1>2. PICK again : again = {<<m>> : m \in {w \in ToSet(d) : w.stamp # NoStamp}}
  OBVIOUS
<1>3. /\ wire' = (wire \ {d}) \cup again
      /\ posts' = posts /\ upload' = upload /\ nextStamp' = nextStamp /\ rx' = rx
      /\ clustering' = clustering /\ clustered' = clustered /\ due' = due
  BY <1>2 DEF LoseDatagram
<1>4. OnWire(d, log) /\ d \in Seq(Parcel) /\ \A k \in 1 .. Len(d) : Carried(d[k], log)
  BY <1>1 DEF UnderWay, OnWire
<1>5. ToSet(d) = {d[i] : i \in 1 .. Len(d)}
  <2>1. DOMAIN d = 1 .. Len(d)
    BY <1>4
  <2> QED
    BY <2>1 DEF ToSet
<1>6. \A c \in again : OnWire(c, log)
  <2> SUFFICES ASSUME NEW c \in again PROVE OnWire(c, log)
    OBVIOUS
  <2>1. PICK i \in 1 .. Len(d) : c = <<d[i]>>
    BY <1>2, <1>5
  <2>2. Carried(d[i], log)
    BY <1>4, <2>1
  <2> QED
    BY <2>1, <2>2, AloneOnWire
<1>7. StampsIn(d) \subseteq UNION {StampsIn(c) : c \in again}
  <2> SUFFICES ASSUME NEW x \in StampsIn(d) PROVE \E c \in again : x \in StampsIn(c)
    OBVIOUS
  <2>1. PICK i \in 1 .. Len(d) : x = d[i].stamp /\ x # NoStamp
    BY DEF StampsIn
  <2>2. <<d[i]>> \in again
    BY <1>2, <1>5, <2>1
  <2>3. d[i] \in Parcel
    BY <1>4, <2>1
  <2>4. StampsIn(<<d[i]>>) = {d[i].stamp} \ {NoStamp}
    BY <2>3, StampsJoin
  <2>5. x \in StampsIn(<<d[i]>>)
    BY <2>1, <2>4
  <2> QED
    BY <2>2, <2>5
<1>8. Somewhere \subseteq Somewhere'
  <2>1. Somewhere' = StampsOf(rx.held) \cup StampsIn(clustered)
                        \cup UNION {StampsIn(c) : c \in (wire \ {d}) \cup again}
    BY <1>3 DEF Somewhere
  <2> QED
    BY <1>7, <2>1 DEF Somewhere
<1>9. UnderWay(log, v)'
  <2>1. Hears(rx', log, v) /\ Told(log, v) /\ Len(log) = nextStamp'
    BY <1>1, <1>3 DEF UnderWay
  <2>2. clustered' \in Seq(Parcel) /\ \A k \in 1 .. Len(clustered') : Carried(clustered'[k], log)
    BY <1>1, <1>3 DEF UnderWay
  <2>3. \A c \in wire' : OnWire(c, log)
    BY <1>1, <1>3, <1>6 DEF UnderWay
  <2>4. \A x \in rx'.step .. nextStamp' - 1 : x \in Somewhere'
    BY <1>1, <1>3, <1>8 DEF UnderWay
  <2> QED
    BY <2>1, <2>2, <2>3, <2>4 DEF UnderWay
<1>10. /\ posts \in 0 .. MaxMessages /\ posts' \in 0 .. MaxMessages /\ posts <= posts' /\ MaxMessages \in Nat
       /\ clustering' \in BOOLEAN /\ \A k \in 1 .. Len(due) : due[k] \in 1 .. posts
  BY <1>3, ConstantsAre DEF NetInv
<1> QED
  BY <1>1, <1>3, <1>9, <1>10, NetStays

(* Every step keeps the invariant.                                         *)
LEMMA NetSteps ==
    ASSUME NetInv, [NetNext]_netVars
    PROVE  NetInv'
<1>1. ASSUME NEW len \in Lengths, PostReliable(len) PROVE NetInv'
  BY <1>1, PostKeeps
<1>2. ASSUME NEW len \in Lengths, PostUnreliable(len) PROVE NetInv'
  BY <1>2, PostUnreliableKeeps
<1>3. ASSUME NEW len \in Transfers, StartTransfer(len) PROVE NetInv'
  BY <1>3, StartTransferKeeps
<1>4. CASE NextPart
  BY <1>4, NextPartKeeps
<1>5. CASE CancelTransfer
  BY <1>5, CancelTransferKeeps
<1>6. CASE BeginCluster
  BY <1>6, BeginClusterKeeps
<1>7. CASE EndCluster
  BY <1>7, EndClusterKeeps
<1>8. ASSUME NEW d \in wire, GotPacket(d) PROVE NetInv'
  BY <1>8, GotPacketKeeps
<1>9. ASSUME NEW d \in wire, LoseDatagram(d) PROVE NetInv'
  BY <1>9, LoseKeeps
<1>10. CASE UNCHANGED netVars
  <2>1. /\ posts' = posts /\ upload' = upload /\ nextStamp' = nextStamp
        /\ clustering' = clustering /\ clustered' = clustered /\ wire' = wire
        /\ rx' = rx /\ due' = due
    BY <1>10 DEF netVars
  <2>2. PICK log, v, r : UnderWay(log, v) /\ Heard(v) /\ r = v[nextStamp] /\ UploadFits(r)
    BY DEF NetInv
  <2>3. UnderWay(log, v)' /\ Heard(v)' /\ r = v[nextStamp'] /\ UploadFits(r)'
    BY <2>1, <2>2 DEF UnderWay, Somewhere, Heard, UploadFits, Uploading
  <2>4. /\ posts' \in 0 .. MaxMessages /\ clustering' \in BOOLEAN
        /\ \A k \in 1 .. Len(due') : due'[k] \in 1 .. posts'
    BY <2>1 DEF NetInv
  <2> QED
    BY <2>3, <2>4 DEF NetInv
<1> QED
  BY <1>1, <1>2, <1>3, <1>4, <1>5, <1>6, <1>7, <1>8, <1>9, <1>10 DEF NetNext

(* Every message with a stamp that is under way, waits or is kept is what  *)
(* was posted under that stamp, none that has not been handled is missing, *)
(* and the receiver holds what it would hold if the messages it has        *)
(* handled had come one by one.                                            *)
THEOREM NetInvariance == NetSpec => []NetInv
<1>1. NetInit => NetInv
  BY NetBegins
<1>2. NetInv /\ [NetNext]_netVars => NetInv'
  BY NetSteps
<1> QED
  BY <1>1, <1>2, PTL DEF NetSpec

(* The types, and that nothing is kept that is not ahead.                  *)
THEOREM NetTypes == NetSpec => []NetTypeOK
<1>1. NetInv => NetTypeOK
  <2> SUFFICES ASSUME NetInv PROVE NetTypeOK
    OBVIOUS
  <2>1. PICK log, v, r : UnderWay(log, v) /\ Heard(v) /\ r = v[nextStamp] /\ UploadFits(r)
    BY DEF NetInv
  <2>2. /\ nextStamp \in Nat /\ due \in Seq(Nat) /\ Len(log) = nextStamp
    BY <2>1, InTheEnd DEF UnderWay
  <2>3. \A k \in DOMAIN upload : upload[k] \in Part
    BY <2>1 DEF UploadFits
  <2>4. \A m \in Parcel : m.part \in Part
    BY DEF Parcel
  <2>5. \A k \in DOMAIN clustered : clustered[k].part \in Part
    BY <2>1, <2>4 DEF UnderWay
  <2>6. \A d \in wire : \A k \in DOMAIN d : d[k].part \in Part
    BY <2>1, <2>4 DEF UnderWay, OnWire
  <2>7. Hears(rx, log, v)
    BY <2>1 DEF UnderWay
  <2>8. rx \in Receiver /\ rx.step \in 0 .. nextStamp
    BY <2>2, <2>7 DEF Hears
  <2>9. \A m \in rx.held : m.stamp \in rx.step + 1 .. nextStamp - 1
    <3>1. \A m \in rx.held : m.stamp \in 0 .. Len(log) - 1 /\ m.stamp > rx.step
      BY <2>7 DEF Hears, Stamped
    <3>2. rx.step \in Nat /\ nextStamp \in Nat /\ Len(log) = nextStamp
      BY <2>2, <2>8
    <3> DEFINE step == rx.step
    <3> HIDE DEF step
    <3>3. \A x \in 0 .. nextStamp - 1 : x > step => x \in step + 1 .. nextStamp - 1
      BY <3>2 DEF step
    <3> QED
      BY <3>1, <3>2, <3>3 DEF step
  <2>10. \A k \in DOMAIN due : due[k] \in 1 .. posts
    <3>1. DOMAIN due = 1 .. Len(due)
      BY <2>2
    <3> QED
      BY <3>1 DEF NetInv
  <2>11. posts \in 0 .. MaxMessages /\ clustering \in BOOLEAN
    BY DEF NetInv
  <2>12. rx.step <= nextStamp
    BY <2>2, <2>8
  <2> QED
    BY <2>2, <2>3, <2>5, <2>6, <2>8, <2>9, <2>10, <2>11, <2>12 DEF NetTypeOK
<1> QED
  BY <1>1, NetInvariance, PTL

(* Whatever is split, shares a datagram, is lost, arrives ahead or comes   *)
(* between the parts of a transfer that may be cancelled: the reliable     *)
(* messages are handled whole, in the order in which they were posted.     *)
THEOREM MessagesComeWholeInOrder == NetSpec => []WholeInOrder
<1>1. NetInv => WholeInOrder
  <2> SUFFICES ASSUME NetInv PROVE WholeInOrder
    OBVIOUS
  <2>1. PICK log, v, r : UnderWay(log, v) /\ Heard(v) /\ r = v[nextStamp] /\ UploadFits(r)
    BY DEF NetInv
  <2>2. PICK s, t : s = rx.got /\ t = due
    OBVIOUS
  <2>3. Hears(rx, log, v) /\ Len(log) = nextStamp
    BY <2>1 DEF UnderWay
  <2>4. rx.step \in 0 .. nextStamp /\ rx.got = v[rx.step].got /\ s \in Seq(Nat)
    BY <2>2, <2>3, ReceiverIs DEF Hears, SameBuffers
  <2>5. Prefix(s, t) /\ t \in Seq(Nat)
    BY <2>1, <2>2, <2>4 DEF Heard
  <2>6. IsPrefix(s, t)
    <3> DEFINE n == Len(s)
               u == SubSeq(t, 1, n)
    <3>1. n \in Nat /\ n \in 0 .. Len(t) /\ n <= Len(t) /\ \A i \in 1 .. n : s[i] = t[i]
      BY <2>4, <2>5 DEF Prefix
    <3>2. u \in Seq(Nat) /\ Len(u) = n /\ \A i \in 1 .. n : u[i] = t[i]
      <4> HIDE DEF n
      <4> QED
        BY <2>5, <3>1, Beginning
    <3>3. SubSeq(s, 1, n) = s
      BY <2>4, Beginning
    <3> HIDE DEF u
    <3>4. s = u
      <4>1. s \in Seq(Nat) /\ Len(s) = n /\ \A i \in 1 .. n : s[i] = u[i]
        BY <2>4, <3>1, <3>2
      <4>2. s = [i \in 1 .. n |-> s[i]] /\ u = [i \in 1 .. n |-> u[i]]
        BY <3>2, <4>1
      <4> HIDE DEF n
      <4> QED
        BY <4>1, <4>2
    <3> QED
      BY <3>1, <3>3, <3>4 DEF IsPrefix, u
  <2> QED
    BY <2>2, <2>6 DEF WholeInOrder
<1> QED
  BY <1>1, NetInvariance, PTL

(* Every datagram fits into a packet, and a length that is sent in a byte  *)
(* fits into it.                                                           *)
THEOREM DatagramsFitPackets == NetSpec => []DatagramsFit
<1>1. NetInv => DatagramsFit
  <2> SUFFICES ASSUME NetInv, NEW d \in wire
               PROVE  IF Len(d) = 1 THEN Size(d[1]) <= PacketMax
                      ELSE /\ 2 + SizeOf(d) <= PacketMax
                           /\ \A k \in DOMAIN d : Size(d[k]) < 256
    BY DEF DatagramsFit, SizeOf
  <2>1. PICK log, v, r : UnderWay(log, v) /\ Heard(v) /\ r = v[nextStamp] /\ UploadFits(r)
    BY DEF NetInv
  <2>2. OnWire(d, log) /\ d \in Seq(Parcel)
    BY <2>1 DEF UnderWay, OnWire
  <2>3. CASE Len(d) = 1
    <3>1. Carried(d[1], log) /\ d[1] \in Parcel
      BY <2>2, <2>3 DEF OnWire
    <3>2. Size(d[1]) <= ChunkSize + 12 /\ Size(d[1]) \in Nat
      BY <3>1, SizeIs DEF Carried
    <3>3. ChunkSize \in Nat /\ PacketMax \in Nat /\ ChunkSize + 13 <= PacketMax
      BY ConstantsAre
    <3>4. Size(d[1]) <= PacketMax
      BY <3>2, <3>3
    <3> QED
      BY <2>3, <3>4
  <2>4. CASE Len(d) # 1
    BY <2>2, <2>4 DEF OnWire
  <2> QED
    BY <2>3, <2>4
<1> QED
  BY <1>1, NetInvariance, PTL

(* Nothing is stuck in a buffer: when nothing is under way and nothing     *)
(* waits for the end of a cluster, every reliable message has been         *)
(* handled.                                                                *)
THEOREM NothingIsStuck == NetSpec => []AllArrive
<1>1. NetInv => AllArrive
  <2> SUFFICES ASSUME NetInv, wire = {}, clustered = <<>> PROVE rx.got = due
    BY DEF AllArrive
  <2>1. PICK log, v, r : UnderWay(log, v) /\ Heard(v) /\ r = v[nextStamp] /\ UploadFits(r)
    BY DEF NetInv
  <2>2. Hears(rx, log, v) /\ Len(log) = nextStamp /\ nextStamp \in Nat
    BY <2>1, InTheEnd DEF UnderWay
  <2>3. rx.step \in 0 .. nextStamp
    BY <2>2 DEF Hears
  <2>4. rx.step = nextStamp
    <3> SUFFICES ASSUME rx.step # nextStamp PROVE FALSE
      OBVIOUS
    <3>1. rx.step \in rx.step .. nextStamp - 1
      BY <2>2, <2>3
    <3>2. rx.step \in Somewhere
      BY <2>1, <3>1 DEF UnderWay
    <3>3. StampsIn(<<>>) = {}
      BY StampsJoin
    <3>4. rx.step \in StampsOf(rx.held)
      BY <3>2, <3>3 DEF Somewhere
    <3>5. PICK w \in rx.held : w.stamp = rx.step
      BY <3>4 DEF StampsOf
    <3>6. w.stamp > rx.step
      BY <2>2 DEF Hears
    <3> QED
      BY <2>3, <3>5, <3>6
  <2>5. rx.got = v[nextStamp].got
    BY <2>2, <2>4 DEF Hears, SameBuffers
  <2> QED
    BY <2>1, <2>5 DEF Heard
<1> QED
  BY <1>1, NetInvariance, PTL
=============================================================================
