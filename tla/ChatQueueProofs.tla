-------------------------- MODULE ChatQueueProofs --------------------------
(***************************************************************************)
(* Proofs about ChatQueue, for every set of messages and every length of   *)
(* the pause: the order in which messages are sent, and the bound on their *)
(* bursts.  doChatLog() sends up to two messages in one call, so both are  *)
(* proved of one message first.                                            *)
(***************************************************************************)
EXTENDS ChatQueue, ListProofs

(* Every message logged waits, or its text has been sent since.            *)
Accounted(log, done) ==
    \A k \in DOMAIN logged :
       \/ \E j \in DOMAIN log : log[j] = logged[k]
       \/ \E j \in DOMAIN done : /\ done[j].entry.msg = logged[k].msg
                                 /\ done[j].calls > logged[k].no

(* The messages sent, and then those that wait, in the order of the calls. *)
InOrder(log, done) ==
    /\ \A k \in DOMAIN log : log[k].no < calls
    /\ \A j, k \in DOMAIN log : j < k => log[j].no < log[k].no
    /\ \A j, k \in DOMAIN done : j < k => done[j].entry.no < done[k].entry.no
    /\ \A j \in DOMAIN done : \A k \in DOMAIN log : done[j].entry.no < log[k].no
    /\ \A j \in DOMAIN done : done[j].entry.no < calls

Queues(log, done) ==
    /\ log \in Seq(Entry) /\ done \in Seq(Sent)
    /\ Accounted(log, done) /\ InOrder(log, done)

(* The count was started at time start, and c messages were sent since; of *)
(* those before, all but two were sent more than a pause earlier.          *)
Window(done, start, c) ==
    /\ \A k \in DOMAIN done : done[k].time <= now
    /\ \A k \in DOMAIN done : k <= Len(done) - c => done[k].time <= start
    /\ \A k \in DOMAIN done : k <= Len(done) - c - PerPause => start - done[k].time > Pause
    /\ \A k \in DOMAIN done : k > 2 * PerPause =>
            done[k].time - done[k - 2 * PerPause].time > Pause

Numbered == \A k \in DOMAIN logged : logged[k].no < calls

IInv ==
    /\ TypeOK /\ Numbered
    /\ Queues(chatLog, sent)
    /\ Window(sent, lastChatSend, countChatSend)

(* rest is what log has but for the messages that are msg, in its order.   *)
LeavesOut(msg, rest, log) ==
    \E at \in [DOMAIN rest -> DOMAIN log] :
       /\ \A i \in DOMAIN rest : rest[i] = log[at[i]] /\ log[at[i]].msg # msg
       /\ \A i, j \in DOMAIN rest : i < j => at[i] < at[j]
       /\ \A k \in DOMAIN log : log[k].msg # msg => \E i \in DOMAIN rest : at[i] = k

(* remove() leaves the messages that differ, in their order.               *)
LEMMA RemoveProperties ==
    ASSUME NEW log \in Seq(Entry), NEW msg
    PROVE  Remove(log, msg) \in Seq(Entry) /\ LeavesOut(msg, Remove(log, msg), log)
<1> DEFINE K == {k \in DOMAIN log : log[k].msg # msg}
           rest == Sublist(log, K)
<1>1. Remove(log, msg) = rest
  BY DEF Remove
<1>2. rest \in Seq(Entry) /\ \E at : Picks(at, rest, log, K, Len(log))
  BY SublistProperties
<1> HIDE DEF rest
<1>3. DOMAIN rest = 1 .. Len(rest) /\ DOMAIN log = 1 .. Len(log)
  BY <1>2
<1>4. PICK at : Picks(at, rest, log, K, Len(log))
  BY <1>2
<1>5. /\ at \in [DOMAIN rest -> DOMAIN log]
      /\ \A i \in DOMAIN rest : rest[i] = log[at[i]] /\ log[at[i]].msg # msg
      /\ \A i, j \in DOMAIN rest : i < j => at[i] < at[j]
      /\ \A k \in DOMAIN log : log[k].msg # msg => \E i \in DOMAIN rest : at[i] = k
  BY <1>3, <1>4 DEF Picks
<1> QED
  BY <1>1, <1>2, <1>5 DEF LeavesOut

(* One message is sent: its copies go with it, and all the others stay.    *)
LEMMA SendKeepsQueues ==
    ASSUME TypeOK, Numbered, NEW log, NEW done, Queues(log, done), log # <<>>,
           NEW next, next = SendNextLoggedChat([log |-> log, sent |-> done], now)
    PROVE  /\ Queues(next.log, next.sent)
           /\ Len(next.sent) = Len(done) + 1
           /\ \A k \in 1 .. Len(done) : next.sent[k] = done[k]
           /\ next.sent[Len(done) + 1].time = now
<1> DEFINE new == [entry |-> Head(log), time |-> now, calls |-> calls]
           msg == Head(log).msg
           rest == Remove(log, msg)
           more == Append(done, new)
<1>1. next.log = rest /\ next.sent = more
  BY DEF SendNextLoggedChat
<1>2. /\ log \in Seq(Entry) /\ done \in Seq(Sent) /\ Accounted(log, done) /\ InOrder(log, done)
      /\ DOMAIN log = 1 .. Len(log) /\ DOMAIN done = 1 .. Len(done)
      /\ Len(log) \in Nat /\ Len(done) \in Nat
  BY DEF Queues
<1>3. /\ 1 \in DOMAIN log /\ Head(log) = log[1] /\ log[1] \in Entry
  BY <1>2
<1>4. \A k \in DOMAIN log : log[k].no \in Nat
  <2>1. \A k \in DOMAIN log : log[k] \in Entry
    BY <1>2
  <2> QED
    BY <2>1 DEF Entry
<1>5. calls \in Nat /\ now \in Nat /\ logged \in Seq(Entry)
  BY ConstantsAssumption DEF TypeOK
<1>6. new \in Sent /\ new.entry = log[1] /\ new.time = now /\ new.calls = calls
  BY <1>3, <1>5 DEF Sent
<1> HIDE DEF new
<1>7. /\ more \in Seq(Sent) /\ Len(more) = Len(done) + 1
      /\ \A k \in 1 .. Len(done) : more[k] = done[k]
      /\ more[Len(done) + 1] = new
  BY <1>2, <1>6, AppendProperties
<1>8. DOMAIN more = 1 .. Len(done) + 1
  BY <1>2, <1>7
<1> HIDE DEF more
<1> HIDE DEF msg
<1>9. rest \in Seq(Entry) /\ LeavesOut(msg, rest, log)
  BY <1>2, RemoveProperties
<1> HIDE DEF rest
<1>10. PICK at \in [DOMAIN rest -> DOMAIN log] :
          /\ \A i \in DOMAIN rest : rest[i] = log[at[i]] /\ log[at[i]].msg # log[1].msg
          /\ \A i, j \in DOMAIN rest : i < j => at[i] < at[j]
          /\ \A k \in DOMAIN log : log[k].msg # log[1].msg => \E i \in DOMAIN rest : at[i] = k
  BY <1>3, <1>9 DEF LeavesOut, msg
<1>11. \A i \in DOMAIN rest : at[i] \in DOMAIN log /\ 1 < at[i]
  BY <1>2, <1>10
<1>12. Accounted(rest, more)
  <2> SUFFICES ASSUME NEW k \in DOMAIN logged
               PROVE  \/ \E j \in DOMAIN rest : rest[j] = logged[k]
                      \/ \E j \in DOMAIN more : /\ more[j].entry.msg = logged[k].msg
                                                /\ more[j].calls > logged[k].no
    BY DEF Accounted
  <2>1. CASE \E j \in DOMAIN done : /\ done[j].entry.msg = logged[k].msg
                                    /\ done[j].calls > logged[k].no
    BY <1>2, <1>7, <1>8, <2>1
  <2>2. CASE \E j \in DOMAIN log : log[j] = logged[k]
    <3>1. PICK j \in DOMAIN log : log[j] = logged[k]
      BY <2>2
    <3>2. CASE log[j].msg = log[1].msg
      <4>1. Len(done) + 1 \in DOMAIN more
        BY <1>2, <1>8
      <4>2. logged[k].no < calls
        BY DEF Numbered
      <4>3. more[Len(done) + 1].entry.msg = logged[k].msg
        BY <1>6, <1>7, <3>1, <3>2
      <4>4. more[Len(done) + 1].calls > logged[k].no
        BY <1>4, <1>5, <1>6, <1>7, <3>1, <4>2
      <4> QED
        BY <4>1, <4>3, <4>4
    <3>3. CASE log[j].msg # log[1].msg
      BY <1>10, <3>1, <3>3
    <3> QED
      BY <3>2, <3>3
  <2> QED
    BY <1>2, <2>1, <2>2 DEF Accounted
<1>13. InOrder(rest, more)
  <2>1. \A k \in DOMAIN rest : rest[k].no < calls
    BY <1>2, <1>10, <1>11 DEF InOrder
  <2>2. \A j, k \in DOMAIN rest : j < k => rest[j].no < rest[k].no
    BY <1>2, <1>10, <1>11 DEF InOrder
  <2>3. \A i \in DOMAIN rest : log[1].no < rest[i].no
    BY <1>2, <1>3, <1>10, <1>11 DEF InOrder
  <2>4. \A j \in DOMAIN more : \/ j \in DOMAIN done /\ more[j] = done[j]
                               \/ j = Len(done) + 1 /\ more[j].entry = log[1]
    BY <1>2, <1>6, <1>7, <1>8
  <2>5. \A j, k \in DOMAIN more : j < k => more[j].entry.no < more[k].entry.no
    <3> SUFFICES ASSUME NEW j \in DOMAIN more, NEW k \in DOMAIN more, j < k
                 PROVE  more[j].entry.no < more[k].entry.no
      OBVIOUS
    <3>1. j \in DOMAIN done /\ more[j] = done[j]
      BY <1>2, <1>7, <1>8
    <3> QED
      BY <1>2, <1>3, <2>4, <3>1 DEF InOrder
  <2>6. \A j \in DOMAIN more : \A k \in DOMAIN rest : more[j].entry.no < rest[k].no
    BY <1>2, <1>10, <1>11, <2>3, <2>4 DEF InOrder
  <2>7. \A j \in DOMAIN more : more[j].entry.no < calls
    BY <1>2, <1>3, <2>4 DEF InOrder
  <2> QED
    BY <2>1, <2>2, <2>5, <2>6, <2>7 DEF InOrder
<1>14. Queues(rest, more)
  BY <1>7, <1>9, <1>12, <1>13 DEF Queues
<1> QED
  BY <1>1, <1>6, <1>7, <1>14

(* Nothing is sent when nothing waits.                                     *)
LEMMA EmptySendsNothing ==
    ASSUME NEW q, q.log = <<>>
    PROVE  SendNextLoggedChat(q, now) = q
BY DEF SendNextLoggedChat

(* A message that the count allows keeps to the bound.                     *)
LEMMA SendKeepsWindow ==
    ASSUME TypeOK, NEW done \in Seq(Sent), NEW start \in 0 .. now, NEW c \in 0 .. PerPause - 1,
           Window(done, start, c),
           NEW more \in Seq(Sent), Len(more) = Len(done) + 1,
           \A k \in 1 .. Len(done) : more[k] = done[k], more[Len(done) + 1].time = now
    PROVE  Window(more, start, c + 1)
<1>1. /\ Len(done) \in Nat /\ now \in Nat /\ start \in Nat /\ c \in {0, 1} /\ Pause \in Nat
      /\ DOMAIN done = 1 .. Len(done) /\ DOMAIN more = 1 .. Len(done) + 1
  BY ConstantsAssumption DEF TypeOK, PerPause
<1>2. \A k \in DOMAIN done : done[k].time \in Nat
  <2>1. \A k \in DOMAIN done : done[k] \in Sent
    BY <1>1
  <2> QED
    BY <2>1 DEF Sent
<1>3. \A k \in DOMAIN more : \/ k \in DOMAIN done /\ more[k] = done[k]
                             \/ k = Len(done) + 1 /\ more[k].time = now
  BY <1>1
<1>4. \A k \in DOMAIN more : more[k].time <= now
  BY <1>1, <1>3 DEF Window
<1>5. \A k \in DOMAIN more : k <= Len(more) - (c + 1) => more[k].time <= start
  BY <1>1, <1>3 DEF Window
<1>6. \A k \in DOMAIN more :
        k <= Len(more) - (c + 1) - PerPause => start - more[k].time > Pause
  BY <1>1, <1>3 DEF Window, PerPause
<1>7. ASSUME NEW k \in DOMAIN more, k > 2 * PerPause
      PROVE  more[k].time - more[k - 2 * PerPause].time > Pause
  <2>1. k - 4 \in DOMAIN done /\ more[k - 4] = done[k - 4]
    BY <1>1, <1>7 DEF PerPause
  <2>2. CASE k \in DOMAIN done
    BY <1>1, <1>7, <2>1, <2>2 DEF Window, PerPause
  <2>3. CASE k = Len(done) + 1
    <3>1. start - done[k - 4].time > Pause
      BY <1>1, <2>1, <2>3 DEF Window, PerPause
    <3>2. more[k].time = now /\ done[k - 4].time \in Nat
      BY <1>2, <2>1, <2>3
    <3> QED
      BY <1>1, <2>1, <3>1, <3>2 DEF PerPause
  <2> QED
    BY <1>3, <1>7, <2>2, <2>3
<1> QED
  BY <1>4, <1>5, <1>6, <1>7 DEF Window

(* One call of sendNextLoggedChat(), whether there is a message or not.    *)
LEMMA SendKeeps ==
    ASSUME TypeOK, Numbered, NEW log, NEW done, Queues(log, done),
           NEW start \in 0 .. now, NEW c \in 0 .. PerPause, Window(done, start, c),
           NEW next, next = IF MaySend(c) THEN SendNextLoggedChat([log |-> log, sent |-> done], now)
                                          ELSE [log |-> log, sent |-> done]
    PROVE  /\ Queues(next.log, next.sent)
           /\ \/ next = [log |-> log, sent |-> done] /\ (log = <<>> \/ ~MaySend(c))
              \/ /\ Len(next.sent) = Len(done) + 1 /\ MaySend(c)
                 /\ Window(next.sent, start, c + 1)
<1>1. CASE log = <<>> \/ ~MaySend(c)
  <2>1. next = [log |-> log, sent |-> done]
    BY <1>1, EmptySendsNothing
  <2> QED
    BY <1>1, <2>1
<1>2. CASE log # <<>> /\ MaySend(c)
  <2>1. /\ Queues(next.log, next.sent)
        /\ Len(next.sent) = Len(done) + 1
        /\ \A k \in 1 .. Len(done) : next.sent[k] = done[k]
        /\ next.sent[Len(done) + 1].time = now
    BY <1>2, SendKeepsQueues
  <2>2. c \in 0 .. PerPause - 1 /\ done \in Seq(Sent) /\ next.sent \in Seq(Sent)
    BY <1>2, <2>1 DEF MaySend, PerPause, Queues
  <2>3. Window(next.sent, start, c + 1)
    BY <2>1, <2>2, SendKeepsWindow
  <2> QED
    BY <1>2, <2>1, <2>3
<1> QED
  BY <1>1, <1>2

(* The count starts again after a pause without it.                        *)
LEMMA PauseReopens ==
    ASSUME IInv, PauseIsOver
    PROVE  Window(sent, now, 0)
<1>1. /\ Len(sent) \in Nat /\ now \in Nat /\ lastChatSend \in 0 .. now /\ Pause \in Nat
      /\ countChatSend \in {0, 1, 2} /\ DOMAIN sent = 1 .. Len(sent)
  BY ConstantsAssumption DEF IInv, TypeOK, PerPause
<1>2. \A k \in DOMAIN sent : sent[k].time \in Nat
  <2>1. \A k \in DOMAIN sent : sent[k] \in Sent
    BY <1>1 DEF IInv, TypeOK
  <2> QED
    BY <2>1 DEF Sent
<1>3. \A k \in DOMAIN sent : k <= Len(sent) - 0 - PerPause => now - sent[k].time > Pause
  <2> SUFFICES ASSUME NEW k \in DOMAIN sent, k <= Len(sent) - PerPause
               PROVE  now - sent[k].time > Pause
    BY <1>1 DEF PerPause
  <2>1. sent[k].time <= lastChatSend
    BY <1>1 DEF IInv, Window, PerPause
  <2> QED
    BY <1>1, <1>2, <2>1 DEF PauseIsOver
<1> QED
  BY <1>1, <1>3 DEF IInv, Window
-----------------------------------------------------------------------------
(* Nothing has been said at first.                                         *)
LEMMA InitEstablishes == Init => IInv
<1> SUFFICES ASSUME Init PROVE IInv
  OBVIOUS
<1>1. /\ chatLog = <<>> /\ sent = <<>> /\ logged = <<>>
      /\ DOMAIN chatLog = {} /\ DOMAIN sent = {} /\ DOMAIN logged = {}
  BY DEF Init
<1>2. TypeOK
  <2>1. <<>> \in Seq(Entry) /\ <<>> \in Seq(Sent)
    OBVIOUS
  <2>2. /\ 0 \in 0 .. MaxTime /\ 0 \in 0 .. 0 /\ 0 \in 0 .. MaxCalls
        /\ 0 \in 0 .. PerPause
    BY ConstantsAssumption DEF PerPause
  <2> QED
    BY <2>1, <2>2 DEF Init, TypeOK
<1>3. Queues(chatLog, sent)
  BY <1>1 DEF Queues, Accounted, InOrder
<1> QED
  BY <1>1, <1>2, <1>3 DEF IInv, Numbered, Window

(* tryChat(): the new message is the last of all.                          *)
LEMMA TryChatKeeps ==
    ASSUME IInv, NEW msg \in Chat, TryChat(msg)
    PROVE  IInv'
<1> DEFINE entry == [msg |-> msg, no |-> calls]
<1>1. /\ calls < MaxCalls /\ calls' = calls + 1
      /\ UNCHANGED <<now, hasSysOp, lastChatSend, countChatSend, sent>>
      /\ \/ UNCHANGED <<chatLog, logged>>
         \/ /\ chatLog' = Append(chatLog, entry)
            /\ logged' = Append(logged, entry)
  BY DEF TryChat
<1>2. /\ calls \in Nat /\ MaxCalls \in Nat
      /\ chatLog \in Seq(Entry) /\ logged \in Seq(Entry) /\ sent \in Seq(Sent)
  BY ConstantsAssumption DEF IInv, TypeOK
<1>3. entry \in Entry /\ entry.no = calls
  BY <1>2 DEF Entry
<1>4. /\ \A k \in DOMAIN chatLog : chatLog[k].no \in Nat /\ chatLog[k].no < calls
      /\ \A k \in DOMAIN logged : logged[k].no \in Nat /\ logged[k].no < calls
      /\ \A k \in DOMAIN sent : sent[k].entry.no \in Nat /\ sent[k].entry.no < calls
  <2>1. /\ \A k \in DOMAIN chatLog : chatLog[k] \in Entry
        /\ \A k \in DOMAIN logged : logged[k] \in Entry
        /\ \A k \in DOMAIN sent : sent[k] \in Sent
    BY <1>2
  <2>2. /\ \A k \in DOMAIN chatLog : chatLog[k].no < calls
        /\ \A k \in DOMAIN logged : logged[k].no < calls
        /\ \A k \in DOMAIN sent : sent[k].entry.no < calls
    BY DEF IInv, Numbered, Queues, InOrder
  <2> QED
    BY <2>1, <2>2 DEF Entry, Sent
<1>5. Accounted(chatLog, sent) /\ InOrder(chatLog, sent)
  BY DEF IInv, Queues
<1>6. CASE UNCHANGED <<chatLog, logged>>
  <2>1. TypeOK' /\ Window(sent, lastChatSend, countChatSend)'
    BY <1>1, <1>2, <1>6 DEF IInv, TypeOK, Window
  <2>2. Numbered'
    BY <1>1, <1>2, <1>4, <1>6 DEF Numbered
  <2>3. Accounted(chatLog, sent)'
    BY <1>1, <1>5, <1>6 DEF Accounted
  <2>4. InOrder(chatLog, sent)'
    BY <1>1, <1>2, <1>4, <1>5, <1>6 DEF InOrder
  <2> QED
    BY <1>1, <1>2, <1>6, <2>1, <2>2, <2>3, <2>4 DEF IInv, Queues
<1>7. CASE chatLog' = Append(chatLog, entry) /\ logged' = Append(logged, entry)
  <2> HIDE DEF entry
  <2>1. /\ chatLog' \in Seq(Entry) /\ logged' \in Seq(Entry)
        /\ DOMAIN chatLog' = 1 .. Len(chatLog) + 1 /\ DOMAIN logged' = 1 .. Len(logged) + 1
        /\ DOMAIN chatLog = 1 .. Len(chatLog) /\ DOMAIN logged = 1 .. Len(logged)
        /\ Len(chatLog) \in Nat /\ Len(logged) \in Nat
    BY <1>2, <1>3, <1>7
  <2>2. /\ \A k \in DOMAIN chatLog : chatLog'[k] = chatLog[k]
        /\ \A k \in DOMAIN logged : logged'[k] = logged[k]
        /\ chatLog'[Len(chatLog) + 1] = entry /\ logged'[Len(logged) + 1] = entry
    BY <1>2, <1>3, <1>7, AppendProperties
  <2>3. TypeOK' /\ Window(sent, lastChatSend, countChatSend)'
    BY <1>1, <1>2, <2>1 DEF IInv, TypeOK, Window
  <2>4. \A k \in DOMAIN logged' : \/ k \in DOMAIN logged /\ logged'[k] = logged[k]
                                  \/ k = Len(logged) + 1 /\ logged'[k] = entry
    BY <2>1, <2>2
  <2>5. \A k \in DOMAIN chatLog' : \/ k \in DOMAIN chatLog /\ chatLog'[k] = chatLog[k]
                                   \/ k = Len(chatLog) + 1 /\ chatLog'[k] = entry
    BY <2>1, <2>2
  <2>6. Numbered'
    BY <1>1, <1>2, <1>3, <1>4, <2>4 DEF Numbered
  <2>7. Accounted(chatLog, sent)'
    <3> SUFFICES ASSUME NEW k \in DOMAIN logged'
                 PROVE  \/ \E j \in DOMAIN chatLog' : chatLog'[j] = logged'[k]
                        \/ \E j \in DOMAIN sent : /\ sent[j].entry.msg = logged'[k].msg
                                                  /\ sent[j].calls > logged'[k].no
      BY <1>1 DEF Accounted
    <3>1. CASE k \in DOMAIN logged /\ logged'[k] = logged[k]
      <4>1. DOMAIN chatLog \subseteq DOMAIN chatLog'
        BY <2>1
      <4> QED
        BY <1>5, <2>2, <3>1, <4>1 DEF Accounted
    <3>2. CASE k = Len(logged) + 1 /\ logged'[k] = entry
      <4>1. Len(chatLog) + 1 \in DOMAIN chatLog'
        BY <2>1
      <4> QED
        BY <2>2, <3>2, <4>1
    <3> QED
      BY <2>4, <3>1, <3>2
  <2>8. InOrder(chatLog, sent)'
    <3>1. \A k \in DOMAIN chatLog' : chatLog'[k].no < calls'
      BY <1>1, <1>2, <1>3, <1>4, <2>5
    <3>2. \A j, k \in DOMAIN chatLog' : j < k => chatLog'[j].no < chatLog'[k].no
      <4> SUFFICES ASSUME NEW j \in DOMAIN chatLog', NEW k \in DOMAIN chatLog', j < k
                   PROVE  chatLog'[j].no < chatLog'[k].no
        OBVIOUS
      <4>1. j \in DOMAIN chatLog /\ chatLog'[j] = chatLog[j]
        BY <2>1, <2>2
      <4> QED
        BY <1>3, <1>4, <1>5, <2>5, <4>1 DEF InOrder
    <3>3. \A j, k \in DOMAIN sent : j < k => sent[j].entry.no < sent[k].entry.no
      BY <1>5 DEF InOrder
    <3>4. \A j \in DOMAIN sent : \A k \in DOMAIN chatLog' : sent[j].entry.no < chatLog'[k].no
      BY <1>3, <1>4, <1>5, <2>5 DEF InOrder
    <3>5. \A j \in DOMAIN sent : sent[j].entry.no < calls'
      BY <1>1, <1>2, <1>4
    <3> QED
      BY <1>1, <3>1, <3>2, <3>3, <3>4, <3>5 DEF InOrder
  <2> QED
    BY <1>1, <1>2, <2>1, <2>3, <2>6, <2>7, <2>8 DEF IInv, Queues
<1> QED
  BY <1>1, <1>6, <1>7

(* doChatLog(): none, one or two messages.                                 *)
LEMMA DoChatLogKeeps == ASSUME IInv, DoChatLog PROVE IInv'
<1> DEFINE count == IF PauseIsOver THEN 0 ELSE countChatSend
           start == IF PauseIsOver THEN now ELSE lastChatSend
           q0 == [log |-> chatLog, sent |-> sent]
           q1 == IF MaySend(count) THEN SendNextLoggedChat(q0, now) ELSE q0
           q2 == IF MaySend(count + 1) THEN SendNextLoggedChat(q1, now) ELSE q1
<1>1. /\ lastChatSend' = start
      /\ chatLog' = q2.log
      /\ sent' = q2.sent
      /\ countChatSend' = count + (Len(q2.sent) - Len(sent))
      /\ UNCHANGED <<now, hasSysOp, calls, logged>>
  BY DEF DoChatLog
<1>2. /\ TypeOK /\ Numbered /\ Queues(chatLog, sent) /\ now \in Nat
      /\ count \in 0 .. PerPause /\ start \in 0 .. now
      /\ sent \in Seq(Sent) /\ Len(sent) \in Nat
  BY ConstantsAssumption DEF IInv, TypeOK, PerPause
<1>3. Window(sent, start, count)
  <2>1. CASE PauseIsOver
    BY <2>1, PauseReopens
  <2>2. CASE ~PauseIsOver
    BY <2>2 DEF IInv
  <2> QED
    BY <2>1, <2>2
<1> HIDE DEF count, start
<1>4. /\ Queues(q1.log, q1.sent)
      /\ \/ q1 = q0 /\ (chatLog = <<>> \/ ~MaySend(count))
         \/ /\ Len(q1.sent) = Len(sent) + 1 /\ MaySend(count)
            /\ Window(q1.sent, start, count + 1)
  <2> HIDE DEF q1
  <2>1. q1 = IF MaySend(count) THEN SendNextLoggedChat([log |-> chatLog, sent |-> sent], now)
                               ELSE [log |-> chatLog, sent |-> sent]
    BY DEF q1
  <2> QED
    BY <1>2, <1>3, <2>1, SendKeeps
<1>5. /\ Queues(q2.log, q2.sent)
      /\ \E c \in 0 .. PerPause : /\ Window(q2.sent, start, c)
                                  /\ c = count + (Len(q2.sent) - Len(sent))
  <2>1. CASE q1 = q0 /\ (chatLog = <<>> \/ ~MaySend(count))
    <3>1. q2 = q0
      <4>1. CASE chatLog = <<>>
        <5>1. q0.log = <<>>
          BY <4>1
        <5> HIDE DEF q0
        <5>2. SendNextLoggedChat(q0, now) = q0
          BY <5>1, EmptySendsNothing
        <5> HIDE DEF q1
        <5> QED
          BY <2>1, <5>2
      <4>2. CASE ~MaySend(count)
        <5>1. ~MaySend(count + 1)
          BY <1>2, <4>2 DEF MaySend, PerPause
        <5> QED
          BY <2>1, <5>1
      <4> QED
        BY <2>1, <4>1, <4>2
    <3> HIDE DEF q2
    <3> QED
      BY <1>2, <1>3, <3>1 DEF PerPause
  <2>2. CASE /\ Len(q1.sent) = Len(sent) + 1 /\ MaySend(count)
             /\ Window(q1.sent, start, count + 1)
    <3> DEFINE log == q1.log
               done == q1.sent
    <3>1. q1 = [log |-> log, sent |-> done]
      <4>1. q1 = SendNextLoggedChat(q0, now)
        BY <2>2
      <4> QED
        BY <4>1 DEF SendNextLoggedChat
    <3>2. /\ Queues(log, done) /\ Window(done, start, count + 1) /\ Len(done) = Len(sent) + 1
          /\ count + 1 \in 0 .. PerPause
      BY <1>2, <1>4, <2>2 DEF MaySend, PerPause
    <3>3. q2 = IF MaySend(count + 1) THEN SendNextLoggedChat([log |-> log, sent |-> done], now)
                                     ELSE [log |-> log, sent |-> done]
      <4> HIDE DEF q1, log, done
      <4> QED
        BY <3>1
    <3> HIDE DEF log, done, q1, q2
    <3>4. /\ Queues(q2.log, q2.sent)
          /\ \/ q2 = [log |-> log, sent |-> done] /\ (log = <<>> \/ ~MaySend(count + 1))
             \/ /\ Len(q2.sent) = Len(done) + 1 /\ MaySend(count + 1)
                /\ Window(q2.sent, start, (count + 1) + 1)
      <4> DEFINE c == count + 1
      <4> HIDE DEF c
      <4>1. /\ Queues(log, done) /\ Window(done, start, c) /\ c \in 0 .. PerPause
            /\ q2 = IF MaySend(c) THEN SendNextLoggedChat([log |-> log, sent |-> done], now)
                                  ELSE [log |-> log, sent |-> done]
        BY <3>2, <3>3 DEF c
      <4>2. /\ Queues(q2.log, q2.sent)
            /\ \/ q2 = [log |-> log, sent |-> done] /\ (log = <<>> \/ ~MaySend(c))
               \/ /\ Len(q2.sent) = Len(done) + 1 /\ MaySend(c)
                  /\ Window(q2.sent, start, c + 1)
        BY <1>2, <4>1, SendKeeps
      <4> QED
        BY <4>2 DEF c
    <3>5. CASE q2 = [log |-> log, sent |-> done]
      BY <1>2, <3>2, <3>4, <3>5
    <3>6. CASE /\ Len(q2.sent) = Len(done) + 1 /\ MaySend(count + 1)
               /\ Window(q2.sent, start, (count + 1) + 1)
      <4>1. /\ count + 2 \in 0 .. PerPause /\ (count + 1) + 1 = count + 2
            /\ count + 2 = count + (Len(q2.sent) - Len(sent))
        BY <1>2, <3>2, <3>6 DEF MaySend, PerPause
      <4> QED
        BY <3>4, <3>6, <4>1
    <3> QED
      BY <3>4, <3>5, <3>6
  <2> QED
    BY <1>4, <2>1, <2>2
<1> HIDE DEF q1, q2
<1>6. /\ countChatSend' \in 0 .. PerPause
      /\ Window(sent', lastChatSend', countChatSend')
      /\ Queues(chatLog', sent')
  BY <1>1, <1>5
<1>7. TypeOK'
  BY <1>1, <1>2, <1>6 DEF TypeOK, Queues
<1>8. Numbered' /\ Queues(chatLog, sent)' /\ Window(sent, lastChatSend, countChatSend)'
  BY <1>1, <1>2, <1>6 DEF Numbered, Queues, Accounted, InOrder, Window
<1> QED
  BY <1>7, <1>8 DEF IInv

(* Every step.                                                             *)
LEMMA NextPreserves == IInv /\ [Next]_vars => IInv'
<1> SUFFICES ASSUME IInv, [Next]_vars PROVE IInv'
  OBVIOUS
<1>1. CASE \E msg \in Chat : TryChat(msg)
  BY <1>1, TryChatKeeps
<1>2. CASE DoChatLog
  BY <1>2, DoChatLogKeeps
<1>3. CASE BecomeSysOp
  BY <1>3 DEF BecomeSysOp, IInv, TypeOK, Numbered, Queues, Accounted, InOrder, Window
<1>4. CASE ResetSession
  <2>1. DOMAIN chatLog' = {} /\ DOMAIN sent' = {} /\ DOMAIN logged' = {}
    BY <1>4 DEF ResetSession
  <2>2. TypeOK'
    <3>1. <<>> \in Seq(Entry) /\ <<>> \in Seq(Sent)
      OBVIOUS
    <3>2. 0 \in 0 .. now /\ 0 \in 0 .. PerPause
      BY ConstantsAssumption DEF IInv, TypeOK, PerPause
    <3> QED
      BY <1>4, <3>1, <3>2 DEF ResetSession, IInv, TypeOK
  <2>3. Queues(chatLog, sent)'
    BY <1>4, <2>1 DEF ResetSession, Queues, Accounted, InOrder
  <2> QED
    BY <2>1, <2>2, <2>3 DEF IInv, Numbered, Window
<1>5. CASE Tick
  <2>1. TypeOK'
    BY <1>5, ConstantsAssumption DEF Tick, IInv, TypeOK
  <2>2. Numbered' /\ Queues(chatLog, sent)'
    BY <1>5 DEF Tick, IInv, Numbered, Queues, Accounted, InOrder
  <2>3. \A k \in DOMAIN sent : sent[k].time \in Nat
    <3>1. \A k \in DOMAIN sent : sent[k] \in Sent
      BY DEF IInv, TypeOK
    <3> QED
      BY <3>1 DEF Sent
  <2>4. \A k \in DOMAIN sent : sent[k].time <= now'
    BY <1>5, <2>3 DEF Tick, IInv, TypeOK, Window
  <2>5. Window(sent, lastChatSend, countChatSend)'
    BY <1>5, <2>4 DEF Tick, IInv, Window
  <2> QED
    BY <2>1, <2>2, <2>5 DEF IInv
<1>6. CASE UNCHANGED vars
  BY <1>6 DEF vars, IInv, TypeOK, Numbered, Queues, Accounted, InOrder, Window
<1> QED
  BY <1>1, <1>2, <1>3, <1>4, <1>5, <1>6 DEF Next

(* The invariant that the three below are parts of.                        *)
THEOREM Invariance == Spec => []IInv
<1> QED
  BY InitEstablishes, NextPreserves, PTL DEF Spec

(* Every variable has its type; the count never goes beyond PerPause, so   *)
(* that the loop of doChatLog() ends.                                      *)
THEOREM TypeCorrect == Spec => []TypeOK
<1>1. IInv => TypeOK
  BY DEF IInv
<1> QED
  BY Invariance, <1>1, PTL

(* No message is lost, sent twice or sent out of turn, though remove()     *)
(* takes all the copies of one (tryChat, sendNextLoggedChat).              *)
THEOREM OrderKept == Spec => []SentInOrder
<1>1. IInv => SentInOrder
  BY DEF IInv, Queues, Accounted, InOrder, SentInOrder
<1> QED
  BY Invariance, <1>1, PTL

(* No pause sees a fifth message, whenever doChatLog() is called and the   *)
(* session reset.                                                          *)
THEOREM BurstsBounded == Spec => []BurstBound
<1>1. IInv => BurstBound
  BY DEF IInv, Window, BurstBound
<1> QED
  BY Invariance, <1>1, PTL
=============================================================================
