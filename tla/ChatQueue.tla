----------------------------- MODULE ChatQueue -----------------------------
(***************************************************************************)
(* The outgoing chat of a Host (Core/Host.cpp 429-450 and 1077-1115): a    *)
(* host without SysOp powers keeps its messages in chatLog, and doChatLog, *)
(* called once per event loop, hands over two at a time; a command for the *)
(* server ('*...') and the messages of a SysOp host are posted at once.    *)
(*                                                                         *)
(* A message is its mode, sound, recipient and text, here one value of     *)
(* Chat.  The numbers given to the calls of tryChat are history.           *)
(***************************************************************************)
EXTENDS Integers, Sequences, Sublists

CONSTANTS
    Chat,        \* messages
    Starred,     \* those that start with '*'
    Pause,       \* ticks before the count starts again (150 in the code)
    MaxCalls,    \* bound on the calls of tryChat
    MaxTime      \* bound on the clock

ASSUME ConstantsAssumption ==
    /\ Starred \subseteq Chat
    /\ Pause \in Nat \ {0}
    /\ MaxCalls \in Nat /\ MaxTime \in Nat

PerPause == 2   \* messages handed over before the next pause

VARIABLES
    now,            \* getTickCount()
    hasSysOp,       \* the bot has SysOp powers in the arena
    chatLog,        \* messages waiting, oldest first
    lastChatSend,   \* when the count was last started
    countChatSend,  \* messages sent since then
    calls,          \* history: number of calls of tryChat
    logged,         \* history: the messages put into chatLog
    sent            \* history: the messages sent from it, and when

vars == <<now, hasSysOp, chatLog, lastChatSend, countChatSend, calls, logged, sent>>

Entry == [msg : Chat, no : Nat]
Sent  == [entry : Entry, time : Nat, calls : Nat]

(* resetSession() and the constructor.                                     *)
Init ==
    /\ now = 0 /\ hasSysOp = FALSE
    /\ chatLog = <<>> /\ lastChatSend = 0 /\ countChatSend = 0
    /\ calls = 0 /\ logged = <<>> /\ sent = <<>>

(* tryChat(), for one line of a message.                                   *)
TryChat(msg) ==
    LET entry == [msg |-> msg, no |-> calls]
    IN  /\ calls < MaxCalls
        /\ calls' = calls + 1
        /\ \/ /\ hasSysOp \/ msg \in Starred
              /\ UNCHANGED <<chatLog, logged>>
           \/ /\ ~hasSysOp /\ msg \notin Starred
              /\ chatLog' = Append(chatLog, entry)
              /\ logged' = Append(logged, entry)
        /\ UNCHANGED <<now, hasSysOp, lastChatSend, countChatSend, sent>>

(* chatLog.remove(lc) takes out every message equal to the first one.      *)
Remove(log, msg) == Sublist(log, {k \in DOMAIN log : log[k].msg # msg})

(* Mutant of SendNextLoggedChat: the message is taken out before the front *)
(* is read.                                                                *)
SendNextLoggedChat_Swapped(q, t) ==
    IF q.log = <<>> THEN q
    ELSE LET rest == Remove(q.log, Head(q.log).msg)
         IN  [log |-> rest,
              sent |-> IF rest = <<>> THEN q.sent
                       ELSE Append(q.sent, [entry |-> Head(rest), time |-> t, calls |-> calls])]

(* The state of the two queues after sendNextLoggedChat() sent at time t.  *)
SendNextLoggedChat(q, t) ==
    IF q.log = <<>> THEN q
    ELSE [log |-> Remove(q.log, Head(q.log).msg),
          sent |-> Append(q.sent, [entry |-> Head(q.log), time |-> t, calls |-> calls])]

(* Mutants: the pause is over at the next tick; one message too many.      *)
PauseIsOver_Early == now # lastChatSend
MaySend_OneMore(count) == count <= PerPause

(* The two conditions of doChatLog().                                      *)
PauseIsOver    == now - lastChatSend > Pause
MaySend(count) == count < PerPause

(* doChatLog().                                                            *)
DoChatLog ==
    LET count == IF PauseIsOver THEN 0 ELSE countChatSend
        q0    == [log |-> chatLog, sent |-> sent]
        q1    == IF MaySend(count) THEN SendNextLoggedChat(q0, now) ELSE q0
        q2    == IF MaySend(count + 1) THEN SendNextLoggedChat(q1, now) ELSE q1
    IN  /\ lastChatSend' = IF PauseIsOver THEN now ELSE lastChatSend
        /\ chatLog' = q2.log
        /\ sent' = q2.sent
        /\ countChatSend' = count + (Len(q2.sent) - Len(sent))
        /\ UNCHANGED <<now, hasSysOp, calls, logged>>

(* The server's answer to *listmod (handleChat).                           *)
BecomeSysOp ==
    /\ hasSysOp' = TRUE
    /\ UNCHANGED <<now, chatLog, lastChatSend, countChatSend, calls, logged, sent>>

(* resetSession(): the histories start afresh, too.                        *)
ResetSession ==
    /\ hasSysOp' = FALSE
    /\ chatLog' = <<>> /\ lastChatSend' = 0 /\ countChatSend' = 0
    /\ logged' = <<>> /\ sent' = <<>>
    /\ UNCHANGED <<now, calls>>

Tick ==
    /\ now < MaxTime
    /\ now' = now + 1
    /\ UNCHANGED <<hasSysOp, chatLog, lastChatSend, countChatSend, calls, logged, sent>>

Next ==
    \/ \E msg \in Chat : TryChat(msg)
    \/ DoChatLog \/ BecomeSysOp \/ ResetSession \/ Tick

Spec == Init /\ [][Next]_vars
-----------------------------------------------------------------------------
TypeOK ==
    /\ now \in 0..MaxTime /\ hasSysOp \in BOOLEAN
    /\ chatLog \in Seq(Entry)
    /\ lastChatSend \in 0..now /\ countChatSend \in 0..PerPause
    /\ calls \in 0..MaxCalls
    /\ logged \in Seq(Entry)
    /\ sent \in Seq(Sent)

(* Every message put into chatLog waits there still, or its text has been  *)
(* sent since; none is sent twice or out of turn, and none overtakes one   *)
(* that still waits, though equal messages are removed together            *)
(* (sendNextLoggedChat).                                                   *)
SentInOrder ==
    /\ \A k \in DOMAIN logged :
          \/ \E j \in DOMAIN chatLog : chatLog[j] = logged[k]
          \/ \E j \in DOMAIN sent : /\ sent[j].entry.msg = logged[k].msg
                                    /\ sent[j].calls > logged[k].no
    /\ \A j \in DOMAIN sent :
        /\ \A k \in DOMAIN sent : j < k => sent[j].entry.no < sent[k].entry.no
        /\ \A k \in DOMAIN chatLog : sent[j].entry.no < chatLog[k].no

(* Throttling (doChatLog): a burst is at most the last two messages of one *)
(* pause and the first two of the next; no Pause ticks see a fifth.        *)
BurstBound ==
    \A k \in DOMAIN sent :
        k > 2 * PerPause => sent[k].time - sent[k - 2 * PerPause].time > Pause
=============================================================================
