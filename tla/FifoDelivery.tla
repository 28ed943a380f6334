--------------------------- MODULE FifoDelivery ---------------------------
(***************************************************************************)
(* What the reliable layer of a Host promises to the code above it: every  *)
(* message handed to post(..., true) reaches the peer's message handlers   *)
(* exactly once and in the order of the calls.  Several messages may be    *)
(* handed over in one step, because checkReceived drains its buffer when   *)
(* the message it was waiting for arrives.                                 *)
(***************************************************************************)
EXTENDS Naturals, Sequences

CONSTANTS Payload,   \* the messages that are posted
          MaxPosts   \* bound on the number of posts of one session

VARIABLES posted,    \* every message posted so far, in order
          delivered  \* every message handed to the handlers so far, in order

vars == <<posted, delivered>>

TypeOK == /\ posted \in Seq(Payload)
          /\ delivered \in Seq(Payload)

Init == /\ posted = <<>>
        /\ delivered = <<>>

Post(d) == /\ Len(posted) < MaxPosts
           /\ posted' = Append(posted, d)
           /\ UNCHANGED delivered

(* Deliver the messages up to the n-th one.                                *)
Deliver(n) == /\ delivered' = SubSeq(posted, 1, n)
              /\ UNCHANGED posted

Next == \/ \E d \in Payload : Post(d)
        \/ \E n \in (Len(delivered) + 1)..Len(posted) : Deliver(n)

Fairness == WF_vars(\E n \in (Len(delivered) + 1)..Len(posted) : Deliver(n))

Spec == Init /\ [][Next]_vars
FairSpec == Spec /\ Fairness
=============================================================================
