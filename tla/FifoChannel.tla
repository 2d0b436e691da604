---------------------------- MODULE FifoChannel ----------------------------
(***************************************************************************)
(* What the outbox promises its callers: a reliable first-in, first-out    *)
(* channel per publisher.  The n-th event sent for a publisher is received *)
(* after the n - 1 before it, and received at all.                         *)
(***************************************************************************)
EXTENDS Integers

CONSTANT Pubkey

VARIABLES
  sent,      \* how many events were sent, per publisher
  received   \* which of them have been received, per publisher

vars == <<sent, received>>

Init ==
  /\ sent = [k \in Pubkey |-> 0]
  /\ received = [k \in Pubkey |-> {}]

\* One call may send several events, of several publishers.
Send ==
  /\ sent' \in [Pubkey -> Nat]
  /\ \A k \in Pubkey : sent[k] <= sent'[k]
  /\ UNCHANGED received

Receive(k) ==
  /\ \E n \in 1..sent[k] :
       /\ received[k] = 1..(n - 1)
       /\ received' = [received EXCEPT ![k] = 1..n]
  /\ UNCHANGED sent

Next == Send \/ \E k \in Pubkey : Receive(k)

SafeSpec == Init /\ [][Next]_vars
Spec == SafeSpec /\ \A k \in Pubkey : WF_vars(Receive(k))
=============================================================================
