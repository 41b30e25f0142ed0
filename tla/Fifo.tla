-------------------------------- MODULE Fifo --------------------------------
(***************************************************************************)
(* What src/pipe/pipe.h promises, with no buffer, no locks and no sizes: a *)
(* queue.  A sender hands over a sequence of elements, which may enter the *)
(* queue in several pieces with other senders' pieces in between; each     *)
(* piece keeps its order.  A receiver takes what it gets from the front.   *)
(* Nothing is lost, duplicated or reordered while anybody can still        *)
(* receive; once nobody can, what is still being sent may be dropped.      *)
(***************************************************************************)
EXTENDS Naturals, Sequences

CONSTANTS Senders, Receivers, Elements

VARIABLES
  queue,      \* the elements pushed and not popped
  sending,    \* per sender: the elements of its call not yet in the queue
  received,   \* per receiver: the elements its current call has got so far
  listening   \* somebody may still receive

vars == <<queue, sending, received, listening>>

Init ==
  /\ queue = <<>>
  /\ sending = [s \in Senders |-> <<>>]
  /\ received = [r \in Receivers |-> <<>>]
  /\ listening = TRUE

Send(s) ==
  /\ sending[s] = <<>>
  /\ sending'[s] \in Seq(Elements)
  /\ sending' = [sending EXCEPT ![s] = sending'[s]]
  /\ UNCHANGED <<queue, received, listening>>

Enqueue(s, n) ==
  /\ queue' = queue \o SubSeq(sending[s], 1, n)
  /\ sending' = [sending EXCEPT ![s] = SubSeq(@, n + 1, Len(@))]
  /\ UNCHANGED <<received, listening>>

Dequeue(r, n) ==
  /\ received' = [received EXCEPT ![r] = @ \o SubSeq(queue, 1, n)]
  /\ queue' = SubSeq(queue, n + 1, Len(queue))
  /\ UNCHANGED <<sending, listening>>

(* A new call to receive starts with an empty target.                      *)
Receive(r) ==
  /\ received' = [received EXCEPT ![r] = <<>>]
  /\ UNCHANGED <<queue, sending, listening>>

StopListening ==
  /\ listening' = FALSE
  /\ UNCHANGED <<queue, sending, received>>

Drop(s) ==
  /\ ~listening
  /\ sending' = [sending EXCEPT ![s] = <<>>]
  /\ UNCHANGED <<queue, received, listening>>

Next ==
  \/ StopListening
  \/ \E s \in Senders   : Send(s) \/ Drop(s) \/ \E n \in 1 .. Len(sending[s]) : Enqueue(s, n)
  \/ \E r \in Receivers : Receive(r) \/ \E n \in 1 .. Len(queue) : Dequeue(r, n)

Spec == Init /\ [][Next]_vars
=============================================================================
