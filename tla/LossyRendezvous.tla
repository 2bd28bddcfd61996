-------------------------- MODULE LossyRendezvous ---------------------------
(***************************************************************************)
(* What an endpoint promises about messages: each is handed to at most one *)
(* receiver, those that wait are taken in the order they were sent, and a  *)
(* message can be lost only at the moment it is sent.                      *)
(***************************************************************************)
EXTENDS Naturals, Sequences

CONSTANT Endpoints

VARIABLES next,       \* number of the next message
          waiting,    \* messages waiting at each endpoint
          received    \* messages handed to a receiver

Init ==
  /\ next = 1
  /\ waiting = [e \in Endpoints |-> <<>>]
  /\ received = {}

\* The next message waits behind those already there, ...
Wait(e) ==
  /\ next' = next + 1
  /\ waiting' = [waiting EXCEPT ![e] = Append(@, next)]
  /\ UNCHANGED received

\* ... or goes to a waiting receiver, when no other message waits, ...
HandOver(e) ==
  /\ waiting[e] = <<>>
  /\ next' = next + 1
  /\ received' = received \cup {next}
  /\ UNCHANGED waiting

\* ... or is lost.
Lose ==
  /\ next' = next + 1
  /\ UNCHANGED <<waiting, received>>

\* A receiver takes the message that has waited longest.
Take(e) ==
  /\ waiting[e] # <<>>
  /\ Head(waiting[e]) \notin received
  /\ received' = received \cup {Head(waiting[e])}
  /\ waiting' = [waiting EXCEPT ![e] = Tail(@)]
  /\ UNCHANGED next

Next == Lose \/ \E e \in Endpoints : Wait(e) \/ HandOver(e) \/ Take(e)

Spec == Init /\ [][Next]_<<next, waiting, received>>
=============================================================================
