----------------------------- MODULE LossyFeed -----------------------------
(***************************************************************************)
(* What the pipeline promises its sinks, without the goroutines that keep  *)
(* the promise: events are taken in order, one at a time; each is discarded *)
(* or published, and what is published is offered to every consumer before *)
(* the next event is taken.  A consumer has a queue of its own, of bounded *)
(* depth.  The oldest event of that queue, and only it, may be lost, and   *)
(* only while a newer event is waiting to be offered; every loss is        *)
(* counted.  What is not lost is delivered in order, once.                 *)
(***************************************************************************)
EXTENDS Naturals, Sequences

CONSTANTS Consumers, Depth

VARIABLES
  event,       \* the event taken last; a later event is a larger number
  fresh,       \* it has been neither discarded nor published yet
  published,   \* number of events published
  offered,     \* consumer -> number of them offered to it
  pending,     \* consumer -> its queue, oldest first
  lost,        \* consumer -> number of events lost
  seen         \* consumer -> the event delivered to it last

vars == <<event, fresh, published, offered, pending, lost, seen>>

Init ==
  /\ event = 0 /\ fresh = FALSE /\ published = 0
  /\ offered = [c \in Consumers |-> 0]
  /\ pending = [c \in Consumers |-> << >>]
  /\ lost = [c \in Consumers |-> 0]
  /\ seen = [c \in Consumers |-> 0]

AllOffered == \A c \in Consumers : offered[c] = published

Take ==
  /\ ~fresh /\ AllOffered
  /\ event' \in Nat /\ event' > event
  /\ fresh' = TRUE
  /\ UNCHANGED <<published, offered, pending, lost, seen>>

Discard ==
  /\ fresh /\ fresh' = FALSE
  /\ UNCHANGED <<event, published, offered, pending, lost, seen>>

Publish ==
  /\ fresh /\ fresh' = FALSE
  /\ published' = published + 1
  /\ UNCHANGED <<event, offered, pending, lost, seen>>

Offer(c) ==
  /\ offered[c] < published /\ Len(pending[c]) < Depth
  /\ offered' = [offered EXCEPT ![c] = @ + 1]
  /\ pending' = [pending EXCEPT ![c] = Append(@, event)]
  /\ UNCHANGED <<event, fresh, published, lost, seen>>

Lose(c) ==
  /\ offered[c] < published /\ pending[c] # << >>
  /\ pending' = [pending EXCEPT ![c] = Tail(@)]
  /\ lost' = [lost EXCEPT ![c] = @ + 1]
  /\ UNCHANGED <<event, fresh, published, offered, seen>>

Deliver(c) ==
  /\ pending[c] # << >>
  /\ pending' = [pending EXCEPT ![c] = Tail(@)]
  /\ seen' = [seen EXCEPT ![c] = Head(pending[c])]
  /\ UNCHANGED <<event, fresh, published, offered, lost>>

Next ==
  \/ Take \/ Discard \/ Publish
  \/ \E c \in Consumers : Offer(c) \/ Lose(c) \/ Deliver(c)

Spec == Init /\ [][Next]_vars
=============================================================================
