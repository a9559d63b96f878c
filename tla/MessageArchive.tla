--------------------------- MODULE MessageArchive ----------------------------
(***************************************************************************)
(* What the logbook promises of the chat history, without the goroutines   *)
(* that keep the promise (MessageLog).  A message that was said while      *)
(* logging was on may be accepted, once and in the order in which they     *)
(* were said.  What is accepted waits, and is then stored or lost in runs: *)
(* no message that still waits lies between two that are stored at once.   *)
(* A stored message stays, through crashes too, until it is older than the *)
(* retention window; what is lost or expired does not come back.           *)
(***************************************************************************)
EXTENDS Naturals

VARIABLES
  said,        \* number of messages said; a later message is a larger number
  consented,   \* those said while logging was on
  pending,     \* accepted, not stored yet
  stored,      \* the history
  flagged,     \* what of the history is marked deleted
  lost,        \* accepted, but not or no longer in the history
  expired      \* messages up to this one are older than the retention window

vars == <<said, consented, pending, stored, flagged, lost, expired>>

Init ==
  /\ said = 0 /\ consented = {} /\ pending = {}
  /\ stored = {} /\ flagged = {} /\ lost = {} /\ expired = 0

Say(on) ==
  /\ said' = said + 1
  /\ consented' = IF on THEN consented \cup {said + 1} ELSE consented
  /\ UNCHANGED <<pending, stored, flagged, lost, expired>>

\* After every message that was accepted before.
Accept(m) ==
  /\ \A x \in pending \cup stored \cup lost : x < m
  /\ pending' = pending \cup {m}
  /\ UNCHANGED <<said, consented, stored, flagged, lost, expired>>

\* Messages that wait, without a gap among those that wait.
Run(B) ==
  /\ B # {} /\ B \subseteq pending
  /\ \A x, y \in B : \A m \in pending : x < m /\ m < y => m \in B

Store(B) ==
  /\ Run(B)
  /\ pending' = pending \ B /\ stored' = stored \cup B
  /\ UNCHANGED <<said, consented, flagged, lost, expired>>

Lose(B) ==
  /\ Run(B)
  /\ pending' = pending \ B /\ lost' = lost \cup B
  /\ UNCHANGED <<said, consented, stored, flagged, expired>>

Flag(m) ==
  /\ flagged' = flagged \cup {m}
  /\ UNCHANGED <<said, consented, pending, stored, lost, expired>>

Age ==
  /\ expired < said /\ expired' = said
  /\ UNCHANGED <<said, consented, pending, stored, flagged, lost>>

Expire(B) ==
  /\ \A m \in B : m <= expired
  /\ stored' = stored \ B /\ flagged' = flagged \ B /\ lost' = lost \cup B
  /\ UNCHANGED <<said, consented, pending, expired>>

Next ==
  \/ \E on \in BOOLEAN : Say(on)
  \/ \E m \in consented : Accept(m)
  \/ \E B \in SUBSET pending : Store(B) \/ Lose(B)
  \/ \E m \in stored : Flag(m)
  \/ Age
  \/ \E B \in SUBSET stored : Expire(B)

Spec == Init /\ [][Next]_vars
=============================================================================
