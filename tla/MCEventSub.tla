----------------------------- MODULE MCEventSub -----------------------------
(* One channel, whose subscriptions, callbacks and calls race each other. *)
EXTENDS EventSub, TLC

\* Goroutines differ only in what they are doing.
WorkerSymmetry == Permutations(Workers)
=============================================================================
