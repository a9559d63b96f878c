--------------------------- MODULE MCSendGovernor ---------------------------
(* Small instances of SendGovernor for TLC. *)
EXTENDS SendGovernor, TLC

CONSTANTS r1, r2, r3, d1, k1

OneKey == {k1}
TwoRequests == {r1, r2}
ThreeRequests == {r1, r2, r3}
NoDrain == {}
OneDrain == {d1}

(* Every request posts to the one channel. *)
ToOne == [r \in Requests |-> <<k1>>]
(* One request posts twice to the channel another posts to. *)
PostTwice == r1 :> <<k1, k1>> @@ r2 :> <<k1>>

SymmetricRequests == Permutations(Requests)
=============================================================================
