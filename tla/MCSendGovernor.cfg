SPECIFICATION Spec
CONSTANTS
  r1 = r1  r2 = r2  r3 = r3  d1 = d1  k1 = k1
  Requests <- TwoRequests
  Keys <- OneKey
  Targets <- PostTwice
  Drains <- OneDrain
  Burst = 2
  Window = 2
  Quiet = 2
  Waits = {3}
  MaxTime = 3

CHECK_DEADLOCK FALSE
INVARIANTS SendsInOrder LimitFollows Paced
PROPERTIES PenaltyHeld
