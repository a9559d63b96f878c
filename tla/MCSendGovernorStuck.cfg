SPECIFICATION FairSpec
CONSTANTS
  r1 = r1  r2 = r2  r3 = r3  d1 = d1  k1 = k1
  Requests <- TwoRequests
  Keys <- OneKey
  Targets <- ToOne
  Drains <- NoDrain
  Burst = 1
  Window = 2
  Quiet = 9
  Waits = {1}
  MaxTime = 2

CHECK_DEADLOCK FALSE
PROPERTIES QueueMovesOn
