SPECIFICATION Spec
CONSTANTS
  chA = chA  chB = chB
  Clients = {c1}
  Channels = {chA, chB}
  Everyone = "everyone"
  Filters <- AOrBoth
  RingSize = 2
  Buffer = 1
  MaxEvents = 3
  MaxRestarts = 1
  MaxTroubles = 1
  MaxUpdates = 1
  Stoppable = {c1}
CHECK_DEADLOCK FALSE
INVARIANTS RingHoldsNewest DeliveryAccounted
PROPERTIES AppliedInOrder
