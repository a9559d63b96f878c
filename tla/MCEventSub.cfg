SPECIFICATION Spec
CONSTANTS
  Channels = {a}
  Workers = {w1, w2}
  MaxEvents = 2
  SubsPerConn = 2
  ConnsPerUser = 1
SYMMETRY WorkerSymmetry
INVARIANTS ReadAtRest UpIsLive SignedOutIsSilent
