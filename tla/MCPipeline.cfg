SPECIFICATION FairSpec
CONSTANTS
  Forwarders = {f1}
  Producers = {}
  Closers = {k1, k2}
  NSinks = 2
  IngestBuffer = 1
  SinkBuffer = 2
  MaxEvents = 3
CHECK_DEADLOCK FALSE
INVARIANTS TypeOK IngestAccounting SinkAccounting CloseAfterWorkers
PROPERTIES ConsumeInOrder DropsOldest CloseReturns SlowSinkIsolated ImplementsFeed
