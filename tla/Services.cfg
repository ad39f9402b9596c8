SPECIFICATION Spec
CONSTANTS
  MaxRetries = 3
  BaseDelay = 1
  Timeout = 60
  MaxRetryAfter = 60
  ClaimTTL = 1200
  Took = {0, 7, 60}
  RetryAfter = {0, 60, 7200}
  Writer = {w1, w2}
  Holder = {a, b}
  Retention = 2
  MaxScan = 1
  QueueLast = 3
  Radix = 3
  RetryMax = 2
  WalkFactor = 1
  RetryChunk = 1
  Scale = 100
  NaN = NaN
  Reported <- AnyReport
  Threshold = {0, 50, 100}
INVARIANTS
  TypeOK
  ClaimOutlivesDelivery
  NoteWrittenOnce
  MigratedIsBounded
  UnresolvedIsDurable
  OnlyOwnServicesFail
  FlagIsNotBuried
  ThresholdIsMet
  RequestsStayHome
PROPERTIES
  WriterRecovers
  NoteCallsEnd
  KeptForRetention
  RetriedInTurn
