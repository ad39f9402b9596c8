\* One tick is 30 seconds: a lease of 180, renewed every 60, 30 to answer.
CONSTANTS
  Process = {p1, p2}
  Nobody = Nobody
  Orphan = Orphan
  LeaseTicks = 6
  RenewEvery = 2
  RenewTimeout = 1
  ReplyTicks = 1
SPECIFICATION Spec
INVARIANTS OnlyOneTouching
