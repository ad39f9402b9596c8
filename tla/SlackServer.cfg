\* Two clicks at a time on a message about one account.
CONSTANTS
  a1 = a1
  Account = {a1}
  Task = {t1}
  Nobody = Nobody
  Orphan = Orphan
  Message = {m1}
  Click = {c1, c2}
  Bare = {c2}
  About <- OneAccount
SPECIFICATION FairSpec
INVARIANTS TypeOK ClearedIsNotActedOn FailedActionKeepsButton RecordIsTrue
PROPERTIES DrainInterruptsNothing ClicksAreTakenAgain
