CONSTANTS
  a1 = a1
  Account = {a1}
  Task = {t1}
  Nobody = Nobody
  Orphan = Orphan
  PostCap = 2
  Acct <- OneAccount
SPECIFICATION HSpec
INVARIANTS InterruptedNotRejudged
