CONSTANTS
  a1 = a1
  Account = {a1}
  Task = {t1, t2}
  Nobody = Nobody
  Orphan = Orphan
  PostCap = 1
  Acct <- OneAccount
SPECIFICATION Spec
INVARIANTS OneDelivery
