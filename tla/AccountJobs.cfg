CONSTANTS
  a1 = a1
  Account = {a1}
  Task = {t1}
  Nobody = Nobody
  Orphan = Orphan
  PostCap = 2
  Acct <- OneAccount
SPECIFICATION FairSpec
INVARIANTS TypeOK WriteAhead DebtsAreQueued CompletedIsNotQueued RepeatsOnlyInDoubt
PROPERTIES QuietOnlyWithCause ImplementsOutbox QueuedIsSettled
