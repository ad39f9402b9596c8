\* A window of two accounts.
CONSTANTS
  Process = {p1}
  LastId = 3
  System = {}
  MaxAccounts = 2
  PageLimit = 2
  Concurrency = 1
SPECIFICATION HSpec
INVARIANTS ResumesAtFailure
