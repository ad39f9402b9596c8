\* Pages of 2 and batches of 3: a batch takes two pages and two chunks.
CONSTANTS
  Process = {p1}
  LastId = 4
  System = {1, 2}
  MaxAccounts = 3
  PageLimit = 2
  Concurrency = 2
SPECIFICATION FairSpec
INVARIANTS TypeOK NothingSkipped NoGapInBatch
PROPERTIES EveryAccountIsChecked
