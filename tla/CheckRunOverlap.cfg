\* Two runs at once.
CONSTANTS
  Process = {p1, p2}
  LastId = 2
  System = {}
  MaxAccounts = 2
  PageLimit = 1
  Concurrency = 1
SPECIFICATION Spec
PROPERTIES CursorNeverRegresses
