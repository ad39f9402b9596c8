\* A cap of 3 members against a report of 2, and two windows' time.
CONSTANTS
  LastId = 4
  Signal = {"bio", "domain"}
  SignalsOf <- Shared
  Window = 2
  MemberCap = 3
  Reported = 2
  MaxNow = 5
SPECIFICATION Spec
INVARIANTS TypeOK IndexIsLossless
