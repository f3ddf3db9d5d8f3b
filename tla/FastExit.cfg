SPECIFICATION FairSpec
CONSTANTS
  j1 = j1
  j2 = j2
  u1 = u1
  u2 = u2
  Jobs <- OneJob
  Users <- TwoUsers
  Owner <- SameOwner
  MaxPerUser = 1
  MaxGlobal = 0
  Faults = {}
  MaxStops = 0
PROPERTY ExitEndsJob
CHECK_DEADLOCK FALSE
