SPECIFICATION Spec
CONSTANTS
  j1 = j1
  j2 = j2
  u1 = u1
  u2 = u2
  Jobs <- TwoJobs
  Users <- TwoUsers
  Owner <- EachItsOwner
  MaxPerUser = 1
  MaxGlobal = 1
  Faults = {}
  MaxStops = 1
INVARIANT GlobalCapHolds
CHECK_DEADLOCK FALSE
