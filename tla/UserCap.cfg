SPECIFICATION Spec
CONSTANTS
  j1 = j1
  j2 = j2
  u1 = u1
  u2 = u2
  Jobs <- TwoJobs
  Users <- TwoUsers
  Owner <- SameOwner
  MaxPerUser = 1
  MaxGlobal = 0
  Faults = {"creds"}
  MaxStops = 1
SYMMETRY JobSymmetry
INVARIANT UserCapHolds
INVARIANT QueuedHoldsNothing
CHECK_DEADLOCK FALSE
