SPECIFICATION Spec
CONSTANTS
  u1 = u1
  u2 = u2
  derived = derived
  pinned = pinned
  NoOne = NoOne
  NoPath = NoPath
  Users <- TwoUsers
  Paths <- TwoPaths
  Derived = derived
  Owner = u1
  LogPaths <- AnyCaller
  MaxLogBytes = 3
  MaxLines = 2
  TailBytes = 2
  DefaultLimit = 1
  Limits <- AnyLimit
  MaxJobs = 1
  MaxOutput = 2
  Faults = {}
INVARIANT ReportedLogIsShown
CHECK_DEADLOCK FALSE
