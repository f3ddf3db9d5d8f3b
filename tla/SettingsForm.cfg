SPECIFICATION Spec
CONSTANTS
  k1 = k1
  k2 = k2
  u1 = u1
  u2 = u2
  v1 = v1
  v2 = v2
  m1 = m1
  m2 = m2
  r1 = r1
  r2 = r2
  p1 = p1
  NoKey = NoKey
  NoOne = NoOne
  NoValue = NoValue
  Keys <- TwoKeys
  Prefixes <- OnePrefix
  PrefixOf <- SamePrefix
  Users <- TwoUsers
  Values <- TwoValues
  Masters <- TwoMasters
  Requests <- TwoRequests
  Faults = {"db"}
SYMMETRY KeySymmetry
INVARIANT FormsAreTaken
CHECK_DEADLOCK FALSE
