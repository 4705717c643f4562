SPECIFICATION Spec
CONSTANTS
  None = None  BadId = BadId
  n1 = n1  n2 = n2  p1 = p1  p2 = p2  p3 = p3  s1 = s1  s2 = s2  l1 = l1  l2 = l2
  Names = {n1}
  Requests <- OneRequest
  Calls = {c1}
  Vdis = {d1, d2}
  Pools = {p1, p2, p3}
  SRs = {s1, s2, l1, l2}
  PoolOf <- MCPoolOf
  LocalSRs = {l1, l2}
  DefaultSR <- MCDefaultSR
  Tagged = {p2, p3}
  Faults = {"api", "abandon"}
SYMMETRY Interchangeable
INVARIANT OneDiskPerName
CHECK_DEADLOCK FALSE
