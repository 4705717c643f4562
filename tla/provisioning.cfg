SPECIFICATION Spec
CONSTANTS
  None = None  BadId = BadId
  n1 = n1  n2 = n2  p1 = p1  p2 = p2  p3 = p3  s1 = s1  s2 = s2  l1 = l1  l2 = l2
  Names = {n1, n2}
  Requests <- MCRequests
  Calls = {c1, c2}
  Vdis = {d1, d2}
  Pools = {p1, p2, p3}
  SRs = {s1, s2, l1, l2}
  PoolOf <- MCPoolOf
  LocalSRs = {l1, l2}
  DefaultSR <- MCDefaultSR
  Tagged = {p2, p3}
  Faults = {"api", "maintenance"}
SYMMETRY Interchangeable
INVARIANTS
  TypeOK OneDiskPerName PlacedAsAsked PreferredFirst AnswersTruthful
