SPECIFICATION Spec
CONSTANTS
  None = None
  v1 = v1  v2 = v2  m1 = m1  m2 = m2  h1 = h1  h2 = h2  h3 = h3
  shared = shared  l1 = l1  l2 = l2  l3 = l3  d1 = d1  d2 = d2  p1 = p1  p2 = p2
  Volumes = {v1}
  Static = {}
  Local = {v1}
  Vdis = {d1, d3, d4}
  Vbds = {b1, b2}
  VMs = {m1, m2}
  Hosts = {h1, h2}
  SRs = {shared, l1, l2}
  Calls = {c1}
  LocalHost <- MCLocalHost
  PoolOf <- MCPoolOf
  HomeVdi <- MCHomeVdi
  HomeSR <- OnSecondHost
  HomeHost <- MCHomeHost
  ClusterTag = TRUE
  Ops = {"publish", "unpublish", "delete", "validate"}
  Ordered = TRUE
  Faults = {"api"}
SYMMETRY Spare
CHECK_DEADLOCK FALSE
INVARIANT DeletedIsGone
