SPECIFICATION Spec
CONSTANTS
  None = None
  v1 = v1  v2 = v2  m1 = m1  m2 = m2  h1 = h1  h2 = h2  h3 = h3
  shared = shared  l1 = l1  l2 = l2  l3 = l3  d1 = d1  d2 = d2  p1 = p1  p2 = p2
  Volumes = {v1, v2}
  Static = {v2}
  Local = {v1}
  Vdis = {d1, d2, d3}
  Vbds = {b1}
  VMs = {m1, m2}
  Hosts = {h1, h2, h3}
  SRs = {shared, l1, l2, l3}
  Calls = {c1, c2}
  LocalHost <- MCLocalHost
  PoolOf <- TwoPools
  HomeVdi <- MCHomeVdi
  HomeSR <- OnThirdHost
  HomeHost <- MCHomeHost
  ClusterTag = FALSE
  Ops = {"publish", "unpublish", "delete"}
  Ordered = FALSE
  Faults = {"api", "unplug", "locked"}
SYMMETRY Spare
INVARIANTS
  TagsTruthful OwnDisk DynamicFindable VolumesFindable
