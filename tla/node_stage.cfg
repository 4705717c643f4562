SPECIFICATION Spec
CONSTANTS
  None = None
  v1 = v1  v2 = v2  t1 = t1  t2 = t2  t3 = t3
  Volumes = {v1, v2}
  Targets = {t1, t2, t3}
  VolumeOf <- MCVolumeOf
  Devices = {x1, x2}
  Calls = {c1, c2}
  Faults = {"error", "crash"}
SYMMETRY Interchangeable
INVARIANT StagedIsSeen
