SPECIFICATION FairSpec
CONSTANTS
  None = None
  v1 = v1  v2 = v2  t1 = t1  t2 = t2
  Volumes = {v1, v2}
  Targets = {t1, t2}
  VolumeOf <- MCVolumeOf
  Devices = {x1}
  Calls = {c1, c2}
  Faults = {"error", "crash", "timeout", "restart", "reboot"}
  Sources = {"env"}
  MetadataSource = "kubernetes"
  Watched = {v1, t1}
INVARIANTS
  TypeOK PluginTypeOK MountedIsPlugged PodsSeeTheirVolume NothingLeft
PROPERTIES
  Recovers Released
