SPECIFICATION Spec
CONSTANTS
  hub = hub
  app = app
  v1 = v1
  latest = latest
  d1 = d1
  d2 = d2
  f1 = f1
  f2 = f2
  None = None
  Registries = {hub}
  Repos = {app}
  Tags = {v1, latest}
  Latest = latest
  Digests = {d1, d2}
  Hosts = {h1}
  Clusters = {k1}
  Clients = {web}
  Sources = {docker}
  Findings = {f1, f2}
  Reports <- MC_Reports
  DockerListings <- MC_DockerListings
  PodListings <- MC_PodListings
  TicksPerDay = 1
  MaxTime = 1
  ClockSkew = 0
  MaxScans = 2
  MaxRowId = 3
  WindowDays = 1
INVARIANTS
  CountsMatchFindings
