SPECIFICATION Spec
CONSTANTS
  hub = hub
  app = app
  v1 = v1
  latest = latest
  d1 = d1
  d2 = d2
  f1 = f1
  f2 = f2
  None = None
  Registries = {hub}
  Repos = {app}
  Tags = {v1, latest}
  Latest = latest
  Digests = {d1, d2}
  Hosts = {h1}
  Clusters = {}
  Clients = {web}
  Sources = {docker}
  Findings = {f1, f2}
  Reports <- Lean_Reports
  DockerListings <- Lean_DockerListings
  PodListings <- Lean_PodListings
  TicksPerDay = 1
  MaxTime = 1
  ClockSkew = 0
  MaxScans = 3
  MaxRowId = 3
  WindowDays = 1
PROPERTIES
  DeleteShowsDrop
