SPECIFICATION Spec
CONSTANTS
  hub = hub
  app = app
  v1 = v1
  latest = latest
  d1 = d1
  d2 = d2
  f1 = f1
  f2 = f2
  None = None
  Registries = {hub}
  Repos = {app}
  Tags = {v1, latest}
  Latest = latest
  Digests = {d1, d2}
  Hosts = {}
  Clusters = {}
  Clients = {}
  Sources = {docker, kubernetes}
  Findings = {f1, f2}
  Reports <- Timed_Reports
  DockerListings <- Lean_DockerListings
  PodListings <- Lean_PodListings
  TicksPerDay = 3
  MaxTime = 2
  ClockSkew = 0
  MaxScans = 4
  MaxRowId = 4
  WindowDays = 1
PROPERTIES
  StaleOnlyByMissedRun
SYMMETRY Interchangeable
