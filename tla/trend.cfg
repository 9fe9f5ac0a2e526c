SPECIFICATION Spec
CONSTANTS
  hub = hub
  app = app
  v1 = v1
  latest = latest
  d1 = d1
  d2 = d2
  f1 = f1
  f2 = f2
  None = None
  Registries = {hub}
  Repos = {app}
  Tags = {v1, latest}
  Latest = latest
  Digests = {d1, d2}
  Hosts = {}
  Clusters = {}
  Clients = {web, cli}
  Sources = {docker}
  Findings = {f1, f2}
  Reports <- One_Report
  DockerListings <- One_DockerListing
  PodListings <- One_PodListing
  TicksPerDay = 1
  MaxTime = 2
  ClockSkew = 1
  MaxScans = 2
  MaxRowId = 2
  WindowDays = 1
PROPERTIES
  
  NoForeknowledge
  
