SPECIFICATION Spec
CONSTANTS
  Root = Root
  Unset = Unset
  host = host
  nas = nas
  proj = proj
  web = web
  db = db
  cache = cache
  net = net
  k3s = k3s
  apps = apps
  job = job
  img = img
  img2 = img2
  Gap = 1
  Padding = 1
  SampleSize = 3
  MAX_ITERATIONS = 5
  PerNode = 1
  CheckPeriod = 2
  GridPeriod = 2
  GrowPeriod = 2
  CoolSteps = 2
  Drawings <- MC_Drawings
  LeafSize <- MC_LeafSize
INVARIANTS
  TypeOK
  ColumnsUsable
  ListsFresh
  SurroundingsKnown
  EdgesBack
  NothingLost
  TilesInside
PROPERTIES
  LayoutEnds
