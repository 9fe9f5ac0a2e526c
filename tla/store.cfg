SPECIFICATION Spec
CONSTANTS
  None = None
  ann = ann
  bob = bob
  nas = nas
  pi = pi
  web1 = web1
  db1 = db1
  cache = cache
  rack = rack
  room = room
  x = x
  y = y
  NotADict = NotADict
  Clients = {c1, c2}
  UserNames = {ann, bob}
  HostNames = {nas, pi}
  Keys = {rack, room}
  Values = {x, y}
  Names = {web1, db1, cache}
  InitialFiles <- MC_InitialFiles
  Listings <- MC_Listings
  FactsRuns <- MC_FactsRuns
  DockerRuns <- MC_DockerRuns
  Commands <- MC_Commands
  MaxId = 8
  MaxStarts = 3
INVARIANTS
  TypeOK
  OnlyTheLoopDeadlocks
PROPERTIES
  AdminLostOnlyByRace
  SetupOnlyOnFreshInstall
  FieldLostOnlyByRace
  OrphansOnlyByRace
  MixedOnlyByBreakOff
  SessionsEnd
CHECK_DEADLOCK FALSE
