SPECIFICATION Spec
CONSTANTS
  None = None
  nas = nas
  k3s = k3s
  job = job
  apps = apps
  img = img
  Nodes <- MC_Nodes
  Edges <- MC_Edges
  Parent <- MC_Parent
  ClassesOf <- MC_ClassesOf
  Tapped = {apps}
  Layers <- MC_Layers
  LayersOf <- MC_LayersOf
  Queries <- MC_Queries
  Labelled <- MC_Labelled
INVARIANTS
  LayersHonoured
