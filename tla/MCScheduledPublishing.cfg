SPECIFICATION MCFairSpec
CONSTANTS
  Root = root
  NodeIds = {root, a, b}
  Slugs = {x, y}
  Payloads = {p, q}
  Publishable = {p}
  Actors = {ed, system}
  System = system
  NoActor = NoActor
  None = None
  Keeps = {1}
  Ttls = {1}
  Retentions = {0}
  MaxVersion = 12
  MaxTime = 2
  Passes = {job}
  ReportLimit = 2
  Budget = 4
  Files <- MCFiles
  SourceOf <- MCSourceOf
  Managed = "rag_material"
  Seeders = {s1, s2}
  SeedActor = system
  SeedBudget = 2
INVARIANTS NothingOutlivesPurge OnePagePerSource
 
CHECK_DEADLOCK FALSE
