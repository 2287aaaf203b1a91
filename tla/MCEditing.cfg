SPECIFICATION MCSpec
CONSTANTS
  Root = root
  NodeIds = {root, a}
  Slugs = {x}
  Payloads = {p, q}
  Publishable = {p}
  Actors = {ann, bob}
  NoActor = NoActor
  None = None
  Keeps = {1, 2}
  Ttls = {1, 2}
  Retentions = {None, 0, 1}
  MaxVersion = 1000
  MaxTime = 2
  Requests = {r1, r2}
  Targets = {"draft", "in_review", "approved", "published"}
  LastVersion = 4
VIEW EditingView
SYMMETRY EditingSymmetry
INVARIANTS TypeOK NewestVersionIsDraft LockProtectsDraft ApprovedWasReviewed
PROPERTY VersionNumbersNotReused
CHECK_DEADLOCK FALSE
