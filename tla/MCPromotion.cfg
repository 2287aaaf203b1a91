SPECIFICATION MCSpec
CONSTANTS
  Root = root
  NodeIds = {root, a, b}
  Slugs = {x, y}
  Payloads = {p}
  Publishable = {p}
  Actors = {ed}
  NoActor = NoActor
  None = None
  Keeps = {1}
  Ttls = {1}
  Retentions = {0}
  MaxVersion = 1000
  MaxTime = 0
  Cultures = {nl}
  Segments = {}
  Users = {ed}
  Groups = {}
  RuleIds = {r1}
  Hosts = {"*"}
  WildcardOf <- MCWildcardOf
  AnyHost = "*"
  DomainIds = {d1}
  Tokens = {}
  PreviewTtls = {1}
  TypeAliases = {page}
  DataTypeAliases = {short}
  CompositionAliases = {seo}
  TemplateAliases = {wide}
  FieldAliases = {title}
  BlueprintIds = {b1}
  PageIds = {p1}
  Lengths = {0, 1, 2}
  Limits = {1}
  Editors = {ed}
  Sessions = {s1}
  Defaults = None
  Absent = Absent
SYMMETRY PageSymmetry
VIEW PromotionView
INVARIANTS PublishedIffLive OperationsKeepTree EveryRouteIsReached DraftsFitASchema 
PROPERTIES UnaskedRowsAreKept ImportsHaveParents WorkWasPermitted
CHECK_DEADLOCK FALSE
