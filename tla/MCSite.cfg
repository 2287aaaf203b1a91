SPECIFICATION MCSpec
CONSTANTS
  Root = root
  NodeIds = {root, a}
  Slugs = {x}
  Payloads = {p, q}
  Publishable = {p, q}
  Actors = {ed}
  NoActor = NoActor
  None = None
  Keeps = {1}
  Ttls = {1}
  Retentions = {0}
  MaxVersion = 1000
  MaxTime = 1
  Cultures = {nl}
  Segments = {vip}
  Users = {ann}
  Groups = {members}
  RuleIds = {r1}
  Hosts <- MCHosts
  WildcardOf <- MCWildcardOf
  AnyHost = "*"
  DomainIds = {d1, d2}
  Tokens = {t1}
  PreviewTtls = {1}
  Readers = {r}
  Browsers = {s}
  Bodies <- MCBodies
VIEW SiteView
INVARIANTS ServedWasReleased AnswersWereLive  SavedAsPreviewed
PROPERTY DeadTokensStayDead
CHECK_DEADLOCK FALSE
