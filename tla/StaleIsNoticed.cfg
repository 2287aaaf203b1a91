SPECIFICATION MCSpec
CONSTANTS
  Hooks = {h1, h2}
  h1 = h1
  h2 = h2
  Dispatchers = {d1}
  d1 = d1
  Activities = {"content.published", "webhook.upserted"}
  Upserted = "webhook.upserted"
  AttemptLimits = {1, 2}
  DispatchLimit = 1
  MaxDeliveries = 2
  MaxLosses = 1
  MaxUpserts = 2
  expert = expert
  resource = resource
  Nodes = {expert, resource}
  TypeOf <- MCTypeOf
  Editors = {editor}
  Workers = {job}
  MaxEdits = 2
  MaxFailures = 1
  Callers = {c1, c2}
  Threshold = 2
  ResetTimeout = 1
  Units = {u1, u2}
  Senders = {s1, s2}
  PendingLimit = 1
  MaxStops = 1
  SagaIds = {order, claim}
  Publishers = {t1, t2}
  StepCount = 2
  MaxDepth = 3
  MaxEvents = 5
INVARIANT StaleIsNoticed
CHECK_DEADLOCK FALSE
