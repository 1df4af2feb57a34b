CONSTANTS
  r1 = r1
  r2 = r2
  d1 = d1
  d2 = d2
  v1 = v1
  v2 = v2
  t1 = t1
  t2 = t2
  ana = ana
  q1 = q1
  q2 = q2
  p1 = p1
  p2 = p2
  a1 = a1
  a2 = a2
  c1 = c1
  c2 = c2
  c3 = c3
  h1 = h1
  h2 = h2
  e1 = e1
  e2 = e2
  Orgs = {"acme"}
  Strays = {"ghost"}
  IdentifierTypes = {"email", "push_token", "phone_e164"}
  Written = {"Ana", "ana", "red", "55", "+55"}
  Strip <- MCStrip
  Lower <- MCLower
  Plus <- MCPlus
  Identifiers <- MCIdentifiers
  Phones = {"55"}
  RowIds = {r1, r2}
  Channels = {"email", "push_ios", "breach_incident", "push_web_sub"}
  TypeOf <- MCTypeOf
  NoRow = NoRow
  Recordings <- MCRecordings
  Subjects = {"ana"}
  Redacted = "red"
  Nobody = Nobody
  Deliveries = {d1, d2}
  Group <- MCGroup
  MetricOf <- MCMetric
  Window = 2
  Interval = 2
  MaxTime = 5
  MaxStarts = 2
  Names = {"a.br"}
  Verifiers = {v1, v2}
  ForceVerify = FALSE
  NoDomain = NoDomain
  Organizations = {"acme", "bolt"}
  Tokens = {t1, t2}
  FirstTokens <- MCFirstTokens
  Users = {ana}
  Requests = {q1, q2}
  Nowhere = Nowhere
  Replicas = {p1, p2}
  Events = {"e1", "e2"}
  Garbled = {"e2"}
  Own = {"own"}
  MaxLog = 3
  MaxBoots = 3
  Weightings <- MCWeightings
  Metrics = {"delivered", "clicked"}
  MinSample = 10
  Watched = 2
  MaxCount = 10
  Apps = {a1, a2}
  KeyCalls = {c1, c2, c3}
  Hosts = {h1, h2}
  Editions = {e1, e2}
  Malformed = Malformed
  Unread = Unread
SPECIFICATION Spec
SYMMETRY MCSymmetry
INVARIANTS TypeOK OptOutsHeeded ErasureHolds BilledTwiceOnlyAfterRestart
           VerifiedWasPublished TouchesOnlyOwn ExhaustionIsKnown OneLossPerEnd
           OneKeyUnlessExcused JudgesAsTold
PROPERTIES SweepAllOrNothing FairTests
CHECK_DEADLOCK FALSE
