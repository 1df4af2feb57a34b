CONSTANTS
  c1 = c1
  c2 = c2
  acme = acme
  ana = ana
  text = text
  key = key
  NoHeader = NoHeader
  Never = Never
  Unlimited = Unlimited
  Calls = {c1, c2}
  Tenants = {acme}
  Channels = {"email"}
  Recipients = {ana}
  Categories = {"transactional", "digest"}
  Bodies = {text}
  Headers = {key}
  Asks <- MCAsks
  Defaults <- MCDefaults
  Preferences <- MCPreferences
  Grants <- MCGrants
  Limit = 1
  Window = 2
  TTL = 1
  Period = 2
  Stall = 1
  MaxClock = 3
SYMMETRY Symmetry
SPECIFICATION Spec
INVARIANTS TypeOK KeyOncePerLifetime RateWithinWindow QuotaExact
PROPERTIES DuplicateOnlyWhileRemembered RefusedOnlyWhenFull CapWithinPeriod
