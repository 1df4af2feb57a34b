CONSTANTS
  r1 = r1
  r2 = r2
  acme = acme
  nobody = nobody
  ana = ana
  bob = bob
  tpl = tpl
  hello = hello
  bye = bye
  header = header
  NoHeader = NoHeader
  Nothing = Nothing
  Tenants = {acme, nobody}
  Channels = {"email", "push"}
  Addresses = {ana, bob}
  Templates = {tpl}
  Contents = {hello, bye}
  Headers = {header}
  Contacts <- MCContacts
  Organisations = {acme}
  MonthlyQuota = 2
  Days = {1, 2}
  Requests = {r1, r2}
  Asks <- PlainAsks
  Faults = {}
CHECK_DEADLOCK FALSE
SPECIFICATION Spec
INVARIANT ReplayOfTheSameSend
