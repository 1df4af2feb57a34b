CONSTANTS
  m1 = m1
  m2 = m2
  s1 = s1
  s2 = s2
  email = email
  sms = sms
  Msgs = {m1}
  Channels = {email, sms}
  Email = email
  DLQ = dlq
  NoChannel = none
  MaxRows = 4
  Senders = {s1, s2}
  WorkerChannel <- MCWorkerChannel
  MsgChannel <- MCMsgChannel
  SenderMax = 1
  RetryMax = 2
  InitialRetries = {0, 1, 2}
  Retriers = {r1}
  Malformed = {}
  CountCap = 2
  RefusalCap = 0
SYMMETRY Sym
SPECIFICATION Spec
INVARIANTS TypeOK NoMessageLost OneFateUnlessDisturbed ChannelPreserved RetryBudget
PROPERTY KeepsPromise
