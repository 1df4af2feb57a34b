CONSTANTS
  m1 = m1
  m2 = m2
  s1 = s1
  s2 = s2
  email = email
  sms = sms
  Msgs = {m1}
  Channels = {email, sms}
  Email = email
  DLQ = dlq
  NoChannel = none
  MaxRows = 3
  Senders = {s1}
  WorkerChannel <- MCWorkerChannel
  MsgChannel <- MCMsgChannel
  SenderMax = 2
  RetryMax = 2
  InitialRetries = {0}
  Retriers = {r1}
  Malformed = {}
  CountCap = 2
  RefusalCap = 4
SPECIFICATION Spec
INVARIANT RefusalsBounded
