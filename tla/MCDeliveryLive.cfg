CONSTANTS
  m1 = m1
  m2 = m2
  s1 = s1
  s2 = s2
  email = email
  sms = sms
  Msgs = {m1, m2}
  Channels = {email, sms}
  Email = email
  DLQ = dlq
  NoChannel = none
  MaxRows = 4
  Senders = {s1}
  WorkerChannel <- MCWorkerChannel
  MsgChannel <- MCMsgChannel
  SenderMax = 1
  RetryMax = 2
  InitialRetries = {0, 1}
  Retriers = {r1}
  Malformed = {m2}
  CountCap = 2
  RefusalCap = 0
SPECIFICATION FairSpec
PROPERTY EventuallySettled
