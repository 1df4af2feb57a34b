CONSTANTS
  c1 = c1
  c2 = c2
  k1 = k1
  k2 = k2
  Servers = {s1, s2}
  Calls = {c1, c2}
  Keys = {k1, k2}
  KeyOf <- MCKeyOf
  Capacity = 1
  MaxRetries = 1
  Anchored = {k1}
  NoRef = NoRef
SPECIFICATION FairSpec
INVARIANTS TypeOK OnceWhileRemembered AnswersAreReal RaisesTheCause
PROPERTY EveryCallEnds
