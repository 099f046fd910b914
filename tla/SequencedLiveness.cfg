SPECIFICATION FairSpec
CONSTANTS
  c1 = c1
  c2 = c2
  g1 = g1
  g2 = g2
  s1 = s1
  s2 = s2
  Client = {c1, c2}
  Gc = {g1}
  Store = {s1, s2}
  StoreOf <- EmbeddedGc
  Runs <- WriterAndReader
  Mortal = {s2}
  MaxProbes = 1
  MaxId = 3
  MaxEpoch = 2
  Absent = Absent
PROPERTY OperationsEnd
