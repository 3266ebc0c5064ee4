CONSTANTS
  Parts = {"form"}
  SIZE = 7
  Requests <- Upgrades
  Writers = {"worker", "push", "c1", "c2"}
  EndOf <- EndOfWriter
  Loads <- SomeLoads
  Keys <- SomeKeys
  LEN16 = 2
  MEM = 3
  ROOM = 16
  ReadSizes = {1, 4}
  MaxShort = 0
  Contexts = {"a", "b"}
  SslWorkers = {"w1"}
  Rotations = 2
  Handshakes = 3
  Bad = {3}
  ClientThreads = {"t1", "t2", "t3"}
  BITS = 3
  MAX_HEADERS = 2
  PORT_LIMIT = 85
  Lengths = {1, 4}
  Throttles = {0, 1, 2}
  MaxCalls = 2
  MaxNow = 4
SPECIFICATION MCSpec
INVARIANT NoPartialContent
CHECK_DEADLOCK FALSE
