\* A form buffer of seven characters; websocket payloads below and above the two lengths that
\* change the frame; two contexts with TLS and a certificate that is replaced twice; addresses
\* of three bits; writes of up to four bytes, with and without throttle, in four seconds.
CONSTANTS
  Parts = {"form", "websocket", "ssl", "client", "text", "write"}
  SIZE = 7
  Requests <- Upgrades
  Writers = {"worker", "push", "c1", "c2"}
  EndOf <- EndOfWriter
  Loads <- SomeLoads
  Keys <- SomeKeys
  LEN16 = 2
  MEM = 3
  ROOM = 16
  ReadSizes = {1, 4}
  MaxShort = 1
  Contexts = {"a", "b"}
  SslWorkers = {"w1"}
  Rotations = 2
  Handshakes = 3
  Bad = {3}
  ClientThreads = {"t1", "t2", "t3"}
  BITS = 3
  MAX_HEADERS = 2
  PORT_LIMIT = 85
  Lengths = {1, 4}
  Throttles = {0, 1, 2}
  MaxCalls = 2
  MaxNow = 4
SPECIFICATION MCSpec
INVARIANTS FieldsArrive MessagesAsSent TlsIsSound NullKeepsNothing TextIsRight WritesAreWhole
PROPERTIES FormEnds CloseReturns
CHECK_DEADLOCK FALSE
