\* Two workers at most, a queue of two and three connections: the queue fills, its
\* pointers wrap, and the master waits for room.
CONSTANTS
  MaxConns = 3
  MaxWorkers = 2
  QUEUE_SIZE = 2
SPECIFICATION FairSpec
INVARIANTS FirstInFirstOut FreedAfterUse SocketsAccountedFor
PROPERTIES EachConnectionServed StopReturns
CHECK_DEADLOCK FALSE
