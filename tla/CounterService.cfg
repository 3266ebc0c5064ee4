\* One thread, as run.sh starts the service; two clients; tables of 11 and 23 cells.
CONSTANTS
  c1 = c1
  c2 = c2
  w1 = w1
  Clients = {c1, c2}
  Workers = {w1}
  Sent = {"/get_and_increment_counter", "/get_counter", "/reset_counter", "/"}
  QueueLen = 2
  NoClient = NoClient
  MaxCount = 4
  Registrations <- FunctionMaps
  OtherUris = {"/"}
  MinCapacities = {9, 21}
  Hashes <- HashFunctions
  NULL = NULL
  OutOfBounds = OutOfBounds
SPECIFICATION FairSpec
INVARIANTS ServiceIsSound
PROPERTIES ImplementsMap ImplementsCounter EveryRequestAnswered
