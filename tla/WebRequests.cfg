\* Two workers, two requests of each kind the server knows, six configurations; one
\* worker's connections, arrivals cut anywhere; two scripts; two changes of passwords.
CONSTANTS
  w1 = w1
  w2 = w2
  Workers = {w1, w2}
  Worlds <- Many
  MaxInodes = 11
  MaxNow = 2
  SSI_LEVELS = 2
  Clients <- SomeClients
  Requests <- Scripts
  Files <- SomeFiles
  Included <- OneRecord
  MAX_REQUEST_SIZE = 7
  INT64_MAX = 30
  ReadSizes = {1, 3}
  MaxReads = 3
  KeepAlive = TRUE
  CAP = 1
  CGI_ENVIRONMENT_SIZE = 5
  ESTIMATE = 2
  MAX_CGI_ENVIR_VARS = 3
  Users = {"u1", "u2"}
  Domains = {"d1", "d2"}
  Passwords = {"p", "q"}
  BadNames = {"bad"}
  DOMAIN_ = "d1"
  MaxNonces = 1
  MaxCalls = 2
SPECIFICATION MCSpec
SYMMETRY Symmetry
INVARIANTS RefusedChangesNothing SuccessMeansDone AnswersAreTrue RequestsInStep StuckOnlyForAReason ScriptsCleanedUp PasswordsSurvive VerdictByRecord
CHECK_DEADLOCK FALSE
