--------------------------- MODULE MCWebRequests ---------------------------
(***************************************************************************)
(* What the embedded server does with a request, for TLC: the files and    *)
(* handlers of two workers (EXTENDS MCWebFiles), the bytes of a worker's   *)
(* connections, the processes of CGI scripts, and the password files.  One *)
(* of these parts is looked at in a behaviour; the variables of the others *)
(* keep their initial values.                                              *)
(***************************************************************************)
EXTENDS MCWebFiles

CONSTANTS
  Clients, MAX_REQUEST_SIZE, INT64_MAX, ReadSizes, MaxReads, KeepAlive,   \* WebConnection
  Requests, CAP, CGI_ENVIRONMENT_SIZE, ESTIMATE, MAX_CGI_ENVIR_VARS,   \* WebCgi
  Users, Domains, Passwords, BadNames, Files, Included, DOMAIN_,  \* WebPasswords
  MaxNonces, MaxCalls

VARIABLES
  part,
  h_todo, h_client, h_pc, h_conn, h_got, h_reads, h_refused, h_parsed, h_answers, h_cause,
  g_job, g_server, g_cloexec, g_child, g_filled,
  w_pc, w_args, w_disk, w_fp, w_fp2, w_returned, w_old, w_lost, w_calls, w_nonce_count

hVars == <<h_todo, h_client, h_pc, h_conn, h_got, h_reads, h_refused, h_parsed, h_answers,
           h_cause>>
gVars == <<g_job, g_server, g_cloexec, g_child, g_filled>>
wVars == <<w_pc, w_args, w_disk, w_fp, w_fp2, w_returned, w_old, w_lost, w_calls,
           w_nonce_count>>
mcVars == <<part, vars, hVars, gVars, wVars>>

-----------------------------------------------------------------------------
(* Two connections to one worker, of up to two requests.                   *)

Message(length, body, post) ==
  [length |-> length, body |-> body, post |-> post, head |-> 1, chunk |-> 2, uri |-> "local"]

Get == Message("none", 0, FALSE)
Post == Message("given", 2, TRUE)
PostNoLength == Message("none", 2, TRUE)
Chunked == Message("chunked", 2, TRUE)
Chunks == [Chunked EXCEPT !.chunk = 1]
TooLarge == [Get EXCEPT !.head = MAX_REQUEST_SIZE + 1]
Uri(u) == [Get EXCEPT !.uri = u]

One(q) == [reqs |-> <<q>>, pipelined |-> FALSE]
Two(q1, q2, p) == [reqs |-> <<q1, q2>>, pipelined |-> p]

Usual == {Get, Post, Chunked, Chunks}
TwoRequests ==
  {<<Two(q1, q2, p)>> :
     q1 \in Usual \cup {PostNoLength, TooLarge, Uri("elsewhere"), Uri("invalid"), Uri("malformed")},
     q2 \in Usual, p \in BOOLEAN}
TwoConnections ==
  {<<One(q1), One(q2)>> : q1 \in {Post, PostNoLength}, q2 \in {Post, Chunked}}

SomeClients == TwoRequests \cup TwoConnections

HTTP == INSTANCE WebConnection
          WITH todo <- h_todo, client <- h_client, pc <- h_pc, conn <- h_conn, got <- h_got,
               reads <- h_reads, refused <- h_refused, parsed <- h_parsed,
               answers <- h_answers, cause <- h_cause

-----------------------------------------------------------------------------
(* Scripts that read, write and complain, with variables short and long.   *)

Script(body, script, env) == [body |-> body, script |-> script, env |-> env]

Scripts ==
  {Script(0, <<"out">>, <<2>>),
   Script(1, <<"read", "out", "out", "out">>, <<2, 3>>),
   Script(2, <<"out", "out", "read">>, <<7, 1>>),
   Script(0, <<"read", "err", "err">>, <<1, 1, 1>>)}

CGI == INSTANCE WebCgi
         WITH job <- g_job, server <- g_server, cloexec <- g_cloexec,
              child <- g_child, filled <- g_filled

ASSUME ScriptsAssumption == CGI!CgiAssumption

-----------------------------------------------------------------------------
(* Password files with records of two domains, comments and an include.    *)

Record(user, domain, pass) ==
  [kind |-> "record", user |-> user, domain |-> domain, pass |-> pass]
Line(kind, user) == [kind |-> kind, user |-> user, domain |-> "", pass |-> ""]
None == "none"
NoFile == <<[kind |-> "absent", user |-> None, domain |-> None, pass |-> None]>>

SomeFiles ==
  {NoFile, <<>>,
   <<Record("u1", "d1", "p"), Record("u2", "d1", "p")>>,
   <<Line("include", ""), Record("u1", "d2", "q"), Record("u1", "d1", "q"),
     Record("u1", "d1", "p")>>,
   <<Line("junk", "u1"), Record("u2", "d2", "p"), Line("include", "")>>,
   <<Record("u2", "d1", "p"), Line("cut", "")>>}

OneRecord == <<Record("u2", "d1", "q")>>

PW == INSTANCE WebPasswords
        WITH pc <- w_pc, args <- w_args, disk <- w_disk,
             fp <- w_fp, fp2 <- w_fp2, returned <- w_returned, old <- w_old, lost <- w_lost,
             calls <- w_calls, nonce_count <- w_nonce_count

ASSUME PasswordsAssumption == PW!FileAssumption

-----------------------------------------------------------------------------
\* What the parts that are not looked at choose at their beginning is not chosen.
MCInit ==
  /\ part \in {"files", "connection", "cgi", "passwords"}
  /\ Init /\ HTTP!Init /\ CGI!Init /\ PW!Init
  /\ part # "files" => clients.left = 1 /\ config = NoRoot
  /\ part # "connection" => h_todo = <<Two(Get, Get, FALSE)>>
  /\ part # "passwords" => w_disk.file = <<>>

In(name, step) == part = name /\ step /\ UNCHANGED part

MCNext ==
  \/ In("files", Next /\ UNCHANGED <<hVars, gVars, wVars>>)
  \/ In("connection", HTTP!Next /\ UNCHANGED <<vars, gVars, wVars>>)
  \/ In("cgi", CGI!Next /\ UNCHANGED <<vars, hVars, wVars>>)
  \/ In("passwords", PW!Next /\ UNCHANGED <<vars, hVars, gVars>>)

MCSpec == MCInit /\ [][MCNext]_mcVars

-----------------------------------------------------------------------------
\* A client is never told an untruth of a file: see BodyAsAnnounced and
\* NotModifiedIsTrue of WebFiles.
AnswersAreTrue == part = "files" => BodyAsAnnounced /\ NotModifiedIsTrue

\* Server and client agree on where each request begins, a handler gets the body of its own
\* request, and no well-formed body is refused: see WebConnection.
RequestsInStep ==
  part = "connection" => HTTP!InStep /\ HTTP!BodyAsSent /\ HTTP!ChunksAccepted

\* Server and script wait for each other only when the script overfills a pipe or two forks
\* overlapped: see WebCgi.
StuckOnlyForAReason == part = "cgi" => CGI!StuckOnlyForAReason

\* A request leaves no process and no pipe behind, and its environment stays within its
\* buffer, but for a last '\0' that may lie right behind it: see NothingLeftBehind and EnvironmentInBounds of WebCgi.
ScriptsCleanedUp == part = "cgi" => CGI!NothingLeftBehind /\ CGI!EnvironmentInBounds

\* A change of a password, cut short anywhere, loses no other, unless the disk was full or
\* the file did not end in a newline; even then no password is wrong: see WebPasswords.
PasswordsSurvive == part = "passwords" => PW!PasswordsSurvive

\* A user is let in with the password of the first record, and with no other: see
\* WebPasswords.
VerdictByRecord == part = "passwords" => PW!VerdictByRecord
=============================================================================
