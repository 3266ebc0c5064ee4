-------------------------- MODULE CounterService --------------------------
(***************************************************************************)
(* Assignment-3/task4/counter-service: main fills the function map and     *)
(* starts the embedded web server, whose worker threads call               *)
(* handle_request.  It finds the function of the URI in the map and calls  *)
(* it; the functions read and write the static counter without a lock.     *)
(* The accepted connections wait in the server's bounded queue.  The       *)
(* program does not return from pause() by itself, so that it is only  *)
(* ever ended from outside, with everything it holds.                      *)
(***************************************************************************)
EXTENDS FunctionsMap

CONSTANTS
  Clients,    \* who sends requests, one at a time each
  Workers,    \* the threads, num-threads on the command line
  Sent,       \* the URIs the clients send
  QueueLen,   \* length of the queue of accepted connections
  NoClient,   \* a worker without a connection
  MaxCount    \* bound: no increment is sent that could count beyond this

\* The functions of functions.c.
Functions == {"get_and_increment_counter", "get_counter", "reset_counter"}

ASSUME ServiceAssumption ==
  /\ Functs \subseteq Functions /\ NULL \notin Functions
  /\ Sent \subseteq Uris /\ "none" \notin Uris
  /\ IsFiniteSet(Clients)
  /\ NoClient \notin Clients
  /\ QueueLen \in Nat \ {0}
  /\ MaxCount \in Nat \ {0}

\* The server's own answer, where handle_request returns 0; and no answer.
NotFound == -1
NoReply == -2

VARIABLES
  counter,   \* static int counter
  queue,     \* the accepted connections
  request,   \* request[c]: the URI client c waits on, or "none"
  reply,     \* reply[c]: the answer c has got and not read yet
  wpc,       \* where each worker is
  conn,      \* the connection a worker serves
  body,      \* its response_body
  method_func,   \* the function it calls
  reg        \* what it loaded of the counter for counter++

serviceVars ==
  <<counter, queue, request, reply, wpc, conn, body, method_func, reg>>
vars == <<mapVars, serviceVars>>

WorkerStates == {"wait", "lookup", "print", "load", "store", "reset", "reply"}

Init ==
  /\ MapInit
  /\ counter = 1
  /\ queue = <<>>
  /\ request = [c \in Clients |-> "none"]
  /\ reply = [c \in Clients |-> NoReply]
  /\ wpc = [w \in Workers |-> "wait"]
  /\ conn = [w \in Workers |-> NoClient]
  /\ body = [w \in Workers |-> 0]
  /\ method_func = [w \in Workers |-> NULL]
  /\ reg = [w \in Workers |-> 0]

Waiting == {c \in Clients : request[c] # "none"}

\* A client connects and sends; the server, once it runs, accepts it while its
\* queue has room.
Send(c) ==
  /\ todo = <<>>
  /\ request[c] = "none"
  /\ reply[c] = NoReply
  /\ Len(queue) < QueueLen
  /\ \E u \in Sent :
       /\ get_method_function(u) = "get_and_increment_counter"
            => \A n \in {counter} \cup {reg[w] : w \in Workers} :
                 n + Cardinality(Waiting) < MaxCount
       /\ request' = [request EXCEPT ![c] = u]
  /\ queue' = Append(queue, c)
  /\ UNCHANGED <<counter, reply, wpc, conn, body, method_func, reg>>

\* The client reads the answer.
Receive(c) ==
  /\ reply[c] # NoReply
  /\ reply' = [reply EXCEPT ![c] = NoReply]
  /\ UNCHANGED <<counter, queue, request, wpc, conn, body, method_func, reg>>

Step(w, from, to) == wpc[w] = from /\ wpc' = [wpc EXCEPT ![w] = to]

\* A worker takes the oldest connection.
Consume(w) ==
  /\ Step(w, "wait", "lookup")
  /\ queue # <<>>
  /\ conn' = [conn EXCEPT ![w] = Head(queue)]
  /\ queue' = Tail(queue)
  /\ UNCHANGED <<counter, request, reply, body, method_func, reg>>

Uri(w) == request[conn[w]]

\* Any function, or none, is called after a lookup beyond the table.
Found(u) ==
  IF get_method_function(u) = OutOfBounds THEN Functs \cup {NULL}
  ELSE {get_method_function(u)}

\* Where the function starts; without one the server answers by itself.
StartOf(f) == CASE f = "reset_counter" -> "reset"
                [] f = NULL -> "reply"
                [] OTHER -> "print"

\* Slip: a URI without a function is taken for handled, and nothing is sent.
Lookup_NoAnswer(w) ==
  /\ wpc[w] = "lookup"
  /\ \E f \in Found(Uri(w)) :
       IF f = NULL
       THEN /\ wpc' = [wpc EXCEPT ![w] = "wait"]
            /\ conn' = [conn EXCEPT ![w] = NoClient]
            /\ UNCHANGED method_func
       ELSE /\ wpc' = [wpc EXCEPT ![w] = StartOf(f)]
            /\ method_func' = [method_func EXCEPT ![w] = f]
            /\ UNCHANGED conn
  /\ UNCHANGED <<counter, queue, request, reply, body, reg>>

\* get_method_function, and the branch on NULL.
Lookup(w) ==
  /\ wpc[w] = "lookup"
  /\ \E f \in Found(Uri(w)) :
       /\ wpc' = [wpc EXCEPT ![w] = StartOf(f)]
       /\ method_func' = [method_func EXCEPT ![w] = f]
       /\ body' = [body EXCEPT ![w] = IF f = NULL THEN NotFound ELSE @]
  /\ UNCHANGED <<counter, queue, request, reply, conn, reg>>

Increments(w) == method_func[w] = "get_and_increment_counter"

\* Slip: the text is made after the increment.
PrintCounter_After(w) ==
  /\ Step(w, "print", IF Increments(w) THEN "load" ELSE "reply")
  /\ body' = [body EXCEPT ![w] = IF Increments(w) THEN counter + 1 ELSE counter]
  /\ UNCHANGED <<counter, queue, request, reply, conn, method_func, reg>>

\* snprintf(..., counter).
PrintCounter(w) ==
  /\ Step(w, "print", IF Increments(w) THEN "load" ELSE "reply")
  /\ body' = [body EXCEPT ![w] = counter]
  /\ UNCHANGED <<counter, queue, request, reply, conn, method_func, reg>>

\* counter++, which without a lock is a load and a store.
Load(w) ==
  /\ Step(w, "load", "store")
  /\ reg' = [reg EXCEPT ![w] = counter]
  /\ UNCHANGED <<counter, queue, request, reply, conn, body, method_func>>

Store(w) ==
  /\ Step(w, "store", "reply")
  /\ counter' = reg[w] + 1
  /\ UNCHANGED <<queue, request, reply, conn, body, method_func, reg>>

\* counter = 1; the text sent is read from the counter again afterwards.
Reset(w) ==
  /\ Step(w, "reset", "print")
  /\ counter' = 1
  /\ UNCHANGED <<queue, request, reply, conn, body, method_func, reg>>

\* mg_printf, and the end of the connection and of the handler's locals.
Reply(w) ==
  /\ Step(w, "reply", "wait")
  /\ reply' = [reply EXCEPT ![conn[w]] = body[w]]
  /\ request' = [request EXCEPT ![conn[w]] = "none"]
  /\ conn' = [conn EXCEPT ![w] = NoClient]
  /\ body' = [body EXCEPT ![w] = 0]
  /\ method_func' = [method_func EXCEPT ![w] = NULL]
  /\ reg' = [reg EXCEPT ![w] = 0]
  /\ UNCHANGED <<counter, queue>>

WorkerStep(w) ==
  \/ Consume(w) \/ Lookup(w) \/ PrintCounter(w) \/ Load(w) \/ Store(w)
  \/ Reset(w) \/ Reply(w)

Serve ==
  \/ \E c \in Clients : Send(c) \/ Receive(c)
  \/ \E w \in Workers : WorkerStep(w)

Next ==
  \/ Insert /\ UNCHANGED serviceVars
  \/ Serve /\ UNCHANGED mapVars

Spec == Init /\ [][Next]_vars

\* The threads are scheduled, and clients read what they are sent.
FairSpec ==
  /\ Spec
  /\ \A w \in Workers : WF_vars(WorkerStep(w) /\ UNCHANGED mapVars)
  /\ \A c \in Clients : WF_vars(Receive(c) /\ UNCHANGED mapVars)
-----------------------------------------------------------------------------
(***************************************************************************)
(* Properties.                                                             *)
(***************************************************************************)

\* Types; a worker has a connection exactly while it is serving one.
TypeOK ==
  /\ counter \in 1 .. MaxCount
  /\ queue \in Seq(Clients) /\ Len(queue) <= QueueLen
  /\ request \in [Clients -> Uris \cup {"none"}]
  /\ reply \in [Clients -> (1 .. MaxCount) \cup {NotFound, NoReply}]
  /\ wpc \in [Workers -> WorkerStates]
  /\ conn \in [Workers -> Clients \cup {NoClient}]
  /\ \A w \in Workers : conn[w] = NoClient <=> wpc[w] = "wait"
  /\ body \in [Workers -> (0 .. MaxCount) \cup {NotFound}]
  /\ method_func \in [Workers -> Functs \cup {NULL}]
  /\ reg \in [Workers -> 0 .. MaxCount]

\* The state of the service and of its map.
ServiceIsSound == TypeOK /\ MapIsSound

\* The worker of c is past the step at which its request took effect.
Effective(w) ==
  \/ wpc[w] = "reply"
  \/ wpc[w] = "print" /\ method_func[w] = "reset_counter"

Result(w) == IF wpc[w] = "reply" THEN body[w] ELSE 1

\* The operation of a URI: that of the function the map has for it.
Op(uri) == CASE get_method_function(uri) = "get_and_increment_counter" -> "increment"
             [] get_method_function(uri) = "get_counter" -> "get"
             [] get_method_function(uri) = "reset_counter" -> "reset"
             [] OTHER -> "other"

CallOf(c) ==
  IF reply[c] # NoReply THEN [state |-> "done", res |-> reply[c]]
  ELSE IF request[c] = "none" THEN [state |-> "idle"]
  ELSE IF \E w \in Workers : conn[w] = c /\ Effective(w)
  THEN [state |-> "done",
        res |-> Result(CHOOSE w \in Workers : conn[w] = c /\ Effective(w))]
  ELSE [state |-> "called", op |-> Op(request[c])]

Object == INSTANCE CounterObject
            WITH value <- counter, call <- [c \in Clients |-> CallOf(c)]

\* With the one thread run.sh starts it with, the service is an atomic counter.
ImplementsCounter == Object!ObjSpec

\* Every client that sends a request gets an answer.
EveryRequestAnswered ==
  \A c \in Clients : request[c] # "none" ~> reply[c] # NoReply
=============================================================================
