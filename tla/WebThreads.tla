----------------------------- MODULE WebThreads -----------------------------
(***************************************************************************)
(* The threads of the embedded web server, civetweb.c: the application's   *)
(* thread in mg_start and mg_stop, the master that accepts, the workers    *)
(* that serve, and the bounded queue of sockets between them with its      *)
(* mutex and three condition variables.  A lock is taken in one step and   *)
(* a wait begins in another, so that what is done without the lock, the    *)
(* setting of stop_flag and the last broadcast, may fall between them.     *)
(***************************************************************************)
EXTENDS Integers, Sequences, FiniteSets

CONSTANTS
  MaxWorkers,   \* bound: num_threads is at most this
  MaxConns,     \* bound: the connections that clients open
  QUEUE_SIZE    \* ARRAY_SIZE(ctx->queue)

ASSUME ThreadsAssumption ==
  /\ MaxWorkers \in Nat /\ MaxConns \in Nat
  /\ QUEUE_SIZE \in Nat \ {0}

App == -2
Master == -1
Nobody == 0
Workers == 1..MaxWorkers
Threads == {App, Master} \cup Workers
\* Connections are numbered in the order in which they come.
Conns == 1..MaxConns
NoSock == 0     \* INVALID_SOCKET, or an unused cell

CondVars == {"sq_full", "sq_empty", "thread_cond"}

VARIABLES
  pc,             \* where each thread is
  thread_mutex,   \* who holds ctx->thread_mutex
  waiting,        \* the threads that sleep on each condition variable
  stop_flag,      \* 0, 1 when told to stop, 2 when the master is done
  cfg_worker_threads, running_worker_threads,
  queue, sq_head, sq_tail,
  sock,           \* the socket in the hands of a thread: so, conn->client
  state,          \* each connection's end in the server
  listening,      \* the listening sockets are open
  pfd,            \* the master's poll array could be allocated
  undefined,      \* the process has done what has no defined behaviour
  accepted,       \* history: the sockets given to produce_socket, in order
  taken,          \* history: the sockets given out by consume_socket, in order
  lost            \* history: the broadcast met a worker about to wait

sync == <<thread_mutex, waiting>>
ring == <<queue, sq_head, sq_tail>>
hist == <<accepted, taken, lost>>
conf == <<cfg_worker_threads, listening, pfd>>
vars == <<pc, sync, stop_flag, conf, running_worker_threads, ring, sock, state,
          undefined, hist>>

Goto(t, from, to) == pc[t] = from /\ pc' = [pc EXCEPT ![t] = to]

Lock(t) == thread_mutex = Nobody /\ thread_mutex' = t
Unlock(t) == thread_mutex = t /\ thread_mutex' = Nobody

\* pthread_cond_signal wakes a sleeper, if there is one.
Signal(cv) ==
  IF waiting[cv] = {} THEN UNCHANGED waiting
  ELSE \E t \in waiting[cv] : waiting' = [waiting EXCEPT ![cv] = @ \ {t}]

\* pthread_cond_wait: the mutex goes and the thread sleeps, in one step.
CondWait(t, cv) ==
  Unlock(t) /\ waiting' = [waiting EXCEPT ![cv] = @ \cup {t}]

Asleep(t) == \E cv \in CondVars : t \in waiting[cv]

-----------------------------------------------------------------------------
(* mg_start, mg_stop                                                       *)

Init ==
  /\ pc = [t \in Threads |-> IF t = App THEN "init" ELSE "none"]
  /\ thread_mutex = Nobody
  /\ waiting = [cv \in CondVars |-> {}]
  /\ stop_flag = 0
  /\ cfg_worker_threads = 0 /\ running_worker_threads = 0
  /\ queue = [i \in 0..QUEUE_SIZE - 1 |-> NoSock]
  /\ sq_head = 0 /\ sq_tail = 0
  /\ sock = [t \in Threads |-> NoSock]
  /\ state = [c \in Conns |-> "none"]
  /\ listening = FALSE /\ pfd = TRUE
  /\ undefined = FALSE
  /\ accepted = <<>> /\ taken = <<>> /\ lost = FALSE

\* NULL for want of memory or for a bad option, before or after the ports are
\* open: free_context does not close those.
StartFails ==
  /\ Goto(App, "init", "null")
  /\ \E opened \in BOOLEAN : listening' = opened
  /\ UNCHANGED <<sync, stop_flag, cfg_worker_threads, pfd, running_worker_threads,
                 ring, sock, state, undefined, hist>>

\* Options are good and the ports open; the master is started, or silently not, and
\* has its array to poll with, or not.
StartMaster ==
  /\ pc[App] = "init"
  /\ \E ok \in BOOLEAN :
       pc' = [pc EXCEPT ![App] = "spawn", ![Master] = IF ok THEN "poll" ELSE "none"]
  /\ listening' = TRUE
  /\ \E allocated \in BOOLEAN : pfd' = allocated
  /\ cfg_worker_threads' \in 0..MaxWorkers
  /\ UNCHANGED <<sync, stop_flag, running_worker_threads, ring, sock, state,
                 undefined, hist>>

\* Workers are started one after the other up to the first that cannot be; when
\* that is the very first, the context is freed, whether a master uses it or not.
StartWorker(w) ==
  /\ pc[App] = "spawn"
  /\ thread_mutex = Nobody
  /\ w = Cardinality({v \in Workers : pc[v] # "none"}) + 1
  /\ w <= cfg_worker_threads
  /\ \/ /\ pc' = [pc EXCEPT ![w] = "start"]
        /\ running_worker_threads' = running_worker_threads + 1
        /\ UNCHANGED undefined
     \/ /\ pc' = [pc EXCEPT ![App] = IF w = 1 THEN "null" ELSE "running"]
        /\ undefined' = (w = 1 /\ pc[Master] \notin {"none", "gone"})
        /\ UNCHANGED running_worker_threads
  /\ UNCHANGED <<sync, stop_flag, conf, ring, sock, state, hist>>

StartEnds ==
  /\ Goto(App, "spawn", "running")
  /\ cfg_worker_threads = Cardinality({v \in Workers : pc[v] # "none"})
  /\ UNCHANGED <<sync, stop_flag, conf, running_worker_threads, ring, sock, state,
                 undefined, hist>>

\* Without the lock; and it does nothing when there is no master.
Stop ==
  /\ pc[App] = "running"
  /\ IF pc[Master] = "none"
     THEN pc' = [pc EXCEPT ![App] = "unstopped"] /\ UNCHANGED stop_flag
     ELSE pc' = [pc EXCEPT ![App] = "stopping"] /\ stop_flag' = 1
  /\ UNCHANGED <<sync, conf, running_worker_threads, ring, sock, state, undefined, hist>>

\* Slip: mg_stop frees the context and waits for nobody.
StopEnds_NoWait ==
  /\ Goto(App, "stopping", "stopped")
  /\ UNCHANGED <<sync, stop_flag, conf, running_worker_threads, ring, sock, state,
                 undefined, hist>>

\* The master is joined and the context freed.
StopEnds ==
  /\ stop_flag = 2
  /\ Goto(App, "stopping", "stopped")
  /\ UNCHANGED <<sync, stop_flag, conf, running_worker_threads, ring, sock, state,
                 undefined, hist>>

-----------------------------------------------------------------------------
(* master_thread_run, accept_new_connection, produce_socket                *)

\* A socket that check_acl refuses is closed at once.
Accept ==
  /\ pc[Master] = "poll"
  /\ pfd /\ stop_flag = 0
  /\ \E c \in Conns :
       /\ state[c] = "backlog" /\ \A d \in 1..c - 1 : state[d] # "backlog"
       /\ \/ /\ state' = [state EXCEPT ![c] = "closed"]
             /\ UNCHANGED <<pc, sock, accepted>>
          \/ /\ Goto(Master, "poll", "produce")
             /\ state' = [state EXCEPT ![c] = "open"]
             /\ sock' = [sock EXCEPT ![Master] = c]
             /\ accepted' = Append(accepted, c)
  /\ UNCHANGED <<sync, stop_flag, conf, running_worker_threads, ring, undefined,
                 taken, lost>>

ProduceLock ==
  /\ Goto(Master, "produce", "produce_test")
  /\ Lock(Master)
  /\ UNCHANGED <<waiting, stop_flag, conf, running_worker_threads, ring, sock, state,
                 undefined, hist>>

QueueFull == sq_head - sq_tail >= QUEUE_SIZE

ProduceFull ==
  /\ stop_flag = 0 /\ QueueFull
  /\ Goto(Master, "produce_test", "produce_wait")
  /\ UNCHANGED <<sync, stop_flag, conf, running_worker_threads, ring, sock, state,
                 undefined, hist>>

ProduceWait ==
  /\ Goto(Master, "produce_wait", "produce_asleep")
  /\ CondWait(Master, "sq_empty")
  /\ UNCHANGED <<stop_flag, conf, running_worker_threads, ring, sock, state,
                 undefined, hist>>

\* Woken by stop_flag with the queue still full, it drops the socket.
ProducePut ==
  /\ ~(stop_flag = 0 /\ QueueFull)
  /\ Goto(Master, "produce_test", "poll")
  /\ IF QueueFull THEN UNCHANGED <<queue, sq_head>>
     ELSE /\ queue' = [queue EXCEPT ![sq_head % QUEUE_SIZE] = sock[Master]]
          /\ sq_head' = sq_head + 1
  /\ sock' = [sock EXCEPT ![Master] = NoSock]
  /\ Signal("sq_full")
  /\ Unlock(Master)
  /\ UNCHANGED <<sq_tail, stop_flag, conf, running_worker_threads, state, undefined, hist>>

\* The loop is left when the server is told to stop, or at once without an array to
\* poll with.  close_all_listening_sockets: what was not accepted is refused.
CloseListening ==
  /\ ~pfd \/ stop_flag # 0
  /\ Goto(Master, "poll", "broadcast")
  /\ listening' = FALSE
  /\ state' = [c \in Conns |-> IF state[c] = "backlog" THEN "refused" ELSE state[c]]
  /\ UNCHANGED <<sync, stop_flag, cfg_worker_threads, pfd, running_worker_threads, ring,
                 sock, undefined, hist>>

\* pthread_cond_broadcast(&ctx->sq_full), and no lock is held.
Broadcast ==
  /\ Goto(Master, "broadcast", "join")
  /\ waiting' = [waiting EXCEPT !["sq_full"] = {}]
  /\ lost' = (\E w \in Workers : pc[w] = "consume_wait")
  /\ UNCHANGED <<thread_mutex, stop_flag, conf, running_worker_threads, ring, sock,
                 state, undefined, accepted, taken>>

\* The workers are counted under the lock, under which they count themselves out.
AwaitWorkers ==
  /\ \/ Goto(Master, "join", "join_asleep")
     \/ Goto(Master, "join_asleep", "join_asleep") /\ ~Asleep(Master)
  /\ thread_mutex = Nobody
  /\ running_worker_threads > 0
  /\ waiting' = [waiting EXCEPT !["thread_cond"] = @ \cup {Master}]
  /\ UNCHANGED <<thread_mutex, stop_flag, conf, running_worker_threads, ring, sock,
                 state, undefined, hist>>

\* The last of them has counted itself out, or none has counted itself in.
WorkersCounted ==
  /\ \/ Goto(Master, "join", "joining")
     \/ Goto(Master, "join_asleep", "joining") /\ ~Asleep(Master)
  /\ thread_mutex = Nobody
  /\ running_worker_threads = 0
  /\ UNCHANGED <<sync, stop_flag, conf, running_worker_threads, ring, sock, state,
                 undefined, hist>>

\* Those that have been started by now are joined.
JoinWorkers ==
  /\ Goto(Master, "joining", "joined")
  /\ \A w \in Workers : pc[w] \in {"none", "gone"}
  /\ UNCHANGED <<sync, stop_flag, conf, running_worker_threads, ring, sock, state,
                 undefined, hist>>

\* stop_flag = 2 is the last thing the master does.
MasterEnds ==
  /\ Goto(Master, "joined", "gone")
  /\ stop_flag' = 2
  /\ UNCHANGED <<sync, conf, running_worker_threads, ring, sock, state, undefined, hist>>

-----------------------------------------------------------------------------
(* worker_thread_run, consume_socket                                       *)

\* Without memory for its connection the worker goes straight to its end.
WorkerStarts(w) ==
  /\ \/ Goto(w, "start", "consume")
     \/ Goto(w, "start", "exit_oom")
  /\ UNCHANGED <<sync, stop_flag, conf, running_worker_threads, ring, sock, state,
                 undefined, hist>>

ConsumeLock(w) ==
  /\ Goto(w, "consume", "consume_test")
  /\ Lock(w)
  /\ UNCHANGED <<waiting, stop_flag, conf, running_worker_threads, ring, sock, state,
                 undefined, hist>>

ConsumeEmpty(w) ==
  /\ sq_head = sq_tail /\ stop_flag = 0
  /\ Goto(w, "consume_test", "consume_wait")
  /\ UNCHANGED <<sync, stop_flag, conf, running_worker_threads, ring, sock, state,
                 undefined, hist>>

ConsumeWait(w) ==
  /\ Goto(w, "consume_wait", "consume_asleep")
  /\ CondWait(w, "sq_full")
  /\ UNCHANGED <<stop_flag, conf, running_worker_threads, ring, sock, state,
                 undefined, hist>>

\* Both pointers move back when the tail has gone beyond the end of the array.
Wrap == IF sq_tail + 1 > QUEUE_SIZE THEN QUEUE_SIZE ELSE 0

\* Slip: only one of the two pointers wraps.
ConsumeTake_TailOnly(w) ==
  /\ ~(sq_head = sq_tail /\ stop_flag = 0)
  /\ Goto(w, "consume_test", "consume_return")
  /\ IF sq_head > sq_tail
     THEN /\ sock' = [sock EXCEPT ![w] = queue[sq_tail % QUEUE_SIZE]]
          /\ taken' = Append(taken, queue[sq_tail % QUEUE_SIZE])
          /\ sq_tail' = sq_tail + 1 - Wrap
          /\ sq_head' = sq_head
     ELSE UNCHANGED <<sock, taken, sq_tail, sq_head>>
  /\ Signal("sq_empty")
  /\ Unlock(w)
  /\ UNCHANGED <<queue, stop_flag, conf, running_worker_threads, state, undefined,
                 accepted, lost>>

\* Slip: the master is not told that there is room.
ConsumeTake_NoSignal(w) ==
  /\ ~(sq_head = sq_tail /\ stop_flag = 0)
  /\ Goto(w, "consume_test", "consume_return")
  /\ IF sq_head > sq_tail
     THEN /\ sock' = [sock EXCEPT ![w] = queue[sq_tail % QUEUE_SIZE]]
          /\ taken' = Append(taken, queue[sq_tail % QUEUE_SIZE])
          /\ sq_tail' = sq_tail + 1 - Wrap
          /\ sq_head' = sq_head - Wrap
     ELSE UNCHANGED <<sock, taken, sq_tail, sq_head>>
  /\ UNCHANGED waiting
  /\ Unlock(w)
  /\ UNCHANGED <<queue, stop_flag, conf, running_worker_threads, state, undefined,
                 accepted, lost>>

ConsumeTake(w) ==
  /\ ~(sq_head = sq_tail /\ stop_flag = 0)
  /\ Goto(w, "consume_test", "consume_return")
  /\ IF sq_head > sq_tail
     THEN /\ sock' = [sock EXCEPT ![w] = queue[sq_tail % QUEUE_SIZE]]
          /\ taken' = Append(taken, queue[sq_tail % QUEUE_SIZE])
          /\ sq_tail' = sq_tail + 1 - Wrap
          /\ sq_head' = sq_head - Wrap
     ELSE UNCHANGED <<sock, taken, sq_tail, sq_head>>
  /\ Signal("sq_empty")
  /\ Unlock(w)
  /\ UNCHANGED <<queue, stop_flag, conf, running_worker_threads, state, undefined,
                 accepted, lost>>

\* stop_flag is read once more: a socket just taken is then left as it is.
ConsumeReturn(w) ==
  /\ Goto(w, "consume_return", IF stop_flag = 0 THEN "serve" ELSE "exit")
  /\ UNCHANGED <<sync, stop_flag, conf, running_worker_threads, ring, sock, state,
                 undefined, hist>>

\* Slip: the connection is not closed when it has been served.
Serve_NotClosed(w) ==
  /\ Goto(w, "serve", "consume")
  /\ state' = state
  /\ sock' = [sock EXCEPT ![w] = NoSock]
  /\ UNCHANGED <<sync, stop_flag, conf, running_worker_threads, ring, undefined, hist>>

\* process_new_connection, or a failed SSL handshake; then close_connection.
Serve(w) ==
  /\ Goto(w, "serve", "consume")
  /\ state' = [state EXCEPT ![sock[w]] = "closed"]
  /\ sock' = [sock EXCEPT ![w] = NoSock]
  /\ UNCHANGED <<sync, stop_flag, conf, running_worker_threads, ring, undefined, hist>>

\* Slip: the master is not told that a worker has ended.
WorkerEnds_NoSignal(w) ==
  /\ \/ Goto(w, "exit", "gone") /\ UNCHANGED undefined
     \/ Goto(w, "exit_oom", "gone") /\ undefined' = TRUE
  /\ thread_mutex = Nobody
  /\ running_worker_threads' = running_worker_threads - 1
  /\ UNCHANGED waiting
  /\ UNCHANGED <<thread_mutex, stop_flag, conf, ring, sock, state, hist>>

\* It tells the master; without a connection it then destroys a mutex at NULL.
WorkerEnds(w) ==
  /\ \/ Goto(w, "exit", "gone") /\ UNCHANGED undefined
     \/ Goto(w, "exit_oom", "gone") /\ undefined' = TRUE
  /\ thread_mutex = Nobody
  /\ running_worker_threads' = running_worker_threads - 1
  /\ Signal("thread_cond")
  /\ UNCHANGED <<thread_mutex, stop_flag, conf, ring, sock, state, hist>>

\* A woken thread has the mutex again before it tests again.
Wake(t, asleep, test) ==
  /\ Goto(t, asleep, test)
  /\ ~Asleep(t)
  /\ Lock(t)
  /\ UNCHANGED <<waiting, stop_flag, conf, running_worker_threads, ring, sock, state,
                 undefined, hist>>

-----------------------------------------------------------------------------
\* A client's connection waits in the backlog of a listening socket.
Connect(c) ==
  /\ listening /\ state[c] = "none" /\ \A d \in 1..c - 1 : state[d] # "none"
  /\ state' = [state EXCEPT ![c] = "backlog"]
  /\ UNCHANGED <<pc, sync, stop_flag, conf, running_worker_threads, ring, sock,
                 undefined, hist>>

\* pthread_cond_wait may return without a signal.
SpuriousWakeup(t, cv) ==
  /\ t \in waiting[cv]
  /\ waiting' = [waiting EXCEPT ![cv] = @ \ {t}]
  /\ UNCHANGED <<pc, thread_mutex, stop_flag, conf, running_worker_threads, ring,
                 sock, state, undefined, hist>>

Worker(w) ==
  /\ ~undefined
  /\ \/ WorkerStarts(w) \/ ConsumeLock(w) \/ ConsumeEmpty(w) \/ ConsumeWait(w)
     \/ ConsumeTake(w) \/ ConsumeReturn(w) \/ Serve(w) \/ WorkerEnds(w)
     \/ Wake(w, "consume_asleep", "consume_test")

MasterNext ==
  /\ ~undefined
  /\ \/ Accept \/ ProduceLock \/ ProduceFull \/ ProduceWait \/ ProducePut
     \/ Wake(Master, "produce_asleep", "produce_test")
     \/ CloseListening \/ Broadcast
     \/ AwaitWorkers \/ WorkersCounted \/ JoinWorkers \/ MasterEnds

AppNext ==
  /\ ~undefined
  /\ \/ StartFails \/ StartMaster \/ StartEnds \/ StopEnds
     \/ \E w \in Workers : StartWorker(w)

Next ==
  \/ AppNext \/ MasterNext \/ \E w \in Workers : Worker(w)
  \/ ~undefined /\ Stop
  \/ ~undefined /\ \E c \in Conns : Connect(c)
  \/ ~undefined /\ \E t \in Threads, cv \in CondVars : SpuriousWakeup(t, cv)

Spec == Init /\ [][Next]_vars

\* Every thread runs, and none is kept from the mutex for ever by the others.
FairSpec ==
  /\ Spec
  /\ SF_vars(AppNext)
  /\ SF_vars(MasterNext)
  /\ \A w \in Workers : SF_vars(Worker(w))

-----------------------------------------------------------------------------
InQueue == [i \in 1..sq_head - sq_tail |-> queue[(sq_tail + i - 1) % QUEUE_SIZE]]

TypeOK ==
  /\ thread_mutex \in Threads \cup {Nobody}
  /\ waiting \in [CondVars -> SUBSET Threads]
  /\ stop_flag \in 0..2
  /\ running_worker_threads \in 0..MaxWorkers
  /\ sq_tail \in 0..QUEUE_SIZE /\ sq_head \in 0..2 * QUEUE_SIZE
  /\ queue \in [0..QUEUE_SIZE - 1 -> Conns \cup {NoSock}]
  /\ sock \in [Threads -> Conns \cup {NoSock}]
  /\ state \in [Conns -> {"none", "backlog", "open", "closed", "refused"}]

\* The ring loses, doubles and reorders nothing, across the wrap of its pointers: what
\* was accepted is what workers got, then what is queued, then what the master holds.
FirstInFirstOut ==
  stop_flag = 0 =>
    accepted = taken \o InQueue
                     \o (IF sock[Master] = NoSock THEN <<>> ELSE <<sock[Master]>>)

\* A socket is in the hands of one thread at most, and it is not closed under it.
OneOwner ==
  \A t \in Threads : sock[t] # NoSock =>
    /\ state[sock[t]] = "open"
    /\ \A u \in Threads \ {t} : sock[u] # sock[t]

\* The context is freed only when no thread is left to use it.  That is so where the
\* master could allocate its array: without it the master counts the workers while
\* mg_start still creates them, and may end before them.
FreedAfterUse ==
  pc[App] = "stopped" /\ pfd => \A t \in Threads \ {App} : pc[t] \in {"none", "gone"}

\* The only sockets mg_stop leaves open were accepted and not served when it came.
LeakedOnlyUnserved ==
  pc[App] = "stopped" =>
    \A c \in Conns : state[c] = "open" =>
      \/ \E w \in Workers : sock[w] = c
      \/ ~\E i \in DOMAIN taken : taken[i] = c

\* What becomes of sockets: of the right types, in one pair of hands, and closed, unless they
\* were never served.
SocketsAccountedFor == TypeOK /\ OneOwner /\ LeakedOnlyUnserved

\* While the server is neither stopped nor without workers, each connection is answered.
EachConnectionServed ==
  \A c \in Conns :
    state[c] = "backlog" ~>
      \/ state[c] \in {"closed", "refused"}
      \/ stop_flag # 0 \/ undefined
      \/ pc[Master] = "none" \/ pc[App] = "null"
      \/ cfg_worker_threads = 0

\* mg_stop returns, unless the broadcast came between a worker's test and its wait,
\* or the queue was full and there was no worker to make room, or the master had no
\* array to poll with and so made its only broadcast before it was told to stop.
StopReturns ==
  pc[App] = "stopping" ~>
    \/ pc[App] = "stopped" \/ undefined
    \/ lost
    \/ cfg_worker_threads = 0 /\ pc[Master] = "produce_asleep"
    \/ ~pfd
=============================================================================
