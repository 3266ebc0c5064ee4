------------------------- MODULE WebThreads_proofs -------------------------
(***************************************************************************)
(* What WebThreads promises for any number of workers and connections and  *)
(* any size of the queue.                                                  *)
(***************************************************************************)
EXTENDS WebThreads, FiniteSetTheorems, SequenceTheorems, TLAPS

\* The groups of variables that actions leave alone.
USE ThreadsAssumption DEF sync, ring, hist, conf, Goto

\* The application, the master and the workers are different threads, and none is nobody.
LEMMA ThreadsDiffer ==
  /\ App \in Threads /\ Master \in Threads /\ App # Master
  /\ Nobody \notin Threads /\ NoSock \notin Conns
  /\ \A w \in Workers : w \in Threads /\ w # App /\ w # Master
BY DEF App, Master, Nobody, Workers, Threads, Conns, NoSock

\* The place of a counter in the array, for the counters that occur.
LEMMA Place ==
  \A i \in 0..2 * QUEUE_SIZE - 1 :
    /\ i % QUEUE_SIZE = IF i < QUEUE_SIZE THEN i ELSE i - QUEUE_SIZE
    /\ i % QUEUE_SIZE \in 0..QUEUE_SIZE - 1
OBVIOUS

\* Counters less than a queue apart have different places.
LEMMA PlacesDiffer ==
  \A i, j \in 0..2 * QUEUE_SIZE - 1 :
    i < j /\ j < i + QUEUE_SIZE => i % QUEUE_SIZE # j % QUEUE_SIZE
<1> TAKE i, j \in 0..2 * QUEUE_SIZE - 1
<1> HAVE i < j /\ j < i + QUEUE_SIZE
<1> DEFINE a == i % QUEUE_SIZE
           b == j % QUEUE_SIZE
<1>1. a = IF i < QUEUE_SIZE THEN i ELSE i - QUEUE_SIZE
  BY Place
<1>2. b = IF j < QUEUE_SIZE THEN j ELSE j - QUEUE_SIZE
  BY Place
<1>3. a # b
  <2> HIDE DEF a, b
  <2> QED
    BY <1>1, <1>2
<1> QED
  BY <1>3

\* A counter that is moved back by the size of the queue keeps its place.
LEMMA PlaceWraps ==
  \A i \in QUEUE_SIZE..2 * QUEUE_SIZE - 1 : (i - QUEUE_SIZE) % QUEUE_SIZE = i % QUEUE_SIZE
<1> TAKE i \in QUEUE_SIZE..2 * QUEUE_SIZE - 1
<1>1. i \in 0..2 * QUEUE_SIZE - 1 /\ i - QUEUE_SIZE \in 0..2 * QUEUE_SIZE - 1 /\ i - QUEUE_SIZE < QUEUE_SIZE
  OBVIOUS
<1> QED
  BY <1>1, Place

-----------------------------------------------------------------------------
(* Where the threads are, and what stop_flag says about it.                *)

AppPc == {"init", "null", "spawn", "running", "unstopped", "stopping", "stopped"}
MasterPc == {"none", "poll", "produce", "produce_test", "produce_wait", "produce_asleep",
             "broadcast", "join", "join_asleep", "joining", "joined", "gone"}
WorkerPc == {"none", "start", "consume", "consume_test", "consume_wait", "consume_asleep",
             "consume_return", "serve", "exit", "exit_oom", "gone"}

PcType ==
  /\ pc \in [Threads -> AppPc \cup MasterPc \cup WorkerPc]
  /\ pc[App] \in AppPc /\ pc[Master] \in MasterPc
  /\ \A w \in Workers : pc[w] \in WorkerPc
  /\ pc[App] = "init" => pc[Master] = "none"

Ending == {"broadcast", "join", "join_asleep", "joining", "joined"}

\* Who sets stop_flag to what, and where everybody is by then.  A master with an array to
\* poll with begins to end only when told to, after the last worker was created.
StopInv ==
  /\ stop_flag \in 0..2
  /\ pc[App] = "init" => stop_flag = 0
  /\ pfd /\ stop_flag # 0 => pc[App] \in {"stopping", "stopped"}
  /\ pfd /\ pc[Master] \in Ending => stop_flag # 0
  /\ pfd /\ (pc[Master] = "joined" \/ stop_flag = 2) =>
       \A w \in Workers : pc[w] \in {"none", "gone"}
  /\ stop_flag = 2 => pc[Master] = "gone"
  /\ pc[App] = "stopped" => stop_flag = 2

Places == PcType /\ StopInv

\* mg_start finds no thread but its own.
LEMMA InitPlaces == Init => Places
BY ThreadsDiffer DEF Init, Places, PcType, StopInv, Ending, AppPc, MasterPc, WorkerPc

\* Each step of each thread leads to one of its places, in step with stop_flag.

LEMMA KeepsPlaces == Places /\ [Next]_vars => Places'
<1> SUFFICES ASSUME Places, [Next]_vars PROVE Places'
  OBVIOUS
<1> USE ThreadsDiffer DEF Places, PcType, StopInv, Ending, AppPc, MasterPc, WorkerPc
<1>1. CASE StartFails
  BY <1>1 DEF StartFails
<1>2. CASE StartMaster
  BY <1>2 DEF StartMaster
<1>3. CASE StartEnds
  BY <1>3 DEF StartEnds
<1>4. CASE StopEnds
  BY <1>4 DEF StopEnds
<1>5. ASSUME NEW w \in Workers, StartWorker(w) PROVE Places'
  BY <1>5 DEF StartWorker
<1>6. CASE Accept
  BY <1>6 DEF Accept
<1>7. CASE ProduceLock
  BY <1>7 DEF ProduceLock, Lock
<1>8. CASE ProduceFull
  BY <1>8 DEF ProduceFull, QueueFull
<1>9. CASE ProduceWait
  BY <1>9 DEF ProduceWait, CondWait, Unlock
<1>10. CASE ProducePut
  BY <1>10 DEF ProducePut, QueueFull, Signal, Unlock
<1>11. CASE Wake(Master, "produce_asleep", "produce_test")
  BY <1>11 DEF Wake, Lock, Asleep
<1>12. CASE CloseListening
  BY <1>12 DEF CloseListening
<1>13. CASE Broadcast
  BY <1>13 DEF Broadcast
<1>14. CASE AwaitWorkers
  BY <1>14 DEF AwaitWorkers, Asleep
<1>15. CASE MasterEnds
  BY <1>15 DEF MasterEnds
<1>16. ASSUME NEW w \in Workers, WorkerStarts(w) PROVE Places'
  BY <1>16 DEF WorkerStarts
<1>17. ASSUME NEW w \in Workers, ConsumeLock(w) PROVE Places'
  BY <1>17 DEF ConsumeLock, Lock
<1>18. ASSUME NEW w \in Workers, ConsumeEmpty(w) PROVE Places'
  BY <1>18 DEF ConsumeEmpty
<1>19. ASSUME NEW w \in Workers, ConsumeWait(w) PROVE Places'
  BY <1>19 DEF ConsumeWait, CondWait, Unlock
<1>20. ASSUME NEW w \in Workers, ConsumeTake(w) PROVE Places'
  BY <1>20 DEF ConsumeTake, Signal, Unlock, Wrap
<1>21. ASSUME NEW w \in Workers, ConsumeReturn(w) PROVE Places'
  BY <1>21 DEF ConsumeReturn
<1>22. ASSUME NEW w \in Workers, Serve(w) PROVE Places'
  BY <1>22 DEF Serve
<1>23. ASSUME NEW w \in Workers, WorkerEnds(w) PROVE Places'
  BY <1>23 DEF WorkerEnds, Signal
<1>24. ASSUME NEW w \in Workers, Wake(w, "consume_asleep", "consume_test") PROVE Places'
  BY <1>24 DEF Wake, Lock, Asleep
<1>25. CASE Stop
  BY <1>25 DEF Stop
<1>26. ASSUME NEW c \in Conns, Connect(c) PROVE Places'
  BY <1>26 DEF Connect
<1>27. ASSUME NEW t \in Threads, NEW cv \in CondVars, SpuriousWakeup(t, cv) PROVE Places'
  BY <1>27 DEF SpuriousWakeup
<1>28. CASE UNCHANGED vars
  BY <1>28 DEF vars
<1>29. CASE WorkersCounted
  BY <1>29 DEF WorkersCounted, Asleep
<1>30. CASE JoinWorkers
  BY <1>30 DEF JoinWorkers
<1> QED
  BY <1>1, <1>2, <1>3, <1>4, <1>5, <1>6, <1>7, <1>8, <1>9, <1>10, <1>11, <1>12, <1>13, <1>14, <1>15, <1>16, <1>17, <1>18, <1>19, <1>20, <1>21, <1>22, <1>23, <1>24, <1>25, <1>26, <1>27, <1>28, <1>29, <1>30
  DEF Next, AppNext, MasterNext, Worker

\* FreedAfterUse for any number of workers: only the master sets stop_flag to 2, after
\* every worker has gone, and mg_stop frees the context only then.  A master that could
\* not allocate its array is excepted, as in the property.
THEOREM FreedCorrect == Spec => []FreedAfterUse
<1>1. Places => FreedAfterUse
  BY DEF Places, PcType, StopInv, FreedAfterUse, Threads
<1> QED
  BY InitPlaces, KeepsPlaces, <1>1, PTL DEF Spec

-----------------------------------------------------------------------------
(* The ring is a sequence, to which the master adds and from which workers *)
(* take.                                                                   *)

Holding == {"produce", "produce_test", "produce_wait", "produce_asleep"}

\* The pointers' ranges, a socket in each cell between them, and one in the master's hands
\* exactly while it is in produce_socket.
RingInv ==
  /\ sq_tail \in 0..QUEUE_SIZE /\ sq_head \in sq_tail..sq_tail + QUEUE_SIZE
  /\ queue \in [0..QUEUE_SIZE - 1 -> Conns \cup {NoSock}]
  /\ \A i \in sq_tail..sq_head - 1 : queue[i % QUEUE_SIZE] \in Conns
  /\ sock \in [Threads -> Conns \cup {NoSock}]
  /\ sock[Master] # NoSock <=> pc[Master] \in Holding
  /\ accepted \in Seq(Conns) /\ taken \in Seq(Conns)

\* What is queued, as a sequence.
LEMMA QueueIsSeq ==
  ASSUME RingInv
  PROVE  /\ InQueue \in Seq(Conns) /\ Len(InQueue) = sq_head - sq_tail
         /\ \A i \in 1..Len(InQueue) : InQueue[i] = queue[(sq_tail + i - 1) % QUEUE_SIZE]
<1>1. sq_head - sq_tail \in Nat
  BY DEF RingInv
<1>2. \A i \in 1..sq_head - sq_tail : queue[(sq_tail + i - 1) % QUEUE_SIZE] \in Conns
  <2> TAKE i \in 1..sq_head - sq_tail
  <2>1. sq_tail + i - 1 \in sq_tail..sq_head - 1
    BY DEF RingInv
  <2> QED
    BY <2>1 DEF RingInv
<1>3. InQueue \in [1..sq_head - sq_tail -> Conns]
  BY <1>2 DEF InQueue
<1> QED
  BY <1>1, <1>3 DEF InQueue

\* It depends on the ring alone.
LEMMA QueueFrame == UNCHANGED ring => InQueue' = InQueue
BY DEF InQueue

\* produce_socket puts its socket at the end, wherever the head is in the array.
LEMMA PutAppends ==
  ASSUME RingInv, ProducePut, ~QueueFull
  PROVE  /\ InQueue' = Append(InQueue, sock[Master])
         /\ sq_head' \in sq_tail..sq_tail + QUEUE_SIZE /\ sq_tail' = sq_tail
         /\ sock[Master] \in Conns
         /\ \A i \in sq_tail..sq_head : queue'[i % QUEUE_SIZE] \in Conns
<1> DEFINE n == sq_head - sq_tail
           x == sock[Master]
<1>1. /\ n \in 0..QUEUE_SIZE - 1 /\ sq_tail \in 0..QUEUE_SIZE /\ sq_head = sq_tail + n
      /\ sq_head' = sq_head + 1 /\ sq_tail' = sq_tail
  BY DEF RingInv, ProducePut, QueueFull
<1>2. queue' = [queue EXCEPT ![sq_head % QUEUE_SIZE] = x]
  BY DEF ProducePut
<1>3. x \in Conns
  BY ThreadsDiffer DEF RingInv, ProducePut, Holding
<1>4. \A i \in 1..n : (sq_tail + i - 1) % QUEUE_SIZE # sq_head % QUEUE_SIZE
  <2> TAKE i \in 1..n
  <2>1. /\ sq_tail + i - 1 \in 0..2 * QUEUE_SIZE - 1 /\ sq_head \in 0..2 * QUEUE_SIZE - 1
        /\ sq_tail + i - 1 < sq_head /\ sq_head < sq_tail + i - 1 + QUEUE_SIZE
    BY <1>1
  <2> QED
    BY <2>1, PlacesDiffer
<1>5. \A i \in 1..n : queue'[(sq_tail + i - 1) % QUEUE_SIZE] = queue[(sq_tail + i - 1) % QUEUE_SIZE]
  <2> TAKE i \in 1..n
  <2>1. sq_tail + i - 1 \in 0..2 * QUEUE_SIZE - 1
    BY <1>1
  <2> DEFINE j == (sq_tail + i - 1) % QUEUE_SIZE
             k == sq_head % QUEUE_SIZE
  <2>2. j \in 0..QUEUE_SIZE - 1 /\ j # k
    BY <2>1, <1>4, Place
  <2>3. queue' = [queue EXCEPT ![k] = x]
    BY <1>2
  <2>4. queue \in [0..QUEUE_SIZE - 1 -> Conns \cup {NoSock}]
    BY DEF RingInv
  <2>5. queue'[j] = queue[j]
    <3> HIDE DEF j, k, x
    <3> QED
      BY <2>2, <2>3, <2>4
  <2> QED
    BY <2>5
<1>6. queue'[sq_head % QUEUE_SIZE] = x
  <2>1. sq_head \in 0..2 * QUEUE_SIZE - 1
    BY <1>1
  <2>2. sq_head % QUEUE_SIZE \in 0..QUEUE_SIZE - 1
    BY <2>1, Place
  <2> QED
    BY <1>2, <2>2 DEF RingInv
<1>7. InQueue' = [i \in 1..n + 1 |-> queue'[(sq_tail + i - 1) % QUEUE_SIZE]]
  BY <1>1 DEF InQueue
<1>8. InQueue' = Append(InQueue, x)
  <2>1. /\ InQueue \in Seq(Conns) /\ Len(InQueue) = n
        /\ \A i \in 1..n : InQueue[i] = queue[(sq_tail + i - 1) % QUEUE_SIZE]
    BY QueueIsSeq
  <2>2. Append(InQueue, x) = [i \in 1..n + 1 |-> IF i <= n THEN InQueue[i] ELSE x]
    BY <2>1, <1>1
  <2>3. \A i \in 1..n + 1 : queue'[(sq_tail + i - 1) % QUEUE_SIZE] = IF i <= n THEN InQueue[i] ELSE x
    <3> TAKE i \in 1..n + 1
    <3>1. CASE i \in 1..n
      BY <3>1, <2>1, <1>5, <1>1
    <3>2. CASE i = n + 1
      <4>1. sq_tail + i - 1 = sq_head /\ ~(i <= n)
        BY <3>2, <1>1
      <4> QED
        BY <4>1, <1>6
    <3> QED
      BY <3>1, <3>2, <1>1
  <2> QED
    BY <2>2, <2>3, <1>7
<1>9. \A i \in sq_tail..sq_head : queue'[i % QUEUE_SIZE] \in Conns
  <2> TAKE i \in sq_tail..sq_head
  <2>1. CASE i = sq_head
    BY <2>1, <1>6, <1>3
  <2>2. CASE i # sq_head
    <3>1. i - sq_tail + 1 \in 1..n /\ sq_tail + (i - sq_tail + 1) - 1 = i /\ i \in sq_tail..sq_head - 1
      BY <2>2, <1>1
    <3>2. queue'[i % QUEUE_SIZE] = queue[i % QUEUE_SIZE]
      BY <3>1, <1>5
    <3> QED
      BY <3>1, <3>2 DEF RingInv
  <2> QED
    BY <2>1, <2>2
<1>10. sq_head' \in sq_tail..sq_tail + QUEUE_SIZE
  BY <1>1
<1> QED
  BY <1>1, <1>3, <1>8, <1>9, <1>10

\* consume_socket takes the first, and moving both pointers back changes nothing.
LEMMA TakeIsTail ==
  ASSUME RingInv, NEW w \in Workers, ConsumeTake(w), sq_head > sq_tail
  PROVE  /\ InQueue # <<>> /\ InQueue' = Tail(InQueue)
         /\ Head(InQueue) = queue[sq_tail % QUEUE_SIZE]
         /\ Head(InQueue) \in Conns
         /\ sq_tail' \in 0..QUEUE_SIZE /\ sq_head' \in sq_tail'..sq_tail' + QUEUE_SIZE
         /\ \A i \in sq_tail'..sq_head' - 1 : queue'[i % QUEUE_SIZE] \in Conns
<1> DEFINE n == sq_head - sq_tail
<1>1. /\ n \in 1..QUEUE_SIZE /\ sq_tail \in 0..QUEUE_SIZE /\ sq_head = sq_tail + n
      /\ queue' = queue
      /\ sq_tail' = sq_tail + 1 - Wrap /\ sq_head' = sq_head - Wrap
  BY DEF RingInv, ConsumeTake
<1>2. Wrap = IF sq_tail = QUEUE_SIZE THEN QUEUE_SIZE ELSE 0
  BY <1>1 DEF Wrap
<1>3. sq_tail' \in 0..QUEUE_SIZE /\ sq_head' - sq_tail' = n - 1
  BY <1>1, <1>2
<1>4. \A i \in 1..n - 1 : (sq_tail' + i - 1) % QUEUE_SIZE = (sq_tail + i) % QUEUE_SIZE
  <2> TAKE i \in 1..n - 1
  <2>1. sq_tail + i \in 0..2 * QUEUE_SIZE - 1 /\ sq_tail' + i - 1 \in 0..2 * QUEUE_SIZE - 1
    BY <1>1, <1>3
  <2>2. CASE sq_tail = QUEUE_SIZE
    <3>1. sq_tail' + i - 1 = (sq_tail + i) - QUEUE_SIZE /\ sq_tail + i \in QUEUE_SIZE..2 * QUEUE_SIZE - 1
      BY <1>1, <1>2, <2>1, <2>2
    <3> QED
      BY <3>1, PlaceWraps
  <2>3. CASE sq_tail # QUEUE_SIZE
    <3>1. sq_tail' + i - 1 = sq_tail + i
      BY <1>1, <1>2, <2>3
    <3> QED
      BY <3>1
  <2> QED
    BY <2>2, <2>3
<1>5. /\ InQueue \in Seq(Conns) /\ Len(InQueue) = n
      /\ \A i \in 1..n : InQueue[i] = queue[(sq_tail + i - 1) % QUEUE_SIZE]
  BY QueueIsSeq
<1>6. InQueue' = [i \in 1..n - 1 |-> queue[(sq_tail + i) % QUEUE_SIZE]]
  BY <1>1, <1>3, <1>4 DEF InQueue
<1>7. \A i \in 1..n - 1 : InQueue[i + 1] = queue[(sq_tail + i) % QUEUE_SIZE]
  <2> TAKE i \in 1..n - 1
  <2>1. i + 1 \in 1..n /\ sq_tail + (i + 1) - 1 = sq_tail + i
    BY <1>1
  <2> QED
    BY <2>1, <1>5
<1>8. InQueue # <<>> /\ Tail(InQueue) = [i \in 1..n - 1 |-> InQueue[i + 1]] /\ Head(InQueue) = InQueue[1]
  <2>1. InQueue # <<>>
    BY <1>5, <1>1, EmptySeq
  <2>2. /\ Tail(InQueue) \in Seq(Conns) /\ Len(Tail(InQueue)) = n - 1
        /\ \A i \in 1..n - 1 : Tail(InQueue)[i] = InQueue[i + 1]
    BY <2>1, <1>5, <1>1, HeadTailProperties
  <2>3. Tail(InQueue) \in [1..n - 1 -> Conns]
    BY <2>2, LenProperties
  <2>4. Tail(InQueue) = [i \in 1..n - 1 |-> InQueue[i + 1]]
    BY <2>2, <2>3
  <2>5. Head(InQueue) = InQueue[1]
    OBVIOUS
  <2> QED
    BY <2>1, <2>4, <2>5
<1>9. InQueue[1] = queue[sq_tail % QUEUE_SIZE] /\ InQueue[1] \in Conns
  <2>1. 1 \in 1..n /\ sq_tail + 1 - 1 = sq_tail
    BY <1>1
  <2> QED
    BY <2>1, <1>5
<1>10. \A i \in sq_tail'..sq_head' - 1 : queue'[i % QUEUE_SIZE] \in Conns
  <2> TAKE i \in sq_tail'..sq_head' - 1
  <2>1. i - sq_tail' + 1 \in 1..n - 1 /\ sq_tail' + (i - sq_tail' + 1) - 1 = i
    BY <1>1, <1>2, <1>3
  <2>2. queue'[i % QUEUE_SIZE] = InQueue[i - sq_tail' + 2]
    BY <2>1, <1>1, <1>4, <1>7
  <2>3. i - sq_tail' + 2 \in 1..n
    BY <2>1, <1>1, <1>3
  <2> QED
    BY <2>2, <2>3, <1>5
<1>11. sq_head' \in sq_tail'..sq_tail' + QUEUE_SIZE
  BY <1>1, <1>2, <1>3
<1> QED
  BY <1>3, <1>6, <1>7, <1>8, <1>9, <1>10, <1>11

\* The server starts with an empty ring and no socket.
LEMMA InitRing == Init => RingInv
<1> SUFFICES ASSUME Init PROVE RingInv
  OBVIOUS
<1>1. <<>> \in Seq(Conns)
  OBVIOUS
<1> QED
  BY <1>1, ThreadsDiffer DEF Init, RingInv, Holding

\* Only produce_socket and consume_socket touch the ring.
LEMMA KeepsRing == Places /\ RingInv /\ [Next]_vars => RingInv'
<1> SUFFICES ASSUME Places, RingInv, [Next]_vars PROVE RingInv'
  OBVIOUS
<1> USE ThreadsDiffer DEF Places, PcType
<1>1. CASE StartFails
  BY <1>1 DEF StartFails, RingInv, Holding
<1>2. CASE StartMaster
  BY <1>2 DEF StartMaster, RingInv, Holding
<1>3. CASE StartEnds
  BY <1>3 DEF StartEnds, RingInv, Holding
<1>4. CASE StopEnds
  BY <1>4 DEF StopEnds, RingInv, Holding
<1>5. ASSUME NEW w \in Workers, StartWorker(w) PROVE RingInv'
  BY <1>5 DEF StartWorker, RingInv, Holding
<1>6. CASE Accept
  <2>1. PICK c \in Conns :
          /\ UNCHANGED <<queue, sq_head, sq_tail, taken>>
          /\ \/ UNCHANGED <<pc, sock, accepted>>
             \/ /\ pc' = [pc EXCEPT ![Master] = "produce"]
                /\ sock' = [sock EXCEPT ![Master] = c]
                /\ accepted' = Append(accepted, c)
    BY <1>6 DEF Accept
  <2>2. Append(accepted, c) \in Seq(Conns)
    BY AppendProperties DEF RingInv
  <2> QED
    BY <2>1, <2>2 DEF RingInv, Holding
<1>7. CASE ProduceLock
  BY <1>7 DEF ProduceLock, Lock, RingInv, Holding
<1>8. CASE ProduceFull
  BY <1>8 DEF ProduceFull, QueueFull, RingInv, Holding
<1>9. CASE ProduceWait
  BY <1>9 DEF ProduceWait, CondWait, Unlock, RingInv, Holding
<1>10. CASE ProducePut
  <2>1. /\ UNCHANGED <<accepted, taken, sq_tail>>
        /\ pc' = [pc EXCEPT ![Master] = "poll"]
        /\ sock' = [sock EXCEPT ![Master] = NoSock]
    BY <1>10 DEF ProducePut
  <2>2. CASE QueueFull
    BY <1>10, <2>1, <2>2 DEF ProducePut, RingInv, Holding
  <2>3. CASE ~QueueFull
    <3>1. /\ queue' = [queue EXCEPT ![sq_head % QUEUE_SIZE] = sock[Master]]
          /\ sq_head' = sq_head + 1
      BY <1>10, <2>3 DEF ProducePut
    <3>2. queue' \in [0..QUEUE_SIZE - 1 -> Conns \cup {NoSock}]
      BY <3>1 DEF RingInv
    <3>3. \A i \in sq_tail'..sq_head' - 1 : queue'[i % QUEUE_SIZE] \in Conns
      <4>1. sq_tail'..sq_head' - 1 = sq_tail..sq_head
        BY <2>1, <3>1 DEF RingInv
      <4>2. \A i \in sq_tail..sq_head : queue'[i % QUEUE_SIZE] \in Conns
        BY <1>10, <2>3, PutAppends
      <4> QED
        BY <4>1, <4>2
    <3>4. sq_head' \in sq_tail'..sq_tail' + QUEUE_SIZE
      BY <1>10, <2>3, PutAppends
    <3> QED
      BY <2>1, <3>2, <3>3, <3>4 DEF RingInv, Holding
  <2> QED
    BY <2>2, <2>3
<1>11. CASE Wake(Master, "produce_asleep", "produce_test")
  BY <1>11 DEF Wake, Lock, Asleep, RingInv, Holding
<1>12. CASE CloseListening
  BY <1>12 DEF CloseListening, RingInv, Holding
<1>13. CASE Broadcast
  BY <1>13 DEF Broadcast, RingInv, Holding
<1>14. CASE AwaitWorkers
  BY <1>14 DEF AwaitWorkers, Asleep, RingInv, Holding
<1>15. CASE MasterEnds
  BY <1>15 DEF MasterEnds, RingInv, Holding
<1>16. ASSUME NEW w \in Workers, WorkerStarts(w) PROVE RingInv'
  BY <1>16 DEF WorkerStarts, RingInv, Holding
<1>17. ASSUME NEW w \in Workers, ConsumeLock(w) PROVE RingInv'
  BY <1>17 DEF ConsumeLock, Lock, RingInv, Holding
<1>18. ASSUME NEW w \in Workers, ConsumeEmpty(w) PROVE RingInv'
  BY <1>18 DEF ConsumeEmpty, RingInv, Holding
<1>19. ASSUME NEW w \in Workers, ConsumeWait(w) PROVE RingInv'
  BY <1>19 DEF ConsumeWait, CondWait, Unlock, RingInv, Holding
<1>20. ASSUME NEW w \in Workers, ConsumeTake(w) PROVE RingInv'
  <2>1. UNCHANGED <<queue, accepted>> /\ pc' = [pc EXCEPT ![w] = "consume_return"]
    BY <1>20 DEF ConsumeTake
  <2>2. CASE sq_head > sq_tail
    <3>1. /\ sock' = [sock EXCEPT ![w] = queue[sq_tail % QUEUE_SIZE]]
          /\ taken' = Append(taken, queue[sq_tail % QUEUE_SIZE])
      BY <1>20, <2>2 DEF ConsumeTake
    <3>2. queue[sq_tail % QUEUE_SIZE] \in Conns
      BY <1>20, <2>2, TakeIsTail
    <3>3. taken' \in Seq(Conns)
      BY <3>1, <3>2, AppendProperties DEF RingInv
    <3>4. /\ sq_tail' \in 0..QUEUE_SIZE /\ sq_head' \in sq_tail'..sq_tail' + QUEUE_SIZE
          /\ \A i \in sq_tail'..sq_head' - 1 : queue'[i % QUEUE_SIZE] \in Conns
      BY <1>20, <2>2, TakeIsTail
    <3> QED
      BY <2>1, <3>1, <3>2, <3>3, <3>4 DEF RingInv, Holding
  <2>3. CASE ~(sq_head > sq_tail)
    BY <1>20, <2>1, <2>3 DEF ConsumeTake, RingInv, Holding
  <2> QED
    BY <2>2, <2>3
<1>21. ASSUME NEW w \in Workers, ConsumeReturn(w) PROVE RingInv'
  BY <1>21 DEF ConsumeReturn, RingInv, Holding
<1>22. ASSUME NEW w \in Workers, Serve(w) PROVE RingInv'
  BY <1>22 DEF Serve, RingInv, Holding
<1>23. ASSUME NEW w \in Workers, WorkerEnds(w) PROVE RingInv'
  BY <1>23 DEF WorkerEnds, Signal, RingInv, Holding
<1>24. ASSUME NEW w \in Workers, Wake(w, "consume_asleep", "consume_test") PROVE RingInv'
  BY <1>24 DEF Wake, Lock, Asleep, RingInv, Holding
<1>25. CASE Stop
  BY <1>25 DEF Stop, RingInv, Holding
<1>26. ASSUME NEW c \in Conns, Connect(c) PROVE RingInv'
  BY <1>26 DEF Connect, RingInv, Holding
<1>27. ASSUME NEW t \in Threads, NEW cv \in CondVars, SpuriousWakeup(t, cv) PROVE RingInv'
  BY <1>27 DEF SpuriousWakeup, RingInv, Holding
<1>28. CASE UNCHANGED vars
  BY <1>28 DEF vars, RingInv, Holding
<1>29. CASE WorkersCounted
  BY <1>29 DEF WorkersCounted, Asleep, RingInv, Holding
<1>30. CASE JoinWorkers
  BY <1>30 DEF JoinWorkers, RingInv, Holding
<1> QED
  BY <1>1, <1>2, <1>3, <1>4, <1>5, <1>6, <1>7, <1>8, <1>9, <1>10, <1>11, <1>12, <1>13, <1>14, <1>15, <1>16, <1>17, <1>18, <1>19, <1>20, <1>21, <1>22, <1>23, <1>24, <1>25, <1>26, <1>27, <1>28, <1>29, <1>30
  DEF Next, AppNext, MasterNext, Worker

-----------------------------------------------------------------------------
(* First in, first out.                                                    *)

Held == IF sock[Master] = NoSock THEN <<>> ELSE <<sock[Master]>>

\* A non-empty sequence is its head and its tail.
LEMMA HeadThenTail ==
  ASSUME NEW S, NEW q \in Seq(S), q # <<>>
  PROVE  <<Head(q)>> \o Tail(q) = q
<1>1. Len(q) \in Nat \ {0}
  BY EmptySeq
<1>2. /\ Tail(q) \in Seq(S) /\ Len(Tail(q)) = Len(q) - 1
      /\ \A i \in 1..Len(Tail(q)) : Tail(q)[i] = q[i + 1]
      /\ Head(q) \in S /\ Head(q) = q[1]
  BY <1>1, HeadTailProperties
<1>3. <<Head(q)>> \in Seq(S) /\ Len(<<Head(q)>>) = 1 /\ <<Head(q)>>[1] = q[1]
  BY <1>2
<1>4. /\ <<Head(q)>> \o Tail(q) \in Seq(S)
      /\ Len(<<Head(q)>> \o Tail(q)) = Len(q)
      /\ \A i \in 1..Len(q) : (<<Head(q)>> \o Tail(q))[i] = q[i]
  BY <1>1, <1>2, <1>3, ConcatProperties
<1> QED
  BY <1>4, SeqEqual

\* Until mg_stop, what workers got, what is queued and what the master holds are all.
LEMMA KeepsOrder ==
  ASSUME Places, RingInv, FirstInFirstOut, [Next]_vars, stop_flag' = 0
  PROVE  accepted' = (taken' \o InQueue') \o Held'
<1> USE ThreadsDiffer
<1>0. stop_flag = 0 => accepted = (taken \o InQueue) \o Held
  BY DEF FirstInFirstOut, Held
<1>s. /\ InQueue \in Seq(Conns) /\ taken \in Seq(Conns) /\ accepted \in Seq(Conns)
      /\ taken \o InQueue \in Seq(Conns)
  BY QueueIsSeq, ConcatProperties DEF RingInv
<1>f. ASSUME UNCHANGED <<ring, accepted, taken>>, sock'[Master] = sock[Master], stop_flag = 0
      PROVE  accepted' = (taken' \o InQueue') \o Held'
  BY <1>0, <1>f, QueueFrame DEF Held
<1>1. CASE StartFails
  BY <1>1, <1>f DEF StartFails, RingInv
<1>2. CASE StartMaster
  BY <1>2, <1>f DEF StartMaster, RingInv
<1>3. CASE StartEnds
  BY <1>3, <1>f DEF StartEnds, RingInv
<1>4. CASE StopEnds
  BY <1>4, <1>f DEF StopEnds, RingInv
<1>5. ASSUME NEW w \in Workers, StartWorker(w) PROVE accepted' = (taken' \o InQueue') \o Held'
  BY <1>5, <1>f DEF StartWorker, RingInv
<1>6. CASE Accept
  <2>1. stop_flag = 0 /\ sock[Master] = NoSock /\ UNCHANGED <<ring, taken>> /\ InQueue' = InQueue
    BY <1>6, QueueFrame DEF Accept, RingInv, Holding
  <2>2. CASE UNCHANGED <<pc, sock, accepted>>
    BY <2>1, <2>2, <1>f
  <2>3. CASE ~UNCHANGED <<pc, sock, accepted>>
    <3>1. PICK c \in Conns : sock' = [sock EXCEPT ![Master] = c] /\ accepted' = Append(accepted, c)
      BY <1>6, <2>3 DEF Accept
    <3>2. Held = <<>> /\ Held' = <<c>>
      BY <2>1, <3>1 DEF Held, RingInv
    <3>3. accepted = taken \o InQueue
      BY <1>0, <2>1, <3>2, <1>s, ConcatEmptySeq
    <3>4. accepted' = accepted \o <<c>>
      BY <3>1, <1>s, AppendIsConcat
    <3> QED
      BY <2>1, <3>2, <3>3, <3>4
  <2> QED
    BY <2>2, <2>3
<1>7. CASE ProduceLock
  BY <1>7, <1>f DEF ProduceLock, Lock, RingInv
<1>8. CASE ProduceFull
  BY <1>8, <1>f DEF ProduceFull, QueueFull, RingInv
<1>9. CASE ProduceWait
  BY <1>9, <1>f DEF ProduceWait, CondWait, Unlock, RingInv
<1>10. CASE ProducePut
  <2>1. stop_flag = 0 /\ ~QueueFull /\ UNCHANGED <<accepted, taken>> /\ sock' = [sock EXCEPT ![Master] = NoSock]
    BY <1>10 DEF ProducePut
  <2>2. sock[Master] \in Conns /\ InQueue' = Append(InQueue, sock[Master])
    BY <1>10, <2>1, PutAppends
  <2> DEFINE x == sock[Master]
  <2>3. Held = <<x>> /\ Held' = <<>> /\ <<x>> \in Seq(Conns)
    BY <2>1, <2>2 DEF Held, RingInv
  <2>4. InQueue' = InQueue \o <<x>>
    BY <2>2, <1>s, AppendIsConcat
  <2>5. taken \o (InQueue \o <<x>>) = (taken \o InQueue) \o <<x>>
    BY <2>3, <1>s, ConcatAssociative
  <2>6. (taken \o (InQueue \o <<x>>)) \o <<>> = taken \o (InQueue \o <<x>>)
    BY <2>3, <1>s, ConcatProperties, ConcatEmptySeq
  <2> HIDE DEF x
  <2> QED
    BY <1>0, <2>1, <2>3, <2>4, <2>5, <2>6
<1>11. CASE Wake(Master, "produce_asleep", "produce_test")
  BY <1>11, <1>f DEF Wake, Lock, Asleep, RingInv
<1>12. CASE CloseListening
  BY <1>12, <1>f DEF CloseListening, RingInv
<1>13. CASE Broadcast
  BY <1>13, <1>f DEF Broadcast, RingInv
<1>14. CASE AwaitWorkers
  BY <1>14, <1>f DEF AwaitWorkers, Asleep, RingInv
<1>15. CASE MasterEnds
  BY <1>15 DEF MasterEnds
<1>16. ASSUME NEW w \in Workers, WorkerStarts(w) PROVE accepted' = (taken' \o InQueue') \o Held'
  BY <1>16, <1>f DEF WorkerStarts, RingInv
<1>17. ASSUME NEW w \in Workers, ConsumeLock(w) PROVE accepted' = (taken' \o InQueue') \o Held'
  BY <1>17, <1>f DEF ConsumeLock, Lock, RingInv
<1>18. ASSUME NEW w \in Workers, ConsumeEmpty(w) PROVE accepted' = (taken' \o InQueue') \o Held'
  BY <1>18, <1>f DEF ConsumeEmpty, RingInv
<1>19. ASSUME NEW w \in Workers, ConsumeWait(w) PROVE accepted' = (taken' \o InQueue') \o Held'
  BY <1>19, <1>f DEF ConsumeWait, CondWait, Unlock, RingInv
<1>20. ASSUME NEW w \in Workers, ConsumeTake(w) PROVE accepted' = (taken' \o InQueue') \o Held'
  <2>1. stop_flag = 0 /\ sq_head > sq_tail /\ UNCHANGED accepted
    BY <1>20 DEF ConsumeTake, RingInv
  <2> DEFINE x == queue[sq_tail % QUEUE_SIZE]
  <2>2. sock' = [sock EXCEPT ![w] = x] /\ taken' = Append(taken, x)
    BY <1>20, <2>1 DEF ConsumeTake
  <2>3. InQueue # <<>> /\ InQueue' = Tail(InQueue) /\ Head(InQueue) = x /\ x \in Conns
    BY <1>20, <2>1, TakeIsTail
  <2> HIDE DEF x
  <2>4. Held' = Held
    BY <2>2 DEF Held, RingInv
  <2>5. taken' = taken \o <<x>> /\ <<x>> \in Seq(Conns) /\ Tail(InQueue) \in Seq(Conns)
    BY <2>2, <2>3, <1>s, AppendIsConcat, HeadTailProperties
  <2>6. <<x>> \o Tail(InQueue) = InQueue
    BY <2>3, <1>s, HeadThenTail
  <2>7. (taken \o <<x>>) \o Tail(InQueue) = taken \o (<<x>> \o Tail(InQueue))
    BY <2>5, <1>s, ConcatAssociative
  <2> QED
    BY <1>0, <2>1, <2>3, <2>4, <2>5, <2>6, <2>7
<1>21. ASSUME NEW w \in Workers, ConsumeReturn(w) PROVE accepted' = (taken' \o InQueue') \o Held'
  BY <1>21, <1>f DEF ConsumeReturn, RingInv
<1>22. ASSUME NEW w \in Workers, Serve(w) PROVE accepted' = (taken' \o InQueue') \o Held'
  BY <1>22, <1>f DEF Serve, RingInv
<1>23. ASSUME NEW w \in Workers, WorkerEnds(w) PROVE accepted' = (taken' \o InQueue') \o Held'
  BY <1>23, <1>f DEF WorkerEnds, Signal, RingInv
<1>24. ASSUME NEW w \in Workers, Wake(w, "consume_asleep", "consume_test") PROVE accepted' = (taken' \o InQueue') \o Held'
  BY <1>24, <1>f DEF Wake, Lock, Asleep, RingInv
<1>25. CASE Stop
  BY <1>25, <1>f DEF Stop
<1>26. ASSUME NEW c \in Conns, Connect(c) PROVE accepted' = (taken' \o InQueue') \o Held'
  BY <1>26, <1>f DEF Connect, RingInv
<1>27. ASSUME NEW t \in Threads, NEW cv \in CondVars, SpuriousWakeup(t, cv) PROVE accepted' = (taken' \o InQueue') \o Held'
  BY <1>27, <1>f DEF SpuriousWakeup, RingInv
<1>28. CASE UNCHANGED vars
  BY <1>28, <1>f DEF vars, RingInv
<1>29. CASE WorkersCounted
  BY <1>29, <1>f DEF WorkersCounted, Asleep, RingInv
<1>30. CASE JoinWorkers
  BY <1>30, <1>f DEF JoinWorkers, RingInv
<1> QED
  BY <1>1, <1>2, <1>3, <1>4, <1>5, <1>6, <1>7, <1>8, <1>9, <1>10, <1>11, <1>12, <1>13, <1>14, <1>15, <1>16, <1>17, <1>18, <1>19, <1>20, <1>21, <1>22, <1>23, <1>24, <1>25, <1>26, <1>27, <1>28, <1>29, <1>30
  DEF Next, AppNext, MasterNext, Worker

\* FirstInFirstOut for any size of the queue and any number of workers: across the wrap of
\* both pointers, produce_socket and consume_socket are a queue.
THEOREM OrderCorrect == Spec => []FirstInFirstOut
<1>1. Init => FirstInFirstOut
  <2> SUFFICES ASSUME Init PROVE FirstInFirstOut
    OBVIOUS
  <2>1. InQueue = <<>>
    BY DEF Init, InQueue
  <2>2. /\ <<>> \in Seq(Conns) /\ accepted = <<>> /\ taken = <<>> /\ sock[Master] = NoSock
    BY ThreadsDiffer DEF Init
  <2> QED
    BY <2>1, <2>2, ConcatEmptySeq DEF FirstInFirstOut
<1>2. Places /\ RingInv /\ FirstInFirstOut /\ [Next]_vars => FirstInFirstOut'
  <2>1. ASSUME Places, RingInv, FirstInFirstOut, [Next]_vars PROVE FirstInFirstOut'
    BY <2>1, KeepsOrder DEF FirstInFirstOut, Held
  <2> QED
    BY <2>1
<1> QED
  BY InitPlaces, KeepsPlaces, InitRing, KeepsRing, <1>1, <1>2, PTL DEF Spec

-----------------------------------------------------------------------------
(* Sockets: in one pair of hands, and closed when they have been served.   *)

\* Where a worker has no connection.
Idle == {"none", "start", "consume", "consume_test", "consume_wait", "consume_asleep"}

\* Workers are started in order.
Started == {v \in Workers : pc[v] # "none"}
InOrder == \A u, v \in Workers : u < v /\ pc[v] # "none" => pc[u] # "none"

\* The next worker to be started is the first that has not been.
LEMMA NextIsNew ==
  ASSUME InOrder, NEW w \in Workers, w = Cardinality(Started) + 1
  PROVE  pc[w] = "none" /\ \A u \in Workers : u < w => pc[u] # "none"
<1>a. \A n \in Nat : IsFiniteSet(1..n) /\ Cardinality(1..n) = n
  <2> TAKE n \in Nat
  <2>1. IsFiniteSet(1..n) /\ Cardinality(1..n) = IF 1 > n THEN 0 ELSE n - 1 + 1
    BY FS_Interval
  <2> QED
    BY <2>1
<1>0. IsFiniteSet(Workers) /\ Workers \subseteq Nat /\ w \in Nat
  BY <1>a DEF Workers
<1>1. IsFiniteSet(Started)
  BY <1>0, FS_Subset DEF Started
<1>2. pc[w] = "none"
  <2> SUFFICES ASSUME pc[w] # "none" PROVE FALSE
    OBVIOUS
  <2>1. 1..w \subseteq Started
    <3> SUFFICES ASSUME NEW u \in 1..w PROVE u \in Started
      OBVIOUS
    <3>1. u \in Workers /\ (u = w \/ u < w)
      BY DEF Workers
    <3> QED
      BY <3>1 DEF Started, InOrder
  <2>2. Cardinality(1..w) <= Cardinality(Started)
    BY <2>1, <1>1, FS_Subset
  <2> QED
    BY <2>2, <1>0, <1>a, <1>1, FS_CardinalityType
<1>3. ASSUME NEW u \in Workers, u < w, pc[u] = "none" PROVE FALSE
  <2>1. Started \subseteq 1..u - 1
    BY <1>3, <1>0 DEF Started, InOrder, Workers
  <2>2. u - 1 \in Nat
    BY DEF Workers
  <2>3. Cardinality(Started) <= Cardinality(1..u - 1)
    BY <2>1, <2>2, <1>a, FS_Subset
  <2> QED
    BY <2>2, <2>3, <1>0, <1>a, <1>1, <1>3, FS_CardinalityType
<1> QED
  BY <1>2, <1>3

\* So they stay in order.
LEMMA KeepsInOrder == Places /\ InOrder /\ [Next]_vars => InOrder'
<1> SUFFICES ASSUME Places, InOrder, [Next]_vars PROVE InOrder'
  OBVIOUS
<1> USE ThreadsDiffer DEF Places, PcType
<1>1. CASE StartFails
  BY <1>1 DEF StartFails, InOrder
<1>2. CASE StartMaster
  BY <1>2 DEF StartMaster, InOrder
<1>3. CASE StartEnds
  BY <1>3 DEF StartEnds, InOrder
<1>4. CASE StopEnds
  BY <1>4 DEF StopEnds, InOrder
<1>5. ASSUME NEW w \in Workers, StartWorker(w) PROVE InOrder'
  <2>1. w = Cardinality(Started) + 1
    BY <1>5 DEF StartWorker, Started
  <2>2. pc[w] = "none" /\ \A u \in Workers : u < w => pc[u] # "none"
    BY <2>1, NextIsNew
  <2>3. \/ pc' = [pc EXCEPT ![w] = "start"]
        \/ \E p \in {"null", "running"} : pc' = [pc EXCEPT ![App] = p]
    BY <1>5 DEF StartWorker
  <2> QED
    BY <2>2, <2>3 DEF InOrder, Workers
<1>6. CASE Accept
  BY <1>6 DEF Accept, InOrder
<1>7. CASE ProduceLock
  BY <1>7 DEF ProduceLock, Lock, InOrder
<1>8. CASE ProduceFull
  BY <1>8 DEF ProduceFull, QueueFull, InOrder
<1>9. CASE ProduceWait
  BY <1>9 DEF ProduceWait, CondWait, Unlock, InOrder
<1>10. CASE ProducePut
  BY <1>10 DEF ProducePut, QueueFull, Signal, Unlock, InOrder
<1>11. CASE Wake(Master, "produce_asleep", "produce_test")
  BY <1>11 DEF Wake, Lock, Asleep, InOrder
<1>12. CASE CloseListening
  BY <1>12 DEF CloseListening, InOrder
<1>13. CASE Broadcast
  BY <1>13 DEF Broadcast, InOrder
<1>14. CASE AwaitWorkers
  BY <1>14 DEF AwaitWorkers, Asleep, InOrder
<1>15. CASE MasterEnds
  BY <1>15 DEF MasterEnds, InOrder
<1>16. ASSUME NEW w \in Workers, WorkerStarts(w) PROVE InOrder'
  BY <1>16 DEF WorkerStarts, InOrder
<1>17. ASSUME NEW w \in Workers, ConsumeLock(w) PROVE InOrder'
  BY <1>17 DEF ConsumeLock, Lock, InOrder
<1>18. ASSUME NEW w \in Workers, ConsumeEmpty(w) PROVE InOrder'
  BY <1>18 DEF ConsumeEmpty, InOrder
<1>19. ASSUME NEW w \in Workers, ConsumeWait(w) PROVE InOrder'
  BY <1>19 DEF ConsumeWait, CondWait, Unlock, InOrder
<1>20. ASSUME NEW w \in Workers, ConsumeTake(w) PROVE InOrder'
  BY <1>20 DEF ConsumeTake, Signal, Unlock, Wrap, InOrder
<1>21. ASSUME NEW w \in Workers, ConsumeReturn(w) PROVE InOrder'
  BY <1>21 DEF ConsumeReturn, InOrder
<1>22. ASSUME NEW w \in Workers, Serve(w) PROVE InOrder'
  BY <1>22 DEF Serve, InOrder
<1>23. ASSUME NEW w \in Workers, WorkerEnds(w) PROVE InOrder'
  BY <1>23 DEF WorkerEnds, Signal, InOrder
<1>24. ASSUME NEW w \in Workers, Wake(w, "consume_asleep", "consume_test") PROVE InOrder'
  BY <1>24 DEF Wake, Lock, Asleep, InOrder
<1>25. CASE Stop
  BY <1>25 DEF Stop, InOrder
<1>26. ASSUME NEW c \in Conns, Connect(c) PROVE InOrder'
  BY <1>26 DEF Connect, InOrder
<1>27. ASSUME NEW t \in Threads, NEW cv \in CondVars, SpuriousWakeup(t, cv) PROVE InOrder'
  BY <1>27 DEF SpuriousWakeup, InOrder
<1>28. CASE UNCHANGED vars
  BY <1>28 DEF vars, InOrder
<1>29. CASE WorkersCounted
  BY <1>29 DEF WorkersCounted, Asleep, InOrder
<1>30. CASE JoinWorkers
  BY <1>30 DEF JoinWorkers, InOrder
<1> QED
  BY <1>1, <1>2, <1>3, <1>4, <1>5, <1>6, <1>7, <1>8, <1>9, <1>10, <1>11, <1>12, <1>13, <1>14, <1>15, <1>16, <1>17, <1>18, <1>19, <1>20, <1>21, <1>22, <1>23, <1>24, <1>25, <1>26, <1>27, <1>28, <1>29, <1>30
  DEF Next, AppNext, MasterNext, Worker

\* A socket that waits in the ring waits there once and is open, and nobody has it.
Waits ==
  \A i \in 1..Len(InQueue) :
    /\ state[InQueue[i]] = "open"
    /\ \A t \in Threads : sock[t] # InQueue[i]
    /\ \A j \in 1..Len(InQueue) : j # i => InQueue[j] # InQueue[i]

OwnInv ==
  /\ state \in [Conns -> {"none", "backlog", "open", "closed", "refused"}]
  /\ OneOwner
  /\ Waits
  /\ \A w \in Workers : pc[w] \in Idle => sock[w] = NoSock
  /\ \A i \in 1..Len(taken) :
       state[taken[i]] = "closed" \/ \E w \in Workers : sock[w] = taken[i]

\* At the start there are no sockets.
LEMMA InitOwn == Init => OwnInv /\ InOrder
<1> SUFFICES ASSUME Init PROVE OwnInv /\ InOrder
  OBVIOUS
<1>1. InQueue = <<>> /\ taken = <<>>
  BY DEF Init, InQueue
<1> QED
  BY <1>1, ThreadsDiffer DEF Init, OwnInv, OneOwner, Waits, InOrder

\* A socket changes hands from the master through the ring to one worker, who closes it.
LEMMA KeepsOwn == Places /\ RingInv /\ InOrder /\ OwnInv /\ [Next]_vars => OwnInv'
<1> SUFFICES ASSUME Places, RingInv, InOrder, OwnInv, [Next]_vars PROVE OwnInv'
  OBVIOUS
<1> USE ThreadsDiffer DEF Places, PcType
<1>s. /\ InQueue \in Seq(Conns) /\ taken \in Seq(Conns)
      /\ Len(InQueue) \in Nat /\ Len(taken) \in Nat
      /\ \A i \in 1..Len(InQueue) : InQueue[i] \in Conns
      /\ \A i \in 1..Len(taken) : taken[i] \in Conns
      /\ sock \in [Threads -> Conns \cup {NoSock}]
  BY QueueIsSeq, LenProperties, ElementOfSeq DEF RingInv
<1>f. ASSUME UNCHANGED <<ring, sock, state, taken>>,
             \A w \in Workers : pc'[w] \in Idle => pc[w] \in Idle
      PROVE  OwnInv'
  BY <1>f, QueueFrame DEF OwnInv, OneOwner, Waits
<1>1. CASE StartFails
  BY <1>1, <1>f DEF StartFails, Idle
<1>2. CASE StartMaster
  BY <1>2, <1>f DEF StartMaster, Idle
<1>3. CASE StartEnds
  BY <1>3, <1>f DEF StartEnds, Idle
<1>4. CASE StopEnds
  BY <1>4, <1>f DEF StopEnds, Idle
<1>5. ASSUME NEW w \in Workers, StartWorker(w) PROVE OwnInv'
  <2>1. w = Cardinality(Started) + 1 /\ UNCHANGED <<ring, sock, state, taken>>
    BY <1>5 DEF StartWorker, Started
  <2>2. pc[w] = "none"
    BY <2>1, NextIsNew
  <2>3. \/ pc' = [pc EXCEPT ![w] = "start"]
        \/ \E p \in {"null", "running"} : pc' = [pc EXCEPT ![App] = p]
    BY <1>5 DEF StartWorker
  <2>4. \A v \in Workers : pc'[v] \in Idle => pc[v] \in Idle
    BY <2>2, <2>3 DEF Idle
  <2> QED
    BY <2>1, <2>4, <1>f
<1>6. CASE Accept
  <2>1. PICK c \in Conns :
          /\ state[c] = "backlog"
          /\ UNCHANGED <<ring, taken>>
          /\ \/ /\ state' = [state EXCEPT ![c] = "closed"]
                /\ UNCHANGED <<pc, sock>>
             \/ /\ pc' = [pc EXCEPT ![Master] = "produce"]
                /\ state' = [state EXCEPT ![c] = "open"]
                /\ sock' = [sock EXCEPT ![Master] = c]
    BY <1>6 DEF Accept
  <2>2. InQueue' = InQueue /\ taken' = taken
    BY <2>1, QueueFrame
  <2>3. /\ \A t \in Threads : sock[t] # c
        /\ \A i \in 1..Len(InQueue) : InQueue[i] # c
        /\ \A i \in 1..Len(taken) : taken[i] # c
    BY <2>1, <1>s DEF OwnInv, OneOwner, Waits
  <2>4. sock[Master] = NoSock
    BY <1>6 DEF Accept, RingInv, Holding
  <2> QED
    BY <2>1, <2>2, <2>3, <2>4, <1>s DEF OwnInv, OneOwner, Waits
<1>7. CASE ProduceLock
  BY <1>7, <1>f DEF ProduceLock, Lock, Idle
<1>8. CASE ProduceFull
  BY <1>8, <1>f DEF ProduceFull, QueueFull, Idle
<1>9. CASE ProduceWait
  BY <1>9, <1>f DEF ProduceWait, CondWait, Unlock, Idle
<1>10. CASE ProducePut
  <2>1. /\ UNCHANGED <<state, taken>>
        /\ pc' = [pc EXCEPT ![Master] = "poll"]
        /\ sock' = [sock EXCEPT ![Master] = NoSock]
    BY <1>10 DEF ProducePut
  <2>2. CASE QueueFull
    <3>1. InQueue' = InQueue
      BY <1>10, <2>2, QueueFrame DEF ProducePut
    <3> QED
      BY <2>1, <3>1, <1>s DEF OwnInv, OneOwner, Waits
  <2>3. CASE ~QueueFull
    <3> DEFINE x == sock[Master]
    <3>1. x \in Conns /\ InQueue' = Append(InQueue, x)
      BY <1>10, <2>3, PutAppends
    <3>2. /\ Len(InQueue') = Len(InQueue) + 1
          /\ \A i \in 1..Len(InQueue) : InQueue'[i] = InQueue[i]
          /\ InQueue'[Len(InQueue) + 1] = x
      BY <3>1, <1>s, AppendProperties
    <3>3. state[x] = "open" /\ \A t \in Threads : t # Master => sock[t] # x
      BY <3>1 DEF OwnInv, OneOwner
    <3>4. \A i \in 1..Len(InQueue) : InQueue[i] # x
      BY DEF OwnInv, Waits
    <3> HIDE DEF x
    <3>5. Waits'
      BY <2>1, <3>1, <3>2, <3>3, <3>4, <1>s DEF OwnInv, Waits
    <3> QED
      BY <2>1, <3>5, <1>s DEF OwnInv, OneOwner
  <2> QED
    BY <2>2, <2>3
<1>11. CASE Wake(Master, "produce_asleep", "produce_test")
  BY <1>11, <1>f DEF Wake, Lock, Asleep, Idle
<1>12. CASE CloseListening
  <2>1. UNCHANGED <<ring, sock, taken>> /\ InQueue' = InQueue
    BY <1>12, QueueFrame DEF CloseListening
  <2>2. \A c \in Conns : state'[c] = IF state[c] = "backlog" THEN "refused" ELSE state[c]
    BY <1>12 DEF CloseListening
  <2>3. \A w \in Workers : pc'[w] = pc[w]
    BY <1>12 DEF CloseListening
  <2>4. state' \in [Conns -> {"none", "backlog", "open", "closed", "refused"}]
    BY <1>12 DEF CloseListening, OwnInv
  <2> QED
    BY <2>1, <2>2, <2>3, <2>4, <1>s DEF OwnInv, OneOwner, Waits
<1>13. CASE Broadcast
  BY <1>13, <1>f DEF Broadcast, Idle
<1>14. CASE AwaitWorkers
  BY <1>14, <1>f DEF AwaitWorkers, Asleep, Idle
<1>15. CASE MasterEnds
  BY <1>15, <1>f DEF MasterEnds, Idle
<1>16. ASSUME NEW w \in Workers, WorkerStarts(w) PROVE OwnInv'
  BY <1>16, <1>f DEF WorkerStarts, Idle
<1>17. ASSUME NEW w \in Workers, ConsumeLock(w) PROVE OwnInv'
  BY <1>17, <1>f DEF ConsumeLock, Lock, Idle
<1>18. ASSUME NEW w \in Workers, ConsumeEmpty(w) PROVE OwnInv'
  BY <1>18, <1>f DEF ConsumeEmpty, Idle
<1>19. ASSUME NEW w \in Workers, ConsumeWait(w) PROVE OwnInv'
  BY <1>19, <1>f DEF ConsumeWait, CondWait, Unlock, Idle
<1>20. ASSUME NEW w \in Workers, ConsumeTake(w) PROVE OwnInv'
  <2>1. UNCHANGED state /\ pc' = [pc EXCEPT ![w] = "consume_return"] /\ sock[w] = NoSock
    BY <1>20 DEF ConsumeTake, OwnInv, Idle
  <2>2. CASE ~(sq_head > sq_tail)
    BY <1>20, <2>1, <2>2, <1>f DEF ConsumeTake, Idle
  <2>3. CASE sq_head > sq_tail
    <3> DEFINE x == queue[sq_tail % QUEUE_SIZE]
    <3>1. sock' = [sock EXCEPT ![w] = x] /\ taken' = Append(taken, x)
      BY <1>20, <2>3 DEF ConsumeTake
    <3>2. InQueue # <<>> /\ InQueue' = Tail(InQueue) /\ Head(InQueue) = x /\ x \in Conns
      BY <1>20, <2>3, TakeIsTail
    <3> HIDE DEF x
    <3>3. /\ Len(InQueue) >= 1 /\ InQueue[1] = x /\ Len(InQueue') = Len(InQueue) - 1
          /\ \A i \in 1..Len(InQueue) - 1 : InQueue'[i] = InQueue[i + 1]
      BY <3>2, <1>s, EmptySeq, HeadTailProperties
    <3>4. /\ Len(taken') = Len(taken) + 1 /\ taken'[Len(taken) + 1] = x
          /\ \A i \in 1..Len(taken) : taken'[i] = taken[i]
      BY <3>1, <3>2, <1>s, AppendProperties
    <3>5. /\ state[x] = "open" /\ \A t \in Threads : sock[t] # x
          /\ \A j \in 1..Len(InQueue) : j # 1 => InQueue[j] # x
      <4>1. 1 \in 1..Len(InQueue)
        BY <3>3, <1>s
      <4> QED
        BY <4>1, <3>3 DEF OwnInv, Waits
    <3>6. Waits'
      <4> SUFFICES ASSUME NEW i \in 1..Len(InQueue')
                   PROVE  /\ state'[InQueue'[i]] = "open"
                          /\ \A t \in Threads : sock'[t] # InQueue'[i]
                          /\ \A j \in 1..Len(InQueue') : j # i => InQueue'[j] # InQueue'[i]
        BY DEF Waits
      <4>1. i + 1 \in 1..Len(InQueue) /\ i + 1 # 1 /\ InQueue'[i] = InQueue[i + 1]
        BY <3>3, <1>s
      <4>2. state'[InQueue'[i]] = "open" /\ \A t \in Threads : sock'[t] # InQueue'[i]
        BY <4>1, <2>1, <3>1, <3>5, <1>s DEF OwnInv, Waits
      <4>3. ASSUME NEW j \in 1..Len(InQueue'), j # i PROVE InQueue'[j] # InQueue'[i]
        <5>1. j + 1 \in 1..Len(InQueue) /\ j + 1 # i + 1 /\ InQueue'[j] = InQueue[j + 1]
          BY <4>3, <3>3, <1>s
        <5> QED
          BY <4>1, <5>1 DEF OwnInv, Waits
      <4> QED
        BY <4>2, <4>3
    <3>7. OneOwner'
      BY <2>1, <3>1, <3>2, <3>5, <1>s DEF OwnInv, OneOwner
    <3>8. \A v \in Workers : pc'[v] \in Idle => sock'[v] = NoSock
      BY <2>1, <3>1, <1>s DEF OwnInv, Idle
    <3>9. ASSUME NEW i \in 1..Len(taken')
          PROVE  state'[taken'[i]] = "closed" \/ \E v \in Workers : sock'[v] = taken'[i]
      <4>1. CASE i = Len(taken) + 1
        BY <4>1, <3>1, <3>4, <1>s
      <4>2. CASE i # Len(taken) + 1
        <5>1. i \in 1..Len(taken) /\ taken'[i] = taken[i]
          BY <4>2, <3>4, <1>s
        <5>2. taken[i] \in Conns
          BY <5>1, <1>s
        <5>3. ASSUME NEW v \in Workers, sock[v] = taken[i] PROVE sock'[v] = taken[i]
          BY <5>2, <5>3, <2>1, <3>1, <1>s
        <5> QED
          BY <5>1, <5>3, <2>1 DEF OwnInv
      <4> QED
        BY <4>1, <4>2
    <3> QED
      BY <2>1, <3>6, <3>7, <3>8, <3>9 DEF OwnInv
  <2> QED
    BY <2>2, <2>3
<1>21. ASSUME NEW w \in Workers, ConsumeReturn(w) PROVE OwnInv'
  BY <1>21, <1>f DEF ConsumeReturn, Idle
<1>22. ASSUME NEW w \in Workers, Serve(w) PROVE OwnInv'
  <2>1. /\ UNCHANGED <<ring, taken>>
        /\ pc' = [pc EXCEPT ![w] = "consume"]
        /\ sock' = [sock EXCEPT ![w] = NoSock]
        /\ state' = [state EXCEPT ![sock[w]] = "closed"]
    BY <1>22 DEF Serve
  <2>2. InQueue' = InQueue /\ taken' = taken
    BY <2>1, QueueFrame
  <2>3. \A c \in Conns : state'[c] = IF c = sock[w] THEN "closed" ELSE state[c]
    BY <2>1 DEF OwnInv
  <2>4. \A t \in Threads : sock'[t] = IF t = w THEN NoSock ELSE sock[t]
    BY <2>1, <1>s
  <2>5. state' \in [Conns -> {"none", "backlog", "open", "closed", "refused"}]
    BY <2>1 DEF OwnInv
  <2>6. OneOwner'
    <3> SUFFICES ASSUME NEW t \in Threads, sock'[t] # NoSock
                 PROVE  state'[sock'[t]] = "open" /\ \A u \in Threads \ {t} : sock'[u] # sock'[t]
      BY DEF OneOwner
    <3>1. t # w /\ sock'[t] = sock[t] /\ sock[t] \in Conns
      BY <2>4, <1>s
    <3>2. state[sock[t]] = "open" /\ \A u \in Threads \ {t} : sock[u] # sock[t]
      BY <3>1 DEF OwnInv, OneOwner
    <3> QED
      BY <3>1, <3>2, <2>3, <2>4
  <2>7. Waits'
    BY <2>2, <2>3, <2>4, <1>s DEF OwnInv, Waits
  <2>8. \A v \in Workers : pc'[v] \in Idle => sock'[v] = NoSock
    BY <2>1, <2>4 DEF OwnInv
  <2>9. \A i \in 1..Len(taken) :
          state'[taken[i]] = "closed" \/ \E v \in Workers : sock'[v] = taken[i]
    BY <2>3, <2>4, <1>s DEF OwnInv
  <2> QED
    BY <2>2, <2>5, <2>6, <2>7, <2>8, <2>9 DEF OwnInv
<1>23. ASSUME NEW w \in Workers, WorkerEnds(w) PROVE OwnInv'
  BY <1>23, <1>f DEF WorkerEnds, Signal, Idle
<1>24. ASSUME NEW w \in Workers, Wake(w, "consume_asleep", "consume_test") PROVE OwnInv'
  BY <1>24, <1>f DEF Wake, Lock, Asleep, Idle
<1>25. CASE Stop
  BY <1>25, <1>f DEF Stop, Idle
<1>26. ASSUME NEW c \in Conns, Connect(c) PROVE OwnInv'
  <2>1. UNCHANGED <<ring, pc, sock, taken>> /\ InQueue' = InQueue
    BY <1>26, QueueFrame DEF Connect
  <2>2. state[c] = "none" /\ \A d \in Conns : state'[d] = IF d = c THEN "backlog" ELSE state[d]
    BY <1>26 DEF Connect, OwnInv
  <2>3. state' \in [Conns -> {"none", "backlog", "open", "closed", "refused"}]
    BY <1>26 DEF Connect, OwnInv
  <2> QED
    BY <2>1, <2>2, <2>3, <1>s DEF OwnInv, OneOwner, Waits
<1>27. ASSUME NEW t \in Threads, NEW cv \in CondVars, SpuriousWakeup(t, cv) PROVE OwnInv'
  BY <1>27, <1>f DEF SpuriousWakeup, Idle
<1>28. CASE UNCHANGED vars
  BY <1>28, <1>f DEF vars, Idle
<1>29. CASE WorkersCounted
  BY <1>29, <1>f DEF WorkersCounted, Asleep, Idle
<1>30. CASE JoinWorkers
  BY <1>30, <1>f DEF JoinWorkers, Idle
<1> QED
  BY <1>1, <1>2, <1>3, <1>4, <1>5, <1>6, <1>7, <1>8, <1>9, <1>10, <1>11, <1>12, <1>13, <1>14, <1>15, <1>16, <1>17, <1>18, <1>19, <1>20, <1>21, <1>22, <1>23, <1>24, <1>25, <1>26, <1>27, <1>28, <1>29, <1>30
  DEF Next, AppNext, MasterNext, Worker

-----------------------------------------------------------------------------
(* Types, and the number of workers.                                       *)

Alive == {v \in Workers : pc[v] \notin {"none", "gone"}}

\* The mutex, the sleepers, and the count that the master waits for.
CountInv ==
  /\ thread_mutex \in Threads \cup {Nobody}
  /\ waiting \in [CondVars -> SUBSET Threads]
  /\ running_worker_threads = Cardinality(Alive)

\* Nobody runs at the start.
LEMMA InitCount == Init => CountInv
<1> SUFFICES ASSUME Init PROVE CountInv
  OBVIOUS
<1>1. Alive = {}
  BY ThreadsDiffer DEF Init, Alive
<1> QED
  BY <1>1, FS_EmptySet DEF Init, CountInv

\* A signal wakes at most one sleeper.
LEMMA SignalType ==
  ASSUME NEW cv \in CondVars, waiting \in [CondVars -> SUBSET Threads], Signal(cv)
  PROVE  waiting' \in [CondVars -> SUBSET Threads]
BY DEF Signal

\* Workers are counted when they are created, and count themselves out.
LEMMA KeepsCount == Places /\ InOrder /\ CountInv /\ [Next]_vars => CountInv'
<1> SUFFICES ASSUME Places, InOrder, CountInv, [Next]_vars PROVE CountInv'
  OBVIOUS
<1> USE ThreadsDiffer DEF Places, PcType, CondVars
<1>w. IsFiniteSet(Alive)
  <2>1. IsFiniteSet(Workers)
    BY FS_Interval DEF Workers
  <2> QED
    BY <2>1, FS_Subset DEF Alive
<1>f. ASSUME thread_mutex' \in Threads \cup {Nobody}, waiting' \in [CondVars -> SUBSET Threads],
             running_worker_threads' = running_worker_threads, Alive' = Alive
      PROVE  CountInv'
  BY <1>f DEF CountInv
<1>1. CASE StartFails
  BY <1>1, <1>f DEF StartFails, CountInv, Alive
<1>2. CASE StartMaster
  BY <1>2, <1>f DEF StartMaster, CountInv, Alive
<1>3. CASE StartEnds
  BY <1>3, <1>f DEF StartEnds, CountInv, Alive
<1>4. CASE StopEnds
  BY <1>4, <1>f DEF StopEnds, CountInv, Alive
<1>5. ASSUME NEW w \in Workers, StartWorker(w) PROVE CountInv'
  <2>1. w = Cardinality(Started) + 1 /\ UNCHANGED sync
    BY <1>5 DEF StartWorker, Started
  <2>2. pc[w] = "none"
    BY <2>1, NextIsNew
  <2>3. CASE pc' = [pc EXCEPT ![w] = "start"] /\ running_worker_threads' = running_worker_threads + 1
    <3>1. Alive' = Alive \cup {w} /\ w \notin Alive
      BY <2>2, <2>3 DEF Alive
    <3>2. Cardinality(Alive') = Cardinality(Alive) + 1
      BY <3>1, <1>w, FS_AddElement
    <3> QED
      BY <2>1, <2>3, <3>2 DEF CountInv
  <2>4. CASE /\ \E p \in {"null", "running"} : pc' = [pc EXCEPT ![App] = p]
             /\ UNCHANGED running_worker_threads
    <3>1. Alive' = Alive
      BY <2>4 DEF Alive
    <3> QED
      BY <2>1, <2>4, <3>1 DEF CountInv
  <2> QED
    BY <1>5, <2>3, <2>4 DEF StartWorker
<1>6. CASE Accept
  BY <1>6, <1>f DEF Accept, CountInv, Alive
<1>7. CASE ProduceLock
  BY <1>7, <1>f DEF ProduceLock, Lock, CountInv, Alive
<1>8. CASE ProduceFull
  BY <1>8, <1>f DEF ProduceFull, QueueFull, CountInv, Alive
<1>9. CASE ProduceWait
  BY <1>9, <1>f DEF ProduceWait, CondWait, Unlock, CountInv, Alive
<1>10. CASE ProducePut
  <2>1. Alive' = Alive
    BY <1>10 DEF ProducePut, Alive
  <2>2. /\ thread_mutex' \in Threads \cup {Nobody}
        /\ running_worker_threads' = running_worker_threads
    BY <1>10 DEF ProducePut, CountInv, Unlock
  <2>3. waiting' \in [CondVars -> SUBSET Threads]
    BY <1>10, SignalType DEF ProducePut, CountInv
  <2> QED
    BY <2>1, <2>2, <2>3, <1>f
<1>11. CASE Wake(Master, "produce_asleep", "produce_test")
  BY <1>11, <1>f DEF Wake, Lock, Asleep, CountInv, Alive
<1>12. CASE CloseListening
  BY <1>12, <1>f DEF CloseListening, CountInv, Alive
<1>13. CASE Broadcast
  BY <1>13, <1>f DEF Broadcast, CountInv, Alive
<1>14. CASE AwaitWorkers
  BY <1>14, <1>f DEF AwaitWorkers, Asleep, CountInv, Alive
<1>15. CASE MasterEnds
  BY <1>15, <1>f DEF MasterEnds, CountInv, Alive
<1>16. ASSUME NEW w \in Workers, WorkerStarts(w) PROVE CountInv'
  BY <1>16, <1>f DEF WorkerStarts, CountInv, Alive
<1>17. ASSUME NEW w \in Workers, ConsumeLock(w) PROVE CountInv'
  BY <1>17, <1>f DEF ConsumeLock, Lock, CountInv, Alive
<1>18. ASSUME NEW w \in Workers, ConsumeEmpty(w) PROVE CountInv'
  BY <1>18, <1>f DEF ConsumeEmpty, CountInv, Alive
<1>19. ASSUME NEW w \in Workers, ConsumeWait(w) PROVE CountInv'
  BY <1>19, <1>f DEF ConsumeWait, CondWait, Unlock, CountInv, Alive
<1>20. ASSUME NEW w \in Workers, ConsumeTake(w) PROVE CountInv'
  <2>1. Alive' = Alive
    BY <1>20 DEF ConsumeTake, Alive
  <2>2. /\ thread_mutex' \in Threads \cup {Nobody}
        /\ running_worker_threads' = running_worker_threads
    BY <1>20 DEF ConsumeTake, CountInv, Unlock
  <2>3. waiting' \in [CondVars -> SUBSET Threads]
    BY <1>20, SignalType DEF ConsumeTake, CountInv
  <2> QED
    BY <2>1, <2>2, <2>3, <1>f
<1>21. ASSUME NEW w \in Workers, ConsumeReturn(w) PROVE CountInv'
  BY <1>21, <1>f DEF ConsumeReturn, CountInv, Alive
<1>22. ASSUME NEW w \in Workers, Serve(w) PROVE CountInv'
  BY <1>22, <1>f DEF Serve, CountInv, Alive
<1>23. ASSUME NEW w \in Workers, WorkerEnds(w) PROVE CountInv'
  <2>1. /\ pc[w] \in {"exit", "exit_oom"} /\ pc' = [pc EXCEPT ![w] = "gone"]
        /\ running_worker_threads' = running_worker_threads - 1
        /\ Signal("thread_cond") /\ UNCHANGED thread_mutex
    BY <1>23 DEF WorkerEnds
  <2>2. Alive' = Alive \ {w} /\ w \in Alive
    BY <2>1 DEF Alive
  <2>3. Cardinality(Alive') = Cardinality(Alive) - 1
    BY <2>2, <1>w, FS_RemoveElement
  <2>4. waiting' \in [CondVars -> SUBSET Threads]
    BY <2>1, SignalType DEF CountInv
  <2> QED
    BY <2>1, <2>3, <2>4 DEF CountInv
<1>24. ASSUME NEW w \in Workers, Wake(w, "consume_asleep", "consume_test") PROVE CountInv'
  BY <1>24, <1>f DEF Wake, Lock, Asleep, CountInv, Alive
<1>25. CASE Stop
  BY <1>25, <1>f DEF Stop, CountInv, Alive
<1>26. ASSUME NEW c \in Conns, Connect(c) PROVE CountInv'
  BY <1>26, <1>f DEF Connect, CountInv, Alive
<1>27. ASSUME NEW t \in Threads, NEW cv \in CondVars, SpuriousWakeup(t, cv) PROVE CountInv'
  BY <1>27, <1>f DEF SpuriousWakeup, CountInv, Alive
<1>28. CASE UNCHANGED vars
  BY <1>28, <1>f DEF vars, CountInv, Alive
<1>29. CASE WorkersCounted
  BY <1>29, <1>f DEF WorkersCounted, Asleep, CountInv, Alive
<1>30. CASE JoinWorkers
  BY <1>30, <1>f DEF JoinWorkers, CountInv, Alive
<1> QED
  BY <1>1, <1>2, <1>3, <1>4, <1>5, <1>6, <1>7, <1>8, <1>9, <1>10, <1>11, <1>12, <1>13, <1>14, <1>15, <1>16, <1>17, <1>18, <1>19, <1>20, <1>21, <1>22, <1>23, <1>24, <1>25, <1>26, <1>27, <1>28, <1>29, <1>30
  DEF Next, AppNext, MasterNext, Worker

\* SocketsAccountedFor for any number of workers and connections: a socket is in one pair
\* of hands, open while it is, and only one that nobody has served is left open.
THEOREM SocketsCorrect == Spec => []SocketsAccountedFor
<1> DEFINE Inv == Places /\ RingInv /\ InOrder /\ OwnInv /\ CountInv
<1>1. Init => Inv
  BY InitPlaces, InitRing, InitOwn, InitCount
<1>2. Inv /\ [Next]_vars => Inv'
  BY KeepsPlaces, KeepsRing, KeepsInOrder, KeepsOwn, KeepsCount
<1>3. Inv => SocketsAccountedFor
  <2> SUFFICES ASSUME Inv PROVE SocketsAccountedFor
    OBVIOUS
  <2>1. running_worker_threads \in 0..MaxWorkers
    <3>1. IsFiniteSet(Workers) /\ Cardinality(Workers) = MaxWorkers
      BY FS_Interval DEF Workers
    <3>2. Cardinality(Alive) <= MaxWorkers /\ Cardinality(Alive) \in Nat
      BY <3>1, FS_Subset, FS_CardinalityType DEF Alive
    <3> QED
      BY <3>2 DEF CountInv
  <2>2. TypeOK
    BY <2>1 DEF TypeOK, Places, StopInv, RingInv, OwnInv, CountInv
  <2>3. LeakedOnlyUnserved
    <3>1. DOMAIN taken = 1..Len(taken)
      BY LenProperties DEF RingInv
    <3> QED
      BY <3>1 DEF LeakedOnlyUnserved, OwnInv
  <2> QED
    BY <2>2, <2>3 DEF SocketsAccountedFor, OwnInv
<1> QED
  BY <1>1, <1>2, <1>3, PTL DEF Spec

=============================================================================
