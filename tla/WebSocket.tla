----------------------------- MODULE WebSocket -----------------------------
(***************************************************************************)
(* A websocket of the embedded server (civetweb.c, with USE_WEBSOCKET):    *)
(* the upgrade of a request, the read loop both ends run, the frames that  *)
(* several threads of an end write, and how the two ends close.            *)
(*                                                                         *)
(* A byte of a payload, a mask or a length has BASE values, so that a      *)
(* payload short enough to check takes each of the three length formats:   *)
(* LEN16 stands for 126, BASE^2 - 1 for 0xFFFF.                            *)
(***************************************************************************)
EXTENDS Integers, FiniteSets, SequencesExt

CONSTANTS
  Requests,    \* what the client asks: see handle_websocket_request
  Writers,     \* the threads that write, the server's worker among them
  EndOf(_),    \* the end a thread belongs to
  Loads,       \* what the threads have to write: a sequence of frames each
  Keys,        \* what get_random returns, four bytes each
  LEN16,       \* 126
  MEM,         \* sizeof(mem): longer payloads are allocated
  ROOM,        \* what is left of the buffer after the request
  ReadSizes,   \* how many bytes a recv returns, when so many are there
  MaxShort     \* how many writes time out

Ends == {"server", "client"}
Other(e) == IF e = "server" THEN "client" ELSE "server"
BASE == 2
Place == <<1, 2, 4, 8, 16, 32, 64, 128, 256>>   \* BASE ^ 0 to BASE ^ 8
CLOSE == 8
NoKey == <<0, 0, 0, 0>>
NoAnswer == 0
Idle == [at |-> "idle", key |-> NoKey]
Nobody == "nobody"

VARIABLES
  request,   \* the client's request
  state,     \* where the thread that reads is, at each end
  net,       \* the bytes on their way to each end, the reply's status first
  eof,       \* the other end has closed its socket
  buf,       \* the queue behind the request, at each end
  frame,     \* the frame being read, at each end
  got,       \* the messages handed to the data handler of each end
  load,      \* what the threads have to write, of Loads
  todo,      \* the frames each thread has still to write
  write,     \* where each thread is in mg_websocket_write_exec
  lock,      \* the thread that holds the connection of each end
  sent,      \* the messages written at each end, in the order of their headers
  stop,      \* the stop flag of each end's context
  short,     \* the ends to which a write was cut short by a timeout
  close      \* the client's mg_close_connection

vars == <<request, load, state, net, eof, buf, frame, got, todo, write, lock, sent, stop, short, close>>
opening == <<request, load>>
reading == <<buf, frame, got>>
writing == <<todo, write, lock, sent, short>>

Worker == "worker"   \* the server's own thread
Messages == {m \in [op : 0..15, data : Seq(0 .. BASE - 1)] : Len(m.data) < Place[9]}

\* A header line is there or not; an opcode has four bits, a length at most eight bytes and a mask
\* four; 126 and 127 are lengths of seven bits.
ASSUME SocketAssumption ==
  /\ Requests \subseteq [upgrade : BOOLEAN, connection : BOOLEAN, version13 : BOOLEAN,
                         key : {"none", "hixie", "rfc", "long"},
                         resource : BOOLEAN, refused : BOOLEAN]
  /\ Worker \in Writers /\ Nobody \notin Writers
  /\ \A t \in Writers : EndOf(t) \in Ends
  /\ Loads \subseteq [Writers -> Seq(Messages)]
  /\ Keys \subseteq [1..4 -> 0 .. BASE - 1]
  /\ LEN16 \in 0..126 /\ ReadSizes \subseteq Nat

NoFrame == [op |-> 0, mask |-> NoKey, data |-> <<>>, len |-> 0]

-----------------------------------------------------------------------------
(* A frame: RFC 6455, 5.2.                                                 *)

Digits(n, count) == [i \in 1..count |-> (n \div Place[count - i + 1]) % BASE]

\* The number in two bytes of the queue, from the i-th on, and that in four.
ntohs(q, i) == BASE * (q[i] % BASE) + (q[i + 1] % BASE)
ntohl(q, i) == Place[3] * ntohs(q, i) + ntohs(q, i + 2)

\* mask_data, and the unmasking of read_websocket: the i-th byte with the (i & 3)-th of the
\* key; a byte is a bit.
mask_data(data, key) == [i \in DOMAIN data |-> (data[i] + key[((i - 1) % 4) + 1]) % BASE]

\* The header mg_websocket_write_exec builds.
Header(op, len, key) ==
  LET masked == IF key # NoKey THEN 128 ELSE 0
      length == IF len < LEN16 THEN <<masked + len>>
                ELSE IF len < Place[3] THEN <<masked + LEN16>> \o Digits(len, 2)
                ELSE <<masked + LEN16 + 1>> \o Digits(len, 8)
  IN <<128 + op>> \o length \o (IF key # NoKey THEN key ELSE <<>>)

\* What the reader makes of the head of its queue; header = 0 until enough of it is there.
Parsed(q) ==
  LET len == q[2] % 128
      mask == IF q[2] >= 128 THEN 4 ELSE 0
  IN IF Len(q) < 2 THEN [header |-> 0, mask |-> 0, data |-> 0]
     ELSE IF len < LEN16 /\ Len(q) >= mask
       THEN [header |-> 2 + mask, mask |-> mask, data |-> len]
     ELSE IF len = LEN16 /\ Len(q) >= 4 + mask
       THEN [header |-> 4 + mask, mask |-> mask, data |-> ntohs(q, 3)]
     ELSE IF Len(q) >= 10 + mask
       THEN [header |-> 10 + mask, mask |-> mask, data |-> Place[5] * ntohl(q, 3) + ntohl(q, 7)]
     ELSE [header |-> 0, mask |-> mask, data |-> 0]

Complete(q) == Parsed(q).header > 0 /\ Len(q) >= Parsed(q).header

-----------------------------------------------------------------------------
Init ==
  /\ request \in Requests
  /\ state = [e \in Ends |-> "opening"]
  /\ net = [e \in Ends |-> <<>>]
  /\ eof = [e \in Ends |-> FALSE]
  /\ buf = [e \in Ends |-> <<>>]
  /\ frame = [e \in Ends |-> NoFrame]
  /\ got = [e \in Ends |-> <<>>]
  /\ load \in Loads /\ todo = load
  /\ write = [t \in Writers |-> Idle]
  /\ lock = [e \in Ends |-> Nobody]
  /\ sent = [e \in Ends |-> <<>>]
  /\ stop = [e \in Ends |-> FALSE]
  /\ short = {}
  /\ close = "no"

Goto(e, s) == state' = [state EXCEPT ![e] = s]

\* The socket of an end is closed: its peer reads to the end of what was sent.
Shut(e) == eof' = [eof EXCEPT ![Other(e)] = TRUE]

(***************************************************************************)
(* The upgrade.                                                            *)
(***************************************************************************)
is_websocket_protocol(q) == q.upgrade /\ q.connection

\* The answer; 101 is followed by the read loop; a connect handler's refusal
\* has none.
handle_websocket_request(q) ==
  CASE q.key = "none"  -> 400
    [] q.key = "hixie" -> 426
    [] q.key \in {"rfc", "long"} /\ ~q.version13 -> 426
    [] q.key \in {"rfc", "long"} /\ q.version13 /\ ~q.resource -> 404
    [] q.version13 /\ q.resource /\ q.refused -> NoAnswer
    [] q.key = "rfc"  /\ q.version13 /\ q.resource /\ ~q.refused -> 101
    [] q.key = "long" /\ q.version13 /\ q.resource /\ ~q.refused -> 500

\* Anything but an accepted upgrade ends with the connection, as far as websockets go.
Upgrade ==
  LET answer == IF is_websocket_protocol(request) THEN handle_websocket_request(request) ELSE 200
  IN /\ state["server"] = "opening"
     /\ net' = [net EXCEPT !["client"] = IF answer = NoAnswer THEN @ ELSE Append(@, answer)]
     /\ Goto("server", IF answer = 101 THEN "reading" ELSE "closing")
     /\ UNCHANGED <<opening, eof, reading, writing, stop, close>>

\* mg_download has read the reply, and perhaps frames behind it; a client that gets no 101 frees
\* its connection and leaves the socket open.
Connected ==
  /\ state["client"] = "opening"
  /\ \/ /\ net["client"] # <<>>
        /\ \E n \in {0} \cup ReadSizes :
             /\ n < Len(net["client"])
             /\ IF Head(net["client"]) = 101
                  THEN /\ buf' = [buf EXCEPT !["client"] = SubSeq(net["client"], 2, 1 + n)]
                       /\ Goto("client", "reading")
                  ELSE n = 0 /\ Goto("client", "gone") /\ UNCHANGED buf
             /\ net' = [net EXCEPT !["client"] = SubSeq(@, 2 + n, Len(@))]
     \/ /\ net["client"] = <<>> /\ eof["client"]
        /\ Goto("client", "gone")
        /\ UNCHANGED <<buf, net>>
  /\ UNCHANGED <<opening, eof, frame, got, writing, stop, close>>

\* mg_start_thread fails: everything is freed, the socket stays open.
ClientStartFails ==
  /\ state["client"] = "reading" /\ got["client"] = <<>> /\ close = "no"
  /\ \A t \in Writers : EndOf(t) = "client" => todo[t] = load[t] /\ write[t] = Idle
  /\ Goto("client", "gone")
  /\ UNCHANGED <<opening, net, eof, reading, writing, stop, close>>

(***************************************************************************)
(* The read loop.                                                          *)
(***************************************************************************)
\* pull moves the next bytes into the queue, as far as it has room.
Pull(e) ==
  /\ state[e] = "reading" /\ ~stop[e]
  /\ ~Complete(buf[e])
  /\ \E n \in ReadSizes :
       /\ n <= Len(net[e]) /\ Len(buf[e]) + n <= ROOM
       /\ buf' = [buf EXCEPT ![e] = @ \o SubSeq(net[e], 1, n)]
       /\ net' = [net EXCEPT ![e] = SubSeq(@, n + 1, Len(@))]
  /\ UNCHANGED <<opening, state, eof, frame, got, writing, stop, close>>

\* The frame whose header is complete, with as much of its payload as the queue holds.
Take(e) ==
  LET p == Parsed(buf[e])
      have == SubSeq(buf[e], p.header + 1, Min({p.header + p.data, Len(buf[e])}))
  IN /\ state[e] = "reading" /\ ~stop[e]
     /\ Complete(buf[e])
     /\ frame' = [frame EXCEPT ![e] =
          [op |-> buf[e][1] % 16, len |-> p.data, data |-> have,
           mask |-> IF p.mask = 0 THEN NoKey
                    ELSE SubSeq(buf[e], p.header - p.mask + 1, p.header)]]
     /\ buf' = [buf EXCEPT ![e] = SubSeq(@, p.header + p.data + 1, Len(@))]
     /\ Goto(e, IF Len(have) < p.data THEN "pulling" ELSE "calling")
     /\ UNCHANGED <<opening, net, eof, got, writing, stop, close>>

\* A payload longer than mem for which there is no memory ends the loop.
OutOfMemory(e) ==
  /\ state[e] = "reading" /\ ~stop[e]
  /\ Complete(buf[e]) /\ Parsed(buf[e]).data > MEM
  /\ Goto(e, "left")
  /\ UNCHANGED <<opening, net, eof, reading, writing, stop, close>>

\* The rest of a payload is pulled behind what there is, never past its end.
PullData(e) ==
  LET missing == frame[e].len - Len(frame[e].data)
  IN /\ state[e] = "pulling" /\ ~stop[e]
     /\ \E n \in ReadSizes :
          /\ n <= Len(net[e]) /\ n <= missing
          /\ frame' = [frame EXCEPT ![e].data = @ \o SubSeq(net[e], 1, n)]
          /\ net' = [net EXCEPT ![e] = SubSeq(@, n + 1, Len(@))]
          /\ Goto(e, IF n = missing THEN "calling" ELSE "pulling")
     /\ UNCHANGED <<opening, eof, buf, got, writing, stop, close>>

\* pull fails: the peer has closed, the server's timeout has passed, or the context stops; recv
\* may sleep on after the stop flag is set.
PullFails(e) ==
  /\ state[e] \in {"reading", "pulling"}
  /\ \/ stop[e]
     \/ /\ state[e] = "reading" => ~Complete(buf[e])
        /\ net[e] = <<>> /\ (eof[e] \/ e = "server")
  /\ Goto(e, "left")
  /\ UNCHANGED <<opening, net, eof, reading, writing, stop, close>>

\* The data handler takes the message, and keeps the connection or not; the server's answers a
\* text with the same text.
Callback(e) ==
  LET message == [op |-> frame[e].op, data |-> mask_data(frame[e].data, frame[e].mask)]
      answers == e = "server" /\ message.op = 1
  IN /\ state[e] = "calling" /\ write[Worker] = Idle
     /\ e = "server" => todo[Worker] = <<>>
     /\ got' = [got EXCEPT ![e] = Append(@, message)]
     /\ todo' = [todo EXCEPT ![Worker] = IF answers THEN <<message>> ELSE @]
     /\ Goto(e, IF answers THEN "answering" ELSE IF message.op = CLOSE THEN "left" ELSE "reading")
     /\ UNCHANGED <<opening, net, eof, buf, frame, write, lock, sent, short, stop, close>>

HandlerReturns ==
  /\ state["server"] = "answering" /\ todo[Worker] = <<>> /\ write[Worker] = Idle
  /\ \E keep \in BOOLEAN : Goto("server", IF keep THEN "reading" ELSE "left")
  /\ UNCHANGED <<opening, net, eof, reading, writing, stop, close>>

\* The close handler: the threads that write for the application stop.
CloseHandler(e) ==
  /\ state[e] = "left"
  /\ Goto(e, "closing")
  /\ todo' = [t \in Writers |-> IF EndOf(t) # e THEN todo[t]
                              ELSE IF write[t] = Idle THEN <<>> ELSE <<Head(todo[t])>>]
  /\ UNCHANGED <<opening, net, eof, reading, write, lock, sent, short, stop, close>>

\* Slip: the server does not close the socket.
Closes_NoShutdown(e) ==
  /\ state[e] = "closing"
  /\ e = "server" => lock[e] = Nobody
  /\ Goto(e, "closed")
  /\ UNCHANGED eof
  /\ UNCHANGED <<opening, net, reading, writing, stop, close>>

\* The server's worker closes the connection, when nobody is writing; the client's thread ends.
Closes(e) ==
  /\ state[e] = "closing"
  /\ e = "server" => lock[e] = Nobody
  /\ Goto(e, "closed")
  /\ IF e = "server" THEN Shut(e) ELSE UNCHANGED eof
  /\ UNCHANGED <<opening, net, reading, writing, stop, close>>

(***************************************************************************)
(* Writing: the header and the data under the connection's lock.           *)
(***************************************************************************)
Open(e) == state[e] \in {"reading", "pulling", "calling", "answering", "left"}

\* A write puts its bytes on the net, all of them, or fewer when it times out, or none when the
\* peer or this end has closed.
Put(t, bytes, n) ==
  LET e == EndOf(t)
      gone == eof[e] \/ eof[Other(e)]
  IN /\ n < Len(bytes) => gone \/ Cardinality(short) < MaxShort
     /\ gone => n = 0
     /\ net' = [net EXCEPT ![Other(e)] = @ \o SubSeq(bytes, 1, n)]
     /\ short' = IF n < Len(bytes) THEN short \cup {Other(e)} ELSE short

\* None of the bytes, half of them, or all.
Part(bytes) == {0, Len(bytes) \div 2, Len(bytes)}

\* Slip: the connection is not locked against the other threads.
WriteLock_NoLock(t) ==
  /\ write[t] = Idle /\ todo[t] # <<>> /\ Open(EndOf(t))
  /\ lock' = [lock EXCEPT ![EndOf(t)] = t]
  /\ write' = [write EXCEPT ![t].at = "header"]
  /\ UNCHANGED <<opening, state, net, eof, reading, todo, sent, short, stop, close>>

WriteLock(t) ==
  /\ write[t] = Idle /\ todo[t] # <<>> /\ Open(EndOf(t)) /\ lock[EndOf(t)] = Nobody
  /\ lock' = [lock EXCEPT ![EndOf(t)] = t]
  /\ write' = [write EXCEPT ![t].at = "header"]
  /\ UNCHANGED <<opening, state, net, eof, reading, todo, sent, short, stop, close>>

\* The client masks its data under a random key, which may be 0; the header fixes the key.
WriteHeader(t) ==
  LET e == EndOf(t) IN
  /\ write[t].at = "header"
  /\ \E key \in IF e = "client" THEN Keys ELSE {NoKey} :
       LET bytes == Header(Head(todo[t]).op, Len(Head(todo[t]).data), key)
       IN /\ \E n \in Part(bytes) : Put(t, bytes, n)
          /\ write' = [write EXCEPT ![t] = [at |-> "data", key |-> key]]
  /\ sent' = [sent EXCEPT ![e] = Append(@, Head(todo[t]))]
  /\ UNCHANGED <<opening, state, eof, reading, todo, lock, stop, close>>

WriteData(t) ==
  /\ write[t].at = "data"
  /\ LET bytes == mask_data(Head(todo[t]).data, write[t].key)
     IN \E n \in Part(bytes) : Put(t, bytes, n)
  /\ write' = [write EXCEPT ![t] = Idle]
  /\ todo' = [todo EXCEPT ![t] = Tail(@)]
  /\ lock' = [lock EXCEPT ![EndOf(t)] = Nobody]
  /\ UNCHANGED <<opening, state, eof, reading, sent, stop, close>>

(***************************************************************************)
(* Closing.                                                                *)
(***************************************************************************)
\* mg_close_connection of the client: the stop flag, the socket under the lock, the thread joined.
ClientCloses ==
  /\ close = "no" /\ state["client"] \notin {"opening", "gone"}
  /\ stop' = [stop EXCEPT !["client"] = TRUE]
  /\ close' = "locking"
  /\ UNCHANGED <<opening, state, net, eof, reading, writing>>

ClientShuts ==
  /\ close = "locking" /\ lock["client"] = Nobody
  /\ Shut("client")
  /\ close' = "joining"
  /\ UNCHANGED <<opening, state, net, reading, writing, stop>>

ClientJoins ==
  /\ close = "joining" /\ state["client"] = "closed"
  /\ close' = "done"
  /\ UNCHANGED <<opening, state, net, eof, reading, writing, stop>>

\* mg_stop of the server.
ServerStops ==
  /\ ~stop["server"] /\ state["server"] # "closed"
  /\ stop' = [stop EXCEPT !["server"] = TRUE]
  /\ UNCHANGED <<opening, state, net, eof, reading, writing, close>>

-----------------------------------------------------------------------------
Reader(e) ==
  Pull(e) \/ Take(e) \/ OutOfMemory(e) \/ PullData(e) \/ PullFails(e) \/ Callback(e)
    \/ CloseHandler(e) \/ Closes(e)
ServerThread == Upgrade \/ HandlerReturns \/ Reader("server")
Writer(t) == WriteLock(t) \/ WriteHeader(t) \/ WriteData(t)
Closing == ClientShuts \/ ClientJoins

Next ==
  \/ ServerThread \/ Connected \/ ClientStartFails \/ Reader("client")
  \/ \E t \in Writers : Writer(t)
  \/ ClientCloses \/ Closing \/ ServerStops

\* recv of the client's thread returns, or the thread is not in recv. Nothing wakes it when only
\* its own stop flag is set.
ClientAwake == eof["client"] \/ net["client"] # <<>> \/ state["client"] \notin {"reading", "pulling"}

\* The threads run on; the server's recv returns in time even when nothing comes.
Fairness ==
  /\ WF_vars(ServerThread) /\ WF_vars(Reader("client") /\ ClientAwake)
  /\ \A t \in Writers : WF_vars(Writer(t))
  /\ WF_vars(Closing)

Spec == Init /\ [][Next]_vars /\ Fairness

-----------------------------------------------------------------------------
\* However recv cuts the bytes, and whichever threads write at once, the messages an end hands
\* to its data handler are those its peer wrote, in the order of their headers, whole and
\* unmasked; only after a write that timed out may anything else arrive.
MessagesAsSent ==
  \A e \in Ends : e \notin short => IsPrefix(got[e], sent[Other(e)])

\* A client that closes gets its thread joined, though nothing but the server's end of the
\* connection wakes that thread: the server reads to the end, closes, and recv returns.
CloseReturns == close = "locking" ~> close = "done"
=============================================================================
