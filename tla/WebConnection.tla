--------------------------- MODULE WebConnection ---------------------------
(***************************************************************************)
(* One worker of the embedded web server and the connections it serves,    *)
(* one after the other: how the bytes of the client become requests and    *)
(* the bodies that handlers read (civetweb.c: read_request, getreq,        *)
(* process_new_connection, mg_read and what they call).  The struct        *)
(* mg_connection is the worker's and outlives each connection.             *)
(*                                                                         *)
(* A byte is a record: k is what it is, r the request of the client that   *)
(* it belongs to, n its number or, of a chunk's size line, the size.  The  *)
(* head of a message is "head" bytes and one "end" byte, its empty line.   *)
(***************************************************************************)
EXTENDS Integers, Sequences, SequencesExt

CONSTANTS
  Clients,            \* what clients send: sequences of connections
  MAX_REQUEST_SIZE,   \* the size of the buffer
  INT64_MAX,          \* the largest content_len
  ReadSizes,          \* the sizes a handler passes to mg_read
  MaxReads,           \* bound: how often a handler calls mg_read
  KeepAlive           \* the option enable_keep_alive

VARIABLES
  todo,     \* the connections to come, each [reqs, pipelined]
  client,   \* the present one, with the number of its requests sent
  pc,
  conn,     \* struct mg_connection and the bytes on their way to it
  got,      \* what mg_read has given for the present request
  reads,    \* how often the handler has called it
  refused,  \* it has returned an error for the present request
  parsed,   \* history: the requests recognized on this connection
  answers,  \* history: the answers sent on this connection
  cause     \* history: what may have parted server and client on it

vars == <<todo, client, pc, conn, got, reads, refused, parsed, answers, cause>>

MinOf(a, b) == IF a < b THEN a ELSE b

-----------------------------------------------------------------------------
(* What a client sends for its r-th request                                *)

Byte(k, r, n) == [k |-> k, r |-> r, n |-> n]
Run(k, r, len) == [i \in 1..len |-> Byte(k, r, i)]
CrLf(r) == <<Byte("cr", r, 0), Byte("lf", r, 0)>>
Chunk(r, data) == <<Byte("size", r, Len(data))>> \o CrLf(r) \o data
                    \o (IF data = <<>> THEN <<>> ELSE CrLf(r))

\* A chunked body comes in chunks of q.chunk bytes.
Body(q, r) ==
  LET data == Run("body", r, q.body)
      piece(i) == SubSeq(data, (i - 1) * q.chunk + 1, i * q.chunk)
  IN IF q.length # "chunked" THEN data
     ELSE FlattenSeq([i \in 1..q.body \div q.chunk |-> Chunk(r, piece(i))])
            \o Chunk(r, <<>>) \o CrLf(r)
Message(q, r) == Run(IF q.uri = "malformed" THEN "bad" ELSE "head", r, q.head) \o <<Byte("end", r, 0)>> \o Body(q, r)

Idle == [net |-> <<>>, buf |-> <<>>, request_len |-> 0, content_len |-> 0,
         consumed |-> 0, is_chunked |-> 0, chunk_remainder |-> 0, must_close |-> FALSE,
         late |-> FALSE]

Init ==
  /\ todo \in Clients
  /\ client = [reqs |-> <<>>, pipelined |-> FALSE, sent |-> 0]
  /\ pc = "idle" /\ conn = Idle
  /\ got = <<>> /\ reads = 0 /\ refused = FALSE
  /\ parsed = <<>> /\ answers = 0 /\ cause = {}

\* worker_thread_run takes the next connection: only data_len is reset.
NextConnection ==
  /\ pc = "idle" /\ todo # <<>>
  /\ pc' = "getreq"
  /\ client' = [reqs |-> Head(todo).reqs, pipelined |-> Head(todo).pipelined, sent |-> 0]
  /\ todo' = Tail(todo)
  /\ conn' = [conn EXCEPT !.buf = <<>>, !.net = <<>>]
  /\ parsed' = <<>> /\ answers' = 0 /\ cause' = {}
  /\ UNCHANGED <<got, reads, refused>>

\* A client sends a request when the one before is answered, or without waiting.
ClientSends ==
  /\ pc # "idle" /\ client.sent < Len(client.reqs)
  /\ client.pipelined \/ answers = client.sent
  /\ client' = [client EXCEPT !.sent = @ + 1]
  /\ conn' = [conn EXCEPT !.net =
                @ \o Message(client.reqs[client.sent + 1], client.sent + 1)]
  /\ cause' = IF client.sent > answers THEN cause \cup {"pipelined"} ELSE cause
  /\ UNCHANGED <<todo, pc, got, reads, refused, parsed, answers>>

-----------------------------------------------------------------------------
(* read_request and getreq                                                 *)

\* get_request_len: up to the first empty line; 0 without one, -1 when malformed.
get_request_len(buf) ==
  LET ends == {i \in DOMAIN buf : buf[i].k = "end"}
      bad == {i \in DOMAIN buf : buf[i].k = "bad"}
      first == CHOOSE i \in ends : \A j \in ends : i <= j
  IN IF bad # {} THEN -1 ELSE IF ends = {} THEN 0 ELSE first

\* The buffer when read_request returns: it has read on up to an end of message,
\* and maybe beyond, or filled the buffer; or it has given up before.
Received ==
  {[buf |-> SubSeq(conn.net, 1, k), net |-> SubSeq(conn.net, k + 1, Len(conn.net))] :
     k \in 0..MinOf(MAX_REQUEST_SIZE, Len(conn.net))}
Complete(buf) == get_request_len(buf) # 0 \/ Len(buf) = MAX_REQUEST_SIZE

\* parse_http_message: white space in front is ignored.
Request(buf) ==
  LET len == get_request_len(buf)
      blank(b) == b.k \in {"cr", "lf"}
      words == SelectSeq(SubSeq(buf, 1, len), LAMBDA b : ~blank(b))
      whole(r) == words = Run("head", r, client.reqs[r].head) \o <<Byte("end", r, 0)>>
                  /\ \A i \in 1..len - Len(words) : blank(buf[i])
  IN IF \E r \in 1..client.sent : whole(r)
     THEN CHOOSE r \in 1..client.sent : whole(r) ELSE 0

\* Slip: what was consumed of the last body is not forgotten.
ResetAttributes_KeepsRemainder(c) ==
  [c EXCEPT !.is_chunked = 0, !.must_close = FALSE,
            !.request_len = 0, !.chunk_remainder = 0, !.late = FALSE, !.buf = <<>>]

\* reset_per_request_attributes leaves content_len alone, and drops what
\* process_new_connection has kept in the buffer.
ResetAttributes(c) ==
  [c EXCEPT !.consumed = 0, !.is_chunked = 0, !.must_close = FALSE,
            !.request_len = 0, !.chunk_remainder = 0, !.late = FALSE, !.buf = <<>>]

ContentLen(q, c) ==
  CASE q.length = "given" -> [c EXCEPT !.content_len = q.body]
    [] q.length = "chunked" -> [c EXCEPT !.is_chunked = 1]
    [] q.length = "none" -> [c EXCEPT !.content_len = IF q.post THEN -1 ELSE 0]

NewRequest == got' = <<>> /\ reads' = 0 /\ refused' = FALSE

\* A request is recognized; a version or a URI that will not do is answered with an
\* error, and one that is not for this server with nothing.
GetRequest ==
  /\ pc = "getreq"
  /\ \E m \in Received :
       LET len == get_request_len(m.buf)
           r == Request(m.buf)
           q == client.reqs[r]
           c == ContentLen(q, [ResetAttributes(conn) EXCEPT
                                 !.buf = m.buf, !.net = m.net, !.request_len = len])
       IN /\ Complete(m.buf) /\ len > 0 /\ r > 0
          /\ parsed' = Append(parsed, r)
          /\ NewRequest
          /\ IF q.uri = "local"
             THEN /\ conn' = c /\ pc' = "handle"
                  /\ cause' = IF c.is_chunked = 1 /\ c.content_len \notin 0..INT64_MAX - 1
                              THEN cause \cup {"stale"} ELSE cause
                  /\ UNCHANGED answers
             ELSE /\ conn' = [c EXCEPT !.must_close = TRUE] /\ pc' = "finish"
                  /\ answers' = answers + (IF q.uri = "invalid" THEN 1 ELSE 0)
                  /\ UNCHANGED cause
  /\ UNCHANGED <<todo, client>>

\* Too large, malformed, or cut off: an error; silence from the client: none.
GetNoRequest ==
  /\ pc = "getreq"
  /\ \E m \in Received :
       /\ Complete(m.buf) => get_request_len(m.buf) <= 0 \/ Request(m.buf) = 0
       /\ conn' = [ResetAttributes(conn) EXCEPT
                     !.buf = m.buf, !.net = m.net, !.must_close = TRUE,
                     !.request_len = IF Complete(m.buf) THEN get_request_len(m.buf) ELSE -1]
       /\ answers' = answers + (IF m.buf = <<>> THEN 0 ELSE 1)
       /\ parsed' = IF Complete(m.buf) THEN Append(parsed, 0) ELSE parsed
  /\ pc' = "finish"
  /\ NewRequest
  /\ UNCHANGED <<todo, client, cause>>

-----------------------------------------------------------------------------
(* mg_read: sets of results [data, ret, conn], for the time-outs of pull   *)

ReadInner(c0, len) ==
  LET c == IF c0.consumed = 0 /\ c0.content_len = -1
           THEN [c0 EXCEPT !.content_len = INT64_MAX, !.must_close = TRUE] ELSE c0
      len64 == MinOf(len, c.content_len - c.consumed)
      from == c.request_len + c.consumed
      buffered == IF Len(c.buf) > from THEN MinOf(len64, Len(c.buf) - from) ELSE 0
      want == len64 - buffered
      result(n) ==
        [data |-> SubSeq(c.buf, from + 1, from + buffered) \o SubSeq(c.net, 1, n),
         ret |-> IF buffered + n = 0 /\ want > 0 THEN -1 ELSE buffered + n,
         conn |-> [c EXCEPT !.consumed = @ + buffered + n,
                            !.net = SubSeq(@, n + 1, Len(@)), !.late = @ \/ n < want]]
  IN IF c.consumed >= c.content_len THEN {[data |-> <<>>, ret |-> 0, conn |-> c]}
     ELSE {result(n) : n \in 0..MinOf(want, Len(c.net))}

\* content_len is an int64_t.
Longer(c, n) ==
  [c EXCEPT !.content_len = IF @ + n > INT64_MAX THEN @ + n - 2 * (INT64_MAX + 1) ELSE @ + n]

Nothing == Byte("nul", 0, 0)
mg_getc(c) ==
  {[c |-> IF x.ret <= 0 THEN Nothing ELSE x.data[1], conn |-> x.conn] :
     x \in ReadInner(Longer(c, 1), 1)}

\* Calls of mg_getc until one does not give the kind that is due.
Chars(c, kinds) ==
  FoldLeft(LAMBDA acc, k :
             UNION {IF ~a.ok THEN {a}
                    ELSE {[ok |-> x.c.k = k, s |-> Append(a.s, x.c), conn |-> x.conn] :
                            x \in mg_getc(a.conn)} : a \in acc},
           {[ok |-> TRUE, s |-> <<>>, conn |-> c]}, kinds)

\* One round of mg_read's loop over chunks: data of the present chunk, with the CRLF
\* when none is left, or the line with the size of the next.  What is due is taken
\* off chunk_remainder whether or not it came.
Round(a) ==
  LET c == a.conn
      now == MinOf(c.chunk_remainder, a.left)
      less(x) == [a EXCEPT !.left = @ - now, !.ret = @ + x.ret, !.data = @ \o x.data,
                           !.conn = [x.conn EXCEPT !.chunk_remainder = @ - now]]
      stop(s, ret, conn_) == [s EXCEPT !.left = 0, !.ret = ret, !.conn = conn_]
      read(x) ==
        IF less(x).conn.chunk_remainder > 0 THEN {less(x)}
        ELSE {IF y.ok THEN [less(x) EXCEPT !.conn = y.conn] ELSE stop(less(x), -1, y.conn) :
                y \in Chars(less(x).conn, <<"cr", "lf">>)}
      size(x) ==
        IF ~x.ok THEN stop(a, -1, x.conn)
        ELSE IF x.s[1].n = 0 THEN stop(a, a.ret, [x.conn EXCEPT !.is_chunked = 2])
        ELSE [a EXCEPT !.conn = [x.conn EXCEPT !.chunk_remainder = x.s[1].n]]
  IN IF a.left = 0 THEN {a}
     ELSE IF c.is_chunked = 2 THEN {stop(a, 0, c)}
     ELSE IF c.chunk_remainder > 0
          THEN UNION {read(x) : x \in ReadInner(Longer(c, now), now)}
     ELSE {size(x) : x \in Chars(c, <<"size", "cr", "lf">>)}

ReadChunked(c, len) ==
  FoldLeft(LAMBDA acc, i : UNION {Round(a) : a \in acc},
           {[left |-> len, ret |-> 0, data |-> <<>>, conn |-> c]},
           [i \in 1..2 * len + 1 |-> i])

mg_read(c, len) == IF c.is_chunked > 0 THEN ReadChunked(c, len) ELSE ReadInner(c, len)

-----------------------------------------------------------------------------
(* handle_request, and the rest of process_new_connection                  *)

\* The bytes of the present request's body that have not been taken.
Owed(c, r) ==
  \E i \in DOMAIN c.net : c.net[i].r = r /\ c.net[i].k \in {"size", "body"}

\* A handler calls mg_read.
HandlerReads ==
  /\ pc = "handle" /\ reads < MaxReads /\ ~refused
  /\ \E len \in ReadSizes : \E x \in mg_read(conn, len) :
       /\ conn' = x.conn
       /\ got' = IF x.ret > 0 THEN got \o SubSeq(x.data, 1, MinOf(x.ret, Len(x.data)))
                 ELSE got
       /\ refused' = (x.ret < 0)
       /\ cause' = IF x.conn.late THEN cause \cup {"timeout"} ELSE cause
  /\ reads' = reads + 1
  /\ UNCHANGED <<todo, client, pc, parsed, answers>>

\* It has answered.  An error of the server's own ends the connection; after a
\* registered handler what was not read is discarded, after begin_request it is not.
HandlerReturns ==
  /\ pc = "handle"
  /\ \E next \in {"discard", "finish"}, error \in BOOLEAN :
       /\ pc' = next
       /\ conn' = [conn EXCEPT !.must_close = @ \/ error]
  /\ answers' = answers + 1
  /\ UNCHANGED <<todo, client, got, reads, refused, parsed, cause>>

Unread(c) ==
  \/ c.is_chunked = 1
  \/ c.is_chunked = 0 /\ c.consumed < c.content_len

\* discard_unread_request_data: until the end of the body, or an error.
Discard ==
  /\ pc = "discard"
  /\ \/ /\ Unread(conn)
        /\ \E x \in mg_read(conn, MinOf(2, IF conn.is_chunked = 1 THEN 2
                                           ELSE conn.content_len - conn.consumed)) :
             /\ conn' = x.conn
             /\ pc' = IF x.ret <= 0 THEN "finish" ELSE "discard"
             /\ cause' = IF x.conn.late THEN cause \cup {"timeout"} ELSE cause
     \/ /\ ~Unread(conn)
        /\ pc' = "finish" /\ UNCHANGED <<conn, cause>>
  /\ UNCHANGED <<todo, client, got, reads, refused, parsed, answers>>

\* What belongs to this request is discarded and the connection kept or closed.
Finish ==
  /\ pc = "finish"
  /\ LET keep == KeepAlive /\ conn.content_len >= 0 /\ ~conn.must_close
         used == conn.request_len + conn.content_len
         surplus == conn.content_len >= 0 /\ conn.request_len > 0 /\ used < Len(conn.buf)
     IN /\ conn' = [conn EXCEPT !.buf =
                      IF surplus THEN SubSeq(@, used + 1, Len(@)) ELSE <<>>]
        /\ pc' = IF keep THEN "getreq" ELSE "idle"
        /\ cause' = IF parsed # <<>> /\ Owed(conn, parsed[Len(parsed)])
                    THEN cause \cup {"unread"} ELSE cause
  /\ UNCHANGED <<todo, client, got, reads, refused, parsed, answers>>

Next ==
  \/ NextConnection \/ ClientSends \/ GetRequest \/ GetNoRequest
  \/ HandlerReads \/ HandlerReturns \/ Discard \/ Finish

Spec == Init /\ [][Next]_vars

-----------------------------------------------------------------------------
\* Server and client agree where requests begin: what is recognized are the client's
\* requests in order, as long as nothing was pipelined, and every body was read,
\* discarded, or the connection closed, before the time was up.
InStep ==
  cause \subseteq {"stale"} =>
    \A i \in DOMAIN parsed : parsed[i] \in {0, i} /\ (parsed[i] = 0 => i = Len(parsed))

\* A handler is never given anything but its own request's body, from the start.
BodyAsSent ==
  cause \subseteq {"stale"} /\ pc = "handle" =>
    LET r == parsed[Len(parsed)]
    IN IsPrefix(got, Run("body", r, client.reqs[r].body))

\* A well-formed chunked body is refused only when the content_len of an earlier
\* request, on this or another connection, was left negative or at its limit.
ChunksAccepted ==
  cause = {} /\ refused => conn.is_chunked = 0
=============================================================================
