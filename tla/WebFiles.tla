------------------------------ MODULE WebFiles ------------------------------
(***************************************************************************)
(* What the embedded web server, civetweb.c, does with a request:          *)
(* handle_request and the operations on files it chooses from.  Workers    *)
(* answer requests at the same time on one file system, so whatever was    *)
(* found out about a file may be stale when it is used.  An inode lives as *)
(* long as it is open; a path is a sequence of names below document_root,  *)
(* and data is a sequence of marks.                                        *)
(***************************************************************************)
EXTENDS WebHandlers, Integers, FiniteSets

CONSTANTS
  Workers,
  Worlds,       \* a configuration, a first file system, and what clients may ask
  MaxInodes, MaxNow,   \* bounds
  SSI_LEVELS    \* include_level may not go beyond

VARIABLES
  config,     \* ctx->config and the callbacks that are set
  handlers,   \* ctx->handlers
  fs,         \* the inode of each path, 0 when there is none
  inodes,     \* [dir, data, mtime, writable]
  now,        \* time(NULL), in seconds
  job,        \* each worker's request and what handle_request knows of it
  copies,     \* history: what clients last got of a path, and its Date
  clients     \* [requests, left]: those they may send, and how many more

vars == <<config, handlers, fs, inodes, now, job, copies, clients>>

\* A name is a string; a mark, too, or what a hole in a file reads as.  A file that is there
\* has a time and one name, a handler that authorizes is not removed meanwhile, and clients
\* ask for paths that fs knows.
Zero == "zero"
Marks == STRING \cup {Zero}
Handlers == [type : {"request", "auth"}, uri : Seq(STRING), call : STRING]
Inodes == [dir : BOOLEAN, data : Seq(Marks), mtime : Nat, writable : BOOLEAN]

ASSUME WorldsAssumption ==
  /\ MaxInodes \in Nat /\ MaxNow \in Nat /\ SSI_LEVELS \in Nat
  /\ \A w \in Worlds :
       /\ w.fs \in [DOMAIN w.fs -> 0..MaxInodes] /\ DOMAIN w.fs \subseteq Seq(STRING)
       /\ w.inodes \in [1..MaxInodes -> Inodes]
       /\ \A i \in 1..MaxInodes : w.inodes[i].mtime <= 1
       /\ \A p \in DOMAIN w.fs : w.fs[p] # 0 =>
            w.inodes[w.fs[p]].mtime = 1 /\ \A r \in DOMAIN w.fs : w.fs[r] = w.fs[p] => r = p
       /\ w.config.index_files \in Seq(STRING)
       /\ \A n \in DOMAIN w.config.gz : w.config.gz[n] \in STRING
       /\ w.config.handlers \in Seq(Handlers)
       /\ \A i \in DOMAIN w.config.handlers : w.config.handlers[i].call # "NULL"
       /\ \A h \in w.config.changes : h \in Handlers /\ (h.type = "auth" => h.call # "NULL")
       /\ DOMAIN w.clients = {"requests", "left"}
       /\ \A q \in w.clients.requests :
            /\ q.path \in Seq(STRING) /\ (q.path = <<>> \/ q.path \in DOMAIN w.fs)
            /\ q.body \in Seq(Marks) /\ q.range \in Seq(Nat) /\ Len(q.range) <= 2

Paths == DOMAIN fs
Exists(p) == p \in Paths /\ fs[p] # 0
File(p) == inodes[fs[p]]
IsDir(p) == p = <<>> \/ (Exists(p) /\ File(p).dir)
Name(p) == IF p = <<>> THEN "" ELSE Last(p)
Free == CHOOSE i \in 1..MaxInodes :
          inodes[i].mtime = 0 /\ \A k \in 1..i - 1 : inodes[k].mtime # 0
Room == \E i \in 1..MaxInodes : inodes[i].mtime = 0

\* mg_stat; the time of last modification is never 0 for a file that is there.
NoStat == [found |-> FALSE, gz |-> FALSE, dir |-> FALSE, size |-> 0, mtime |-> 0]
mg_stat(p) ==
  IF ~Exists(p) THEN NoStat
  ELSE [found |-> TRUE, gz |-> FALSE, dir |-> File(p).dir,
        size |-> Len(File(p).data), mtime |-> File(p).mtime]

Idle ==
  [pc |-> "idle", q |-> [method |-> "none"], path |-> <<>>, stat |-> NoStat, script |-> FALSE, put |-> FALSE,
   cb |-> FALSE, ino |-> 0, pos |-> 0, left |-> 0, seen |-> {}, ok |-> TRUE,
   status |-> 0, error |-> 0, announced |-> -1, sent |-> <<>>, must_close |-> FALSE,
   changed |-> FALSE, disturbed |-> FALSE, whole |-> <<>>, date |-> 0,
   unsaved |-> <<>>]

Init ==
  /\ \E w \in Worlds : config = w.config /\ fs = w.fs /\ inodes = w.inodes /\ clients = w.clients
  /\ handlers = config.handlers
  /\ now = 1
  /\ job = [t \in Workers |-> Idle]
  /\ copies = [p \in {} |-> 0]

Quiet == UNCHANGED <<config, handlers, fs, inodes, now, copies, clients>>
Step(t, j) == job' = [job EXCEPT ![t] = j]

\* The file that is sent in place of the one that was asked for.
Zipped(p) == Front(p) \o <<config.gz[Name(p)]>>
Served(j) == IF j.stat.gz THEN Zipped(j.path) ELSE j.path

\* t changes what these paths stand for: whoever works below or above one of them
\* has been disturbed, except that what is open stays readable when only its name goes.
Touch(t, j, paths, unlink) ==
  job' = [u \in Workers |->
            IF u = t THEN [j EXCEPT !.changed = TRUE]
            ELSE [job[u] EXCEPT !.disturbed =
                    @ \/ (/\ ~(unlink /\ job[u].pc = "send")
                          /\ \E p \in paths, x \in {job[u].path, Served(job[u])} :
                               IsPrefix(p, x) \/ IsPrefix(x, p))]]

-----------------------------------------------------------------------------
(* Answers                                                                 *)

Kind(p) == IF Name(p) \in config.scripts THEN "cgi"
           ELSE IF Name(p) \in config.ssi THEN "ssi" ELSE "static"

Reply(j, status) == [j EXCEPT !.status = status, !.pc = "done"]

\* send_http_error: the error page of this status when there is one, which is then
\* sent like any file; else the status, and the connection is not kept.
send_http_error(j, status) ==
  IF j.error = 0 /\ status \in DOMAIN config.pages /\ Exists(config.pages[status])
  THEN LET p == config.pages[status]
       IN [j EXCEPT !.error = status, !.path = p, !.stat = mg_stat(p), !.pc = Kind(p)]
  ELSE [Reply(j, status) EXCEPT !.must_close = TRUE,
                                !.error = IF @ = 0 THEN status ELSE @]

send_authorization_request(j) ==
  [Reply(j, 401) EXCEPT !.must_close = TRUE, !.error = 401]

\* A client that asks again sends the ETag and the Date it was given.  An ETag is made
\* of time and size; the one that is sent has lost its time, in mg_fopen's memset.
is_not_modified(j) ==
  /\ j.q.again /\ j.path \in DOMAIN copies
  /\ \/ j.stat.mtime = 0 /\ j.stat.size = Len(copies[j.path].data)
     \/ j.stat.mtime <= copies[j.path].date

handle_file_based_request(j) ==
  IF Kind(j.path) = "static" /\ is_not_modified(j) THEN send_http_error(j, 304)
  ELSE [j EXCEPT !.pc = Kind(j.path)]

-----------------------------------------------------------------------------
(* handle_request                                                          *)

is_put_or_delete_method(q) == q.method \in {"PUT", "DELETE", "MKCOL", "PATCH"}

\* interpret_uri: the file itself, its .gz, or a script that is a parent of the path.
interpret_uri(j) ==
  LET put == is_put_or_delete_method(j.q)
      above == {p \in Paths : IsStrictPrefix(p, j.path) /\ Exists(p) /\ Kind(p) = "cgi"}
      k == [j EXCEPT !.put = put, !.cb = FALSE, !.script = FALSE, !.stat = NoStat]
  IN IF ~config.document_root THEN k
     ELSE IF Exists(j.path)
     THEN [k EXCEPT !.stat = mg_stat(j.path), !.script = Kind(j.path) = "cgi" /\ ~put]
     ELSE IF j.q.gzip /\ Name(j.path) \in DOMAIN config.gz /\ Exists(Zipped(j.path))
     THEN [k EXCEPT !.stat = [mg_stat(Zipped(j.path)) EXCEPT !.gz = TRUE]]
     ELSE [k EXCEPT !.script = above # {}]

\* Up to the callback for everything, which may have answered.
Begin(t, q) ==
  /\ job[t].pc = "idle" /\ clients.left > 0
  /\ clients' = [clients EXCEPT !.left = @ - 1]
  /\ LET j == [Idle EXCEPT !.q = q, !.path = q.path, !.date = now]
     IN \/ config.ssl_redir = "port" /\ Step(t, Reply(j, 302))
        \/ config.ssl_redir = "none" /\ Step(t, send_http_error(j, 503))
        \/ /\ config.ssl_redir = "off"
           /\ \/ Step(t, [j EXCEPT !.pc = "lookup"])
              \/ config.begin_request /\ Step(t, Reply(j, 0))
  /\ UNCHANGED <<config, handlers, fs, inodes, now, copies>>

Lookup(t) ==
  /\ job[t].pc = "lookup"
  /\ LET j == job[t]
         call == get_request_handler(handlers, "request", j.path, config.begins)
     IN Step(t, IF call # "NULL"
                THEN [j EXCEPT !.cb = TRUE, !.script = TRUE, !.pc = "auth",
                               !.put = is_put_or_delete_method(j.q)]
                ELSE [interpret_uri(j) EXCEPT !.pc = "auth"])
  /\ Quiet

\* open_auth_file: the passwords of the directory, or of the one the file is in.
PasswordFile(p) == (IF IsDir(p) THEN p ELSE Front(p)) \o <<".htpasswd">>

check_authorization(j) ==
  LET f == PasswordFile(j.path)
  IN j.cb \/ (Exists(f) => j.q.user \in ToSet(File(f).data))

\* Slip: whoever asks may write.
Auth_AnyUser(t) ==
  /\ job[t].pc = "auth"
  /\ LET j == job[t]
         go == [j EXCEPT !.pc = IF j.cb THEN "callback" ELSE "serve"]
     IN IF get_request_handler(handlers, "auth", j.path, config.begins) # "NULL"
        THEN Step(t, go) \/ Step(t, Reply(j, 0))
        ELSE IF j.put /\ ~j.script /\ ~j.cb
        THEN Step(t, IF ~config.document_root THEN send_http_error(j, 405)
                     ELSE go)
        ELSE Step(t, IF check_authorization(j) THEN go ELSE send_authorization_request(j))
  /\ Quiet

Auth(t) ==
  /\ job[t].pc = "auth"
  /\ LET j == job[t]
         go == [j EXCEPT !.pc = IF j.cb THEN "callback" ELSE "serve"]
     IN IF get_request_handler(handlers, "auth", j.path, config.begins) # "NULL"
        THEN Step(t, go) \/ Step(t, Reply(j, 0))
        ELSE IF j.put /\ ~j.script /\ ~j.cb
        THEN Step(t, IF ~config.document_root THEN send_http_error(j, 405)
                     ELSE IF j.q.user \in config.put_users THEN go
                     ELSE send_authorization_request(j))
        ELSE Step(t, IF check_authorization(j) THEN go ELSE send_authorization_request(j))
  /\ Quiet

\* The handler answers; or it does not, and the request starts over as one for a file.
Callback(t) ==
  /\ job[t].pc = "callback"
  /\ \/ Step(t, Reply(job[t], 0))
     \/ Step(t, [interpret_uri(job[t]) EXCEPT !.pc = "auth"])
  /\ Quiet

Index(p) == SelectInSeq(config.index_files, LAMBDA n : Exists(Append(p, n)))

\* substitute_index_file, or the list of the directory.
Directory(j) ==
  LET i == Index(j.path)
      p == Append(j.path, config.index_files[i])
  IN IF i # 0 THEN handle_file_based_request([j EXCEPT !.path = p, !.stat = mg_stat(p)])
     ELSE IF config.listing THEN [j EXCEPT !.pc = "list"]
     ELSE send_http_error(j, 403)

Serve(t) ==
  /\ job[t].pc = "serve"
  /\ LET j == job[t]
         m == j.q.method
     IN Step(t,
          IF ~config.document_root THEN send_http_error(j, 404)
          ELSE IF j.script THEN handle_file_based_request(j)
          ELSE IF j.put
               THEN IF m = "PATCH" THEN send_http_error(j, 405) ELSE [j EXCEPT !.pc = m]
          ELSE IF ~j.stat.found \/ Name(j.path) \in config.hidden THEN send_http_error(j, 404)
          ELSE IF j.stat.dir /\ ~j.q.slash THEN Reply(j, 301)
          ELSE IF m = "PROPFIND" THEN [j EXCEPT !.pc = "list"]
          ELSE IF m = "OPTIONS" THEN [Reply(j, 200) EXCEPT !.must_close = TRUE]
          ELSE IF m \notin {"GET", "HEAD"} THEN send_http_error(j, 405)
          ELSE IF j.stat.dir THEN Directory(j)
          ELSE handle_file_based_request(j))
  /\ Quiet

-----------------------------------------------------------------------------
(* GET, HEAD, PROPFIND                                                     *)

\* Slip: the last byte of a range is not counted.
Slice_WholeLength(j) ==
  LET r == j.q.range
      cl == j.stat.size
  IN IF r = <<>> THEN [from |-> 0, cl |-> cl]
     ELSE IF Len(r) = 1 THEN [from |-> r[1], cl |-> cl - r[1]]
     ELSE [from |-> r[1], cl |-> (IF r[2] > cl THEN cl ELSE r[2]) - r[1]]

\* cl, r1: the length that is announced, and where the data begins.
Slice(j) ==
  LET r == j.q.range
      cl == j.stat.size
  IN IF r = <<>> THEN [from |-> 0, cl |-> cl]
     ELSE IF Len(r) = 1 THEN [from |-> r[1], cl |-> cl - r[1]]
     ELSE [from |-> r[1], cl |-> (IF r[2] > cl THEN cl ELSE r[2]) - r[1] + 1]

\* handle_static_file_request, to the end of the header: the size is that of mg_stat,
\* the file the one that is opened now.
Open(t) ==
  /\ job[t].pc = "static"
  /\ LET j == job[t]
         p == Served(j)
         r == Slice(j)
         size == Len(File(p).data)
     IN Step(t,
          IF ~Exists(p) THEN send_http_error(j, 500)
          ELSE [j EXCEPT !.ino = fs[p], !.whole = File(p).data, !.announced = r.cl,
                         !.status = IF j.q.range = <<>> THEN 200 ELSE 206,
                         !.pos = IF r.from > size THEN size ELSE r.from,
                         !.left = r.cl, !.date = now,
                         !.pc = IF j.q.method = "HEAD" THEN "done" ELSE "send"])
  /\ Quiet

\* send_file_data: up to the end of what was announced or of the file.
Send(t) ==
  /\ job[t].pc = "send"
  /\ LET j == job[t]
         data == inodes[j.ino].data
     IN Step(t, IF j.left > 0 /\ j.pos < Len(data)
                THEN [j EXCEPT !.sent = Append(@, data[j.pos + 1]), !.pos = @ + 1,
                               !.left = @ - 1]
                ELSE [j EXCEPT !.pc = "done"])
  /\ Quiet

\* A file beside the document: sent as it is, or read for marks in its turn, which gives
\* sent[f]; or not there.
do_ssi_include(f, sent) ==
  IF ~Exists(f) THEN <<>> ELSE IF Kind(f) = "ssi" THEN sent[f] ELSE File(f).data

\* handle_ssi_file_request, at one go, with n levels left: a mark that is a path's name is
\* an include.
send_ssi_file(path) ==
  LET sent[n \in 0..SSI_LEVELS + 1] ==
        [p \in Paths |->
           LET beside(mark) == Append(Front(p), mark)
               out(mark) == IF beside(mark) \notin Paths THEN <<mark>>
                            ELSE do_ssi_include(beside(mark), sent[n - 1])
           IN IF n = 0 \/ ~Exists(p) THEN <<>>
              ELSE FlattenSeq([i \in DOMAIN File(p).data |-> out(File(p).data[i])])]
  IN sent[SSI_LEVELS + 1][path]

Ssi(t) ==
  /\ job[t].pc = "ssi"
  /\ LET j == job[t]
     IN Step(t, IF ~Exists(j.path) THEN send_http_error(j, 500)
                ELSE [Reply(j, 200) EXCEPT !.must_close = TRUE,
                                           !.sent = send_ssi_file(j.path)])
  /\ Quiet

Children(p) == {c \in Paths : Exists(c) /\ Len(c) = Len(p) + 1 /\ IsPrefix(p, c)}

\* handle_directory_request, handle_propfind: scan_directory leaves out what is hidden.
List(t) ==
  /\ job[t].pc = "list"
  /\ LET j == job[t]
         shown == IF j.stat.dir /\ config.listing
                  THEN {Name(c) : c \in {c \in Children(j.path) : Name(c) \notin config.hidden}}
                  ELSE {}
     IN Step(t, IF j.q.method # "PROPFIND" /\ ~IsDir(j.path) THEN send_http_error(j, 500)
                ELSE [Reply(j, IF j.q.method = "PROPFIND" THEN 207 ELSE 200)
                        EXCEPT !.must_close = TRUE, !.sent = SetToSeq(shown)])
  /\ Quiet

\* A script answers as it likes.
Cgi(t) ==
  /\ job[t].pc = "cgi"
  /\ Step(t, [Reply(job[t], 0) EXCEPT !.must_close = TRUE])
  /\ Quiet

-----------------------------------------------------------------------------
(* PUT, DELETE, MKCOL                                                      *)

Make(p, dir) ==
  /\ fs' = [fs EXCEPT ![p] = Free]
  /\ inodes' = [inodes EXCEPT ![Free] =
                  [dir |-> dir, data |-> <<>>, mtime |-> now, writable |-> TRUE]]

\* put_file: a directory is left alone, a file must be writable, and for a new path
\* the directories on the way are made first.
Put(t) ==
  /\ job[t].pc = "PUT"
  /\ LET j == job[t]
     IN Step(t, IF ~Exists(j.path) THEN [j EXCEPT !.status = 201, !.pc = "put_dir"]
                ELSE IF IsDir(j.path) THEN Reply(j, 200)
                ELSE IF ~File(j.path).writable THEN send_http_error(j, 403)
                ELSE [j EXCEPT !.status = 200, !.pc = "put_open"])
  /\ Quiet

\* One directory of the path, first to last; a path that ends with a slash is one.
PutDir(t) ==
  /\ job[t].pc = "put_dir"
  /\ LET j == job[t]
         n == IF j.q.slash THEN Len(j.path) ELSE Len(j.path) - 1
         p == SubSeq(j.path, 1, j.pos + 1)
     IN IF j.pos = n
        THEN Step(t, IF j.q.slash THEN Reply(j, 201) ELSE [j EXCEPT !.pc = "put_open", !.pos = 0])
             /\ Quiet
        ELSE IF Exists(p) THEN Step(t, [j EXCEPT !.pos = @ + 1]) /\ Quiet
        ELSE IF ~IsDir(Front(p)) THEN Step(t, send_http_error(j, 500)) /\ Quiet
        ELSE /\ Room
             /\ Make(p, TRUE)
             /\ Touch(t, [j EXCEPT !.pos = @ + 1], {p}, FALSE)
             /\ UNCHANGED <<config, handlers, now, copies, clients>>

\* Opened "wb+", whatever was in it is gone; then forward_body_data looks whether the
\* body will do.  It sets the status anew.
Forward(j) ==
  IF j.q.length = "none" THEN send_http_error(j, 411)
  ELSE IF j.q.expect = "other" THEN send_http_error(j, 417)
  ELSE [j EXCEPT !.status = IF j.q.expect = "continue" THEN 100 ELSE 200,
                 !.pos = IF j.q.range = <<>> THEN 0 ELSE j.q.range[1],
                 !.left = IF j.q.length = "given" THEN Len(j.q.body) ELSE 0,
                 !.pc = "put_write"]

PutOpen(t) ==
  /\ job[t].pc = "put_open"
  /\ LET j == job[t]
     IN IF IsDir(j.path) \/ ~IsDir(Front(j.path))
        THEN Step(t, send_http_error(j, 500)) /\ Quiet
        ELSE /\ IF Exists(j.path)
                THEN /\ inodes' = [inodes EXCEPT ![fs[j.path]].data = <<>>,
                                                 ![fs[j.path]].mtime = now]
                     /\ UNCHANGED fs
                ELSE Room /\ Make(j.path, FALSE)
             /\ Touch(t, [Forward(j) EXCEPT !.ino = fs'[j.path]], {j.path}, FALSE)
             /\ UNCHANGED <<config, handlers, now, copies, clients>>

\* Slip: each piece is written at the beginning of the file.
WriteAll_FromStart(data, pos, marks) ==
  [i \in 1..(IF pos + Len(marks) < Len(data) THEN Len(data) ELSE pos + Len(marks)) |->
     IF i \in 1..Len(marks) THEN marks[i]
     ELSE IF i <= Len(data) THEN data[i] ELSE Zero]

\* What fwrite has taken reaches the file when stdio's buffer is full or the file closed.
WriteAll(data, pos, marks) ==
  [i \in 1..(IF pos + Len(marks) < Len(data) THEN Len(data) ELSE pos + Len(marks)) |->
     IF i \in pos + 1..pos + Len(marks) THEN marks[i - pos]
     ELSE IF i <= Len(data) THEN data[i] ELSE Zero]

Flush(t, j) ==
  /\ inodes' = [inodes EXCEPT ![j.ino].data = WriteAll(@, j.pos, j.unsaved),
                              ![j.ino].mtime = now]
  /\ Touch(t, [j EXCEPT !.pos = @ + Len(j.unsaved), !.unsaved = <<>>], {job[t].path}, FALSE)
  /\ UNCHANGED <<config, handlers, fs, now, copies, clients>>

\* One mark of the body; or the client is gone or the disk full, which ends in a close.
\* Nobody looks whether the part of the body that came with the head could be written: the
\* rest of that part is missing then, what comes later is written behind it, and the answer
\* is the one for success.  A chunked body is never written; the 0 or -1 that is left in
\* content_len says whether it is refused.  (A bound: an earlier request left no length.)
PutWrite(t) ==
  /\ job[t].pc = "put_write"
  /\ LET j == job[t]
         k == [j EXCEPT !.unsaved = Append(@, j.q.body[Len(j.q.body) - j.left + 1]),
                        !.left = @ - 1]
         missed(n) == [j EXCEPT !.ok = FALSE, !.left = @ - n]
     IN \/ /\ j.left > 0
           /\ \E next \in {k, send_http_error(j, 500)} :
                \/ Flush(t, next)
                \/ Step(t, next) /\ Quiet
        \/ j.ok /\ \E n \in 1..j.left : Step(t, missed(n)) /\ Quiet
        \/ j.left = 0 /\ Step(t, [j EXCEPT !.pc = "put_close"]) /\ Quiet
        \/ j.q.length = "chunked" /\ Step(t, send_http_error(j, 500)) /\ Quiet

\* The answer is out, and only now the file is closed; nobody looks whether that works.
PutClose(t) ==
  /\ job[t].pc = "put_close"
  /\ LET j == [job[t] EXCEPT !.pc = "done"]
     IN IF j.unsaved = <<>> THEN Step(t, j) /\ Quiet
        ELSE \/ Flush(t, j)
             \/ Step(t, [j EXCEPT !.ok = FALSE]) /\ Quiet

Delete(t) ==
  /\ job[t].pc = "DELETE"
  /\ LET j == job[t]
     IN Step(t, IF ~Exists(j.path) THEN send_http_error(j, 404)
                ELSE IF IsDir(j.path) THEN [j EXCEPT !.pc = "rmdir"]
                ELSE IF ~File(j.path).writable THEN send_http_error(j, 403)
                ELSE [j EXCEPT !.pc = "remove"])
  /\ Quiet

Unlink(t, j, p) ==
  /\ fs' = [fs EXCEPT ![p] = 0]
  /\ Touch(t, j, {p}, TRUE)
  /\ UNCHANGED <<config, handlers, inodes, now, copies, clients>>

\* mg_remove, which the directory it is in may not allow.
RemoveFile(t) ==
  /\ job[t].pc = "remove"
  /\ LET j == job[t]
     IN \/ Exists(j.path) /\ Children(j.path) = {} /\ Unlink(t, send_http_error(j, 204), j.path)
        \/ Step(t, send_http_error(j, 423)) /\ Quiet

\* remove_directory, one entry after the other and each after what is below it.  For a
\* file that was removed, where mg_remove returns 0, it takes note of a failure; so it
\* does for an entry that another removed before it.
RemoveEntry(t) ==
  /\ job[t].pc = "rmdir"
  /\ \E p \in {c \in Paths : IsPrefix(job[t].path, c) /\ c \notin job[t].seen} :
       \E ok \in IF job[t].disturbed THEN {job[t].ok, FALSE} ELSE {job[t].ok} :
       LET j == job[t]
           k == [j EXCEPT !.seen = @ \cup {p}, !.ok = ok]
           last(r) == IF p = j.path THEN send_http_error(r, IF r.ok THEN 204 ELSE 500) ELSE r
       IN /\ Exists(p)
          /\ \A c \in Paths : IsStrictPrefix(p, c) /\ Exists(c) => c \in j.seen
          /\ IF File(p).dir
             THEN IF Children(p) = {} THEN Unlink(t, last(k), p)
                  ELSE Step(t, last(k)) /\ Quiet
             ELSE \/ Unlink(t, [k EXCEPT !.ok = FALSE], p)
                  \/ Step(t, k) /\ Quiet

\* Another has removed the directory meanwhile.
RemoveGone(t) ==
  /\ job[t].pc = "rmdir" /\ ~Exists(job[t].path)
  /\ Step(t, send_http_error(job[t], IF job[t].ok THEN 204 ELSE 500))
  /\ Quiet

Mkcol(t) ==
  /\ job[t].pc = "MKCOL"
  /\ LET j == job[t]
     IN Step(t, IF Exists(j.path) THEN send_http_error(j, 405)
                ELSE IF j.q.body # <<>> THEN send_http_error(j, 415)
                ELSE [j EXCEPT !.pc = "mkdir"])
  /\ Quiet

Mkdir(t) ==
  /\ job[t].pc = "mkdir"
  /\ LET j == job[t]
     IN IF Exists(j.path) THEN Step(t, send_http_error(j, 405)) /\ Quiet
        ELSE IF ~IsDir(Front(j.path)) THEN Step(t, send_http_error(j, 409)) /\ Quiet
        ELSE /\ Room
             /\ Make(j.path, TRUE)
             /\ Touch(t, Reply(j, 201), {j.path}, FALSE)
             /\ UNCHANGED <<config, handlers, now, copies, clients>>

-----------------------------------------------------------------------------
\* The client has its answer, and keeps what it got of a whole file.
Finish(t) ==
  /\ job[t].pc = "done"
  /\ LET j == job[t]
         keeps == j.q.method = "GET" /\ j.status = 200 /\ j.error = 0 /\ j.ino # 0
     IN copies' = IF keeps
                  THEN [p \in DOMAIN copies \cup {j.path} |->
                          IF p = j.path THEN [data |-> j.sent, date |-> j.date, clean |-> ~j.disturbed]
                          ELSE copies[p]]
                  ELSE copies
  /\ Step(t, Idle)
  /\ UNCHANGED <<config, handlers, fs, inodes, now, clients>>

\* The application sets or removes a handler meanwhile.
SetHandler(type, uri, call) ==
  /\ handlers' = mg_set_handler_type(handlers, type, uri, call)
  /\ handlers' # handlers
  /\ UNCHANGED <<config, fs, inodes, now, job, copies, clients>>

Tick ==
  /\ now < MaxNow /\ now' = now + 1
  /\ UNCHANGED <<config, handlers, fs, inodes, job, copies, clients>>

Worker(t) ==
  \/ \E q \in clients.requests : Begin(t, q)
  \/ Lookup(t) \/ Auth(t) \/ Callback(t) \/ Serve(t)
  \/ Open(t) \/ Send(t) \/ Ssi(t) \/ List(t) \/ Cgi(t)
  \/ Put(t) \/ PutDir(t) \/ PutOpen(t) \/ PutWrite(t) \/ PutClose(t)
  \/ Delete(t) \/ RemoveFile(t) \/ RemoveEntry(t) \/ RemoveGone(t)
  \/ Mkcol(t) \/ Mkdir(t) \/ Finish(t)

Next ==
  \/ \E t \in Workers : Worker(t)
  \/ \E h \in config.changes : SetHandler(h.type, h.uri, h.call)
  \/ Tick

Spec == Init /\ [][Next]_vars

-----------------------------------------------------------------------------
Done(j, method) == j.pc = "done" /\ j.q.method = method

\* A request that is refused, for want of rights or because it cannot be, has changed
\* nothing, whatever others do meanwhile (411 and 417 come after the file was emptied); and
\* without a handler that authorizes, what was changed was changed by one of the users who may.
RefusedChangesNothing ==
  \A t \in Workers :
    LET j == job[t]
    IN /\ j.error \in {401, 403, 404, 405, 409, 415} => ~j.changed
       /\ j.changed /\ get_request_handler(handlers, "auth", j.q.path, config.begins) = "NULL" =>
            j.q.user \in config.put_users

\* What was answered with success has been done, unless another worked on the same path:
\* a PUT of a body of known length, once its file is closed, unless the disk was full for
\* what came with the head or for the close, which nobody looks at; the DELETE of a file,
\* MKCOL.  (A page for 204 is another path.)
SuccessMeansDone ==
  \A t \in Workers :
    LET j == job[t]
    IN ~j.disturbed /\ j.error \in {0, 204} =>
         /\ Done(j, "PUT") /\ j.ino # 0 /\ j.q.range = <<>> /\ j.q.length = "given" /\ j.ok =>
              Exists(j.path) /\ File(j.path).data = j.q.body
         /\ Done(j, "DELETE") /\ j.error = 204 /\ j.seen = {} /\ j.path = j.q.path =>
              ~Exists(j.path)
         /\ Done(j, "MKCOL") /\ j.status = 201 => IsDir(j.path)

\* A client gets as much as was announced, and one whole version, unless it changed from
\* the moment it was looked up; and a range of it when that lies within the file.
BodyAsAnnounced ==
  \A t \in Workers :
    LET j == job[t]
        r == j.q.range
        inside == Len(r) = 2 /\ r[1] <= r[2] /\ r[2] < Len(j.whole)
    IN Done(j, "GET") /\ j.ino # 0 /\ ~j.disturbed =>
         /\ r = <<>> => j.sent = j.whole /\ j.announced = Len(j.sent)
         /\ inside => j.sent = SubSeq(j.whole, r[1] + 1, r[2] + 1)
                      /\ j.announced = Len(j.sent)

\* 304 is only said to a client whose copy is what the file holds, unless the file was
\* changed within the second of the copy's Date, or between a look at it and its use.
NotModifiedIsTrue ==
  \A t \in Workers :
    LET j == job[t]
        c == copies[j.path]
    IN j.status = 304 /\ j.path \in DOMAIN copies /\ Exists(j.path) /\ ~j.disturbed /\ c.clean
         /\ File(j.path).mtime # c.date => c.data = File(j.path).data

=============================================================================
