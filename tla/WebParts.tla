------------------------------ MODULE WebParts ------------------------------
(***************************************************************************)
(* What the embedded server has beside files and threads: websockets       *)
(* (EXTENDS WebSocket), forms, TLS, the client functions and mg_write.     *)
(* One of these parts is looked at in a behaviour; the variables of the    *)
(* others keep their initial values.                                       *)
(***************************************************************************)
EXTENDS WebSocket

CONSTANTS
  Parts,                                     \* the parts to look at
  SIZE,                                      \* WebForm
  Contexts, SslWorkers, Rotations, Handshakes, Bad,   \* WebSsl
  ClientThreads,                             \* WebClient
  Lengths, Throttles, MaxCalls, MaxNow       \* WebWrite

\* A process has finitely many contexts, the versions of the certificate are counted from 1, and
\* mg_write is given lengths and throttles.
ASSUME PartsAssumption ==
  /\ IsFiniteSet(Contexts) /\ Contexts # {} /\ Bad \subseteq Nat
  /\ Lengths \subseteq Nat /\ Throttles \subseteq Nat

VARIABLES
  part,
  f_form, f_body, f_buf, f_buf_fill, f_pc, f_pos, f_key, f_storage, f_value,
  f_flaw, f_fp, f_file_size, f_out, f_left, f_field_count, f_returned,
  s_cryptolib_users, s_ssl_mutexes, s_phase, s_ssl_ctx, s_file, s_data_check,
  s_reload_lock, s_worker, s_t, s_left, s_served,
  c_client, c_fake_ctx, c_loaded,
  w_throttle, w_last_throttle_time, w_last_throttle_bytes, w_now, w_stop_flag, w_call, w_calls,
  w_got, w_burst, w_bad

fVars == <<f_form, f_body, f_buf, f_buf_fill, f_pc, f_pos, f_key, f_storage, f_value, f_flaw,
           f_fp, f_file_size, f_out, f_left, f_field_count, f_returned>>
sVars == <<s_cryptolib_users, s_ssl_mutexes, s_phase, s_ssl_ctx, s_file, s_data_check,
           s_reload_lock, s_worker, s_t, s_left, s_served>>
cVars == <<c_client, c_fake_ctx, c_loaded>>
wVars == <<w_throttle, w_last_throttle_time, w_last_throttle_bytes, w_now, w_stop_flag, w_call,
           w_calls, w_got, w_burst, w_bad>>
partsVars == <<part, vars, fVars, sVars, cVars, wVars>>

-----------------------------------------------------------------------------
(* Forms of each kind, whole or broken off anywhere.                       *)

Field(key, value) == [key |-> key, value |-> value]

FieldsOf(kind) ==
  IF kind = "multi"
  THEN {<<>>,
        <<Field("h1", <<"%", "2", "2", "+">>)>>,
        <<Field("h1", <<"x", "r", "y", "b", "x", "r">>), Field("h2", <<>>)>>,
        <<Field("h1", <<"x", "y">>), Field("bad", <<"x">>)>>}
  ELSE {<<>>,
        <<Field("a", <<"x", "+">>), Field("c", <<>>)>>,
        <<Field("a", <<"x", "y", "x", "%", "2", "2", "+", "y", "y">>), Field("c", <<"y">>)>>,
        <<Field("c", <<>>), Field("a", <<"y", "x", "x", "x", "x", "x">>)>>}

F == INSTANCE WebForm
       WITH Forms <- UNION {[kind : {k}, fields : FieldsOf(k)] : k \in {"get", "url", "multi"}},
            form <- f_form, body <- f_body, buf <- f_buf, buf_fill <- f_buf_fill, pc <- f_pc,
            pos <- f_pos, key <- f_key, storage <- f_storage, value <- f_value, flaw <- f_flaw,
            fp <- f_fp, file_size <- f_file_size, out <- f_out, left <- f_left,
            field_count <- f_field_count, returned <- f_returned

-----------------------------------------------------------------------------
(* Handshakes that succeed and fail, and what is written over a websocket: *)
(* the server's worker answers and closes, a thread of the server pushes,  *)
(* and two threads of the client write.                                    *)

Handshake(key, version13, resource, refused) ==
  [upgrade |-> TRUE, connection |-> TRUE, key |-> key, version13 |-> version13,
   resource |-> resource, refused |-> refused]
Good == Handshake("rfc", TRUE, TRUE, FALSE)

Upgrades ==
  {Good, [Good EXCEPT !.connection = FALSE], Handshake("rfc", TRUE, TRUE, TRUE),
   Handshake("rfc", FALSE, TRUE, FALSE), Handshake("rfc", TRUE, FALSE, FALSE)}
  \cup {Handshake(key, TRUE, TRUE, FALSE) : key \in {"none", "hixie", "long"}}

Message(op, data) == [op |-> op, data |-> data]
Silent == [w \in Writers |-> <<>>]

OneText == [Silent EXCEPT !["c1"] = <<Message(1, <<1, 0, 0, 0, 1>>)>>]
SomeLoads ==
  {OneText,
   [Silent EXCEPT !["c1"] = <<Message(2, <<1>>)>>, !["c2"] = <<Message(2, <<0, 1>>)>>],
   [Silent EXCEPT !["push"] = <<Message(2, <<0, 1, 1>>)>>, !["c1"] = <<Message(8, <<>>)>>]}

SomeKeys == {<<1, 0, 0, 1>>}
EndOfWriter(w) == IF w \in {"worker", "push"} THEN "server" ELSE "client"

-----------------------------------------------------------------------------
(* Two contexts with TLS, the first with a worker; and threads that        *)
(* connect as clients, one of them without TLS.                            *)

FirstContext(w) == CHOOSE c \in Contexts : TRUE

S == INSTANCE WebSsl
       WITH Workers <- SslWorkers, ContextOf <- FirstContext,
            cryptolib_users <- s_cryptolib_users, ssl_mutexes <- s_ssl_mutexes,
            phase <- s_phase, ssl_ctx <- s_ssl_ctx, file <- s_file, data_check <- s_data_check,
            reload_lock <- s_reload_lock, worker <- s_worker, t <- s_t, left <- s_left,
            served <- s_served

CallOf(t) == IF t = "t1" THEN "download" ELSE "connect"
IsSecure(t) == t # "t3"
CertOf(t) == IF t = "t3" THEN "none" ELSE t

C == INSTANCE WebClient
       WITH Threads <- ClientThreads, Call <- CallOf, Secure <- IsSecure, Cert <- CertOf,
            client <- c_client, fake_ctx <- c_fake_ctx, loaded <- c_loaded

-----------------------------------------------------------------------------
(* Calls of mg_write on one connection.                                    *)

W == INSTANCE WebWrite
       WITH throttle <- w_throttle, last_throttle_time <- w_last_throttle_time,
            last_throttle_bytes <- w_last_throttle_bytes, now <- w_now,
            stop_flag <- w_stop_flag, call <- w_call, calls <- w_calls, got <- w_got,
            burst <- w_burst, bad <- w_bad

-----------------------------------------------------------------------------
\* What the parts that are not looked at choose at their beginning is not chosen.
PartsInit ==
  /\ part \in Parts
  /\ part = "form" \/ f_form = [kind |-> "get", fields |-> <<>>, upto |-> 0]
  /\ part = "websocket" \/ (request = Good /\ load = OneText)
  /\ part = "write" \/ w_throttle = 0
  /\ Init /\ F!Init /\ S!Init /\ C!Init /\ W!Init

In(name, step) == part = name /\ step /\ UNCHANGED part

Forms(step) == In("form", step /\ UNCHANGED <<vars, sVars, cVars, wVars>>)
Websockets(step) == In("websocket", step /\ UNCHANGED <<fVars, sVars, cVars, wVars>>)
Ssl == In("ssl", S!Next /\ UNCHANGED <<fVars, vars, cVars, wVars>>)
ClientCalls == In("client", C!Next /\ UNCHANGED <<fVars, vars, sVars, wVars>>)
Writes == In("write", W!Next /\ UNCHANGED <<fVars, vars, sVars, cVars>>)

PartsNext == Forms(F!Next) \/ Websockets(Next) \/ Ssl \/ ClientCalls \/ Writes

PartsSpec == PartsInit /\ [][PartsNext]_partsVars

-----------------------------------------------------------------------------
\* Fields are handed over as they were sent, and stored whole or removed: see FieldsAsSent and
\* StoredOrRemoved of WebForm.
FieldsArrive == part = "form" => F!FieldsAsSent /\ F!StoredOrRemoved

\* The reading of a form ends: see WebForm.
FormEnds == part = "form" => F!FormEnds

\* mg_handle_form_request leaves no file it did not tell of: see WebForm.
NoPartialContent == part = "form" => F!NoPartialContent

\* A context that runs has the TLS library, and handshakes with a certificate and key that
\* belong together: see LibraryWhileUsed and MatchingPair of WebSsl.
TlsIsSound == part = "ssl" => S!LibraryWhileUsed /\ S!MatchingPair

\* The lock of a reload is held by one who reloads: see WebSsl.
LockedWhileReloading == part = "ssl" => S!LockedWhileReloading

\* A client call that returns NULL keeps nothing: see WebClient.
NullKeepsNothing == part = "client" => C!NullKeepsNothing

\* What mg_write is given arrives in order, whole and not too fast: see WebWrite.
WritesAreWhole == part = "write" => W!WritesAreWhole
=============================================================================
