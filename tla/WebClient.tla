----------------------------- MODULE WebClient -----------------------------
(***************************************************************************)
(* The client side of civetweb.c: mg_connect_client and its secure form,   *)
(* mg_download, mg_get_response and mg_close_connection, each called by    *)
(* some threads of one program.  What matters is what a call that fails at *)
(* some step leaves behind, and the context all clients share.             *)
(***************************************************************************)
CONSTANTS
  Threads,    \* threads that connect
  Call(_),    \* of a thread: what it calls, "connect" or "download"
  Secure(_),  \* of a thread: whether it asks for TLS
  Cert(_)     \* of a thread: its client_cert, or NoCert

NoCert == "none"
Nobody == "nobody"
Nothing ==
  [at |-> "call", sock |-> FALSE, conn |-> FALSE, client_ssl_ctx |-> FALSE, ssl |-> FALSE,
   error |-> FALSE, null |-> FALSE]

VARIABLES
  client,   \* of each thread: how far its call is, what it holds, the error buffer, what it returned
  fake_ctx, \* the thread whose SSL_CTX the static context holds
  loaded    \* the client certificate in each thread's SSL_CTX

vars == <<client, fake_ctx, loaded>>

Init ==
  /\ client = [t \in Threads |-> Nothing]
  /\ fake_ctx = Nobody
  /\ loaded = [t \in Threads |-> NoCert]

At(t, place) == client[t].at = place
Set(t, c) == client' = [client EXCEPT ![t] = c]
Goto(t, place) == Set(t, [client[t] EXCEPT !.at = place])

\* A failure writes the error buffer, releases what is said, and returns NULL.
Fail(t, kept) ==
  Set(t, [Nothing EXCEPT !.at = "returned", !.null = TRUE, !.error = TRUE,
                         !.sock = kept.sock, !.conn = kept.conn,
                         !.client_ssl_ctx = kept.client_ssl_ctx, !.ssl = kept.ssl])

-----------------------------------------------------------------------------
\* A host, a port, a library or an address that is no good; no socket; or no connection, and the
\* socket is closed.
connect_socket(t) ==
  /\ At(t, "call")
  /\ \/ Fail(t, Nothing)
     \/ Set(t, [client[t] EXCEPT !.at = "connected", !.sock = TRUE])
  /\ UNCHANGED <<fake_ctx, loaded>>

\* The connection, and for TLS its SSL_CTX, which becomes the static context's.
Allocate(t) ==
  /\ At(t, "connected")
  /\ \/ Fail(t, Nothing) /\ UNCHANGED fake_ctx
     \/ IF Secure(t)
          THEN /\ Set(t, [client[t] EXCEPT !.at = "certificate", !.conn = TRUE, !.client_ssl_ctx = TRUE])
               /\ fake_ctx' = t
          ELSE Set(t, [client[t] EXCEPT !.at = "open", !.conn = TRUE]) /\ UNCHANGED fake_ctx
  /\ UNCHANGED loaded

\* ssl_use_pem_file works on the static context's SSL_CTX. When the certificate is no good the
\* connection is freed and NULL, and the calls that follow take it for one.
UseCertificate(t) ==
  /\ At(t, "certificate")
  /\ \/ /\ Goto(t, "tls")
        /\ loaded' = IF Cert(t) = NoCert THEN loaded ELSE [loaded EXCEPT ![fake_ctx] = Cert(t)]
     \/ /\ Cert(t) # NoCert
        /\ Set(t, [Nothing EXCEPT !.at = "crashed", !.error = TRUE])
        /\ UNCHANGED loaded
  /\ UNCHANGED fake_ctx

\* sslize with SSL_connect: SSL_new and SSL_set_fd may fail as well as the handshake.
Handshake(t) ==
  /\ At(t, "tls")
  /\ \/ Fail(t, Nothing)
     \/ Set(t, [client[t] EXCEPT !.at = "open", !.ssl = TRUE])
  /\ UNCHANGED <<fake_ctx, loaded>>

\* mg_connect_client returns the connection; mg_download goes on.
Connected(t) ==
  /\ At(t, "open")
  /\ Goto(t, IF Call(t) = "download" THEN "request" ELSE "returned")
  /\ UNCHANGED <<fake_ctx, loaded>>

\* mg_close_connection gives the SSL_CTX, the SSL and the socket back; the memory of a connection
\* that is no websocket's is not freed.
Closed(c) == [c EXCEPT !.client_ssl_ctx = FALSE, !.ssl = FALSE, !.sock = FALSE]

\* Slip: the connection is not closed when the request cannot be sent.
mg_download_NotClosed(t) ==
  /\ At(t, "request")
  /\ \/ Fail(t, client[t])
     \/ Goto(t, "returned")
  /\ UNCHANGED <<fake_ctx, loaded>>

\* The request is sent and the reply read; after an error the connection is closed.
mg_download(t) ==
  /\ At(t, "request")
  /\ \/ Fail(t, Closed(client[t]))
     \/ Goto(t, "returned")
  /\ UNCHANGED <<fake_ctx, loaded>>

\* A further reply on a connection that was returned; an error is told, and nothing is closed.
mg_get_response(t) ==
  /\ At(t, "returned") /\ ~client[t].null /\ ~client[t].error
  /\ Set(t, [client[t] EXCEPT !.error = TRUE])
  /\ UNCHANGED <<fake_ctx, loaded>>

mg_close_connection(t) ==
  /\ At(t, "returned") /\ ~client[t].null
  /\ Set(t, [Closed(client[t]) EXCEPT !.at = "closed"])
  /\ UNCHANGED <<fake_ctx, loaded>>

Next ==
  \E t \in Threads :
    \/ connect_socket(t) \/ Allocate(t) \/ UseCertificate(t) \/ Handshake(t) \/ Connected(t)
    \/ mg_download(t) \/ mg_get_response(t) \/ mg_close_connection(t)

Spec == Init /\ [][Next]_vars

-----------------------------------------------------------------------------
\* A call that returns NULL has said why and has kept nothing that the caller could not close:
\* no socket, no SSL and no SSL_CTX; and so has a connection that was closed.
NullKeepsNothing ==
  \A t \in Threads :
    client[t].at = "closed" \/ client[t].null =>
      /\ ~client[t].sock /\ ~client[t].ssl /\ ~client[t].client_ssl_ctx
      /\ client[t].null => client[t].error
=============================================================================
