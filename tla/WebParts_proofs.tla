--------------------------- MODULE WebParts_proofs ---------------------------
(***************************************************************************)
(* The TLS library and its certificate, the client functions, mg_write and *)
(* websockets, for every set of contexts and threads, every number of      *)
(* handshakes and replaced files, every length, throttle, load and key.    *)
(***************************************************************************)
EXTENDS WebParts, FiniteSetTheorems, SequenceTheorems, TLAPS

(***************************************************************************)
(* One part moves at a time, each as its own module says.                  *)
(***************************************************************************)
LEMMA SslAlone == PartsSpec => S!Spec
<1>1. PartsInit => S!Init
  BY DEF PartsInit
<1>2. [PartsNext]_partsVars => [S!Next]_S!vars
  <2>. SUFFICES ASSUME [PartsNext]_partsVars
                PROVE  S!Next \/ UNCHANGED sVars
    BY DEF S!vars, S!library, sVars
  <2>1. CASE Ssl
    BY <2>1 DEF Ssl, In
  <2>2. CASE Forms(F!Next) \/ Websockets(Next) \/ ClientCalls \/ Writes \/ UNCHANGED partsVars
    BY <2>2 DEF Forms, Websockets, ClientCalls, Writes, In, sVars, partsVars
  <2>. QED BY <2>1, <2>2 DEF PartsNext
<1>. QED BY <1>1, <1>2, PTL DEF PartsSpec, S!Spec

LEMMA ClientAlone == PartsSpec => C!Spec
<1>1. PartsInit => C!Init
  BY DEF PartsInit
<1>2. [PartsNext]_partsVars => [C!Next]_C!vars
  <2>. SUFFICES ASSUME [PartsNext]_partsVars
                PROVE  C!Next \/ UNCHANGED cVars
    BY DEF C!vars, cVars
  <2>1. CASE ClientCalls
    BY <2>1 DEF ClientCalls, In
  <2>2. CASE Forms(F!Next) \/ Websockets(Next) \/ Ssl \/ Writes \/ UNCHANGED partsVars
    BY <2>2 DEF Forms, Websockets, Ssl, Writes, In, cVars, partsVars
  <2>. QED BY <2>1, <2>2 DEF PartsNext
<1>. QED BY <1>1, <1>2, PTL DEF PartsSpec, C!Spec

\* mg_write as the module with its proofs has it.
WP == INSTANCE WebWrite_proofs
        WITH throttle <- w_throttle, last_throttle_time <- w_last_throttle_time,
             last_throttle_bytes <- w_last_throttle_bytes, now <- w_now,
             stop_flag <- w_stop_flag, call <- w_call, calls <- w_calls, got <- w_got,
             burst <- w_burst, bad <- w_bad

LEMMA WriteAlone == PartsSpec => WP!Spec
<1>1. PartsInit => WP!Init
  BY DEF PartsInit, W!Init, WP!Init
<1>2. [PartsNext]_partsVars => [WP!Next]_WP!vars
  <2>. SUFFICES ASSUME [PartsNext]_partsVars
                PROVE  WP!Next \/ UNCHANGED wVars
    BY DEF WP!vars, WP!conn, wVars
  <2>1. CASE Writes
    <3>1. W!Next => WP!Next
      BY DEF W!Next, W!NextRequest, W!Tick, W!Stop, W!Write, W!Send, W!Pushed, W!AllPushed,
             W!First, W!More, W!Again, W!Awake, W!conn, W!Smaller, W!PushAll, W!Return,
             WP!Next, WP!NextRequest, WP!Tick, WP!Stop, WP!Write, WP!Send, WP!Pushed,
             WP!AllPushed, WP!First, WP!More, WP!Again, WP!Awake, WP!conn, WP!Smaller,
             WP!PushAll, WP!Return
    <3>. QED BY <2>1, <3>1 DEF Writes, In
  <2>2. CASE Forms(F!Next) \/ Websockets(Next) \/ Ssl \/ ClientCalls \/ UNCHANGED partsVars
    BY <2>2 DEF Forms, Websockets, Ssl, ClientCalls, In, wVars, partsVars
  <2>. QED BY <2>1, <2>2 DEF PartsNext
<1>. QED BY <1>1, <1>2, PTL DEF PartsSpec, WP!Spec

\* What mg_write is given arrives in order, whole and not too fast, whatever the other parts of
\* the server are: the property of WebWrite_proofs.
THEOREM WritesArrive == PartsSpec => []WritesAreWhole
<1>1. WP!Spec => []WP!WritesAreWhole
  BY WP!WritesCorrect, PartsAssumption
<1>2. WP!WritesAreWhole => W!WritesAreWhole
  BY DEF WP!WritesAreWhole, WP!BytesInOrder, WP!ReturnIsTrue, WP!RateIsBounded,
         W!WritesAreWhole, W!BytesInOrder, W!ReturnIsTrue, W!RateIsBounded
<1>3. WP!WritesAreWhole => WritesAreWhole
  BY <1>2 DEF WritesAreWhole
<1>. QED BY <1>1, <1>3, WriteAlone, PTL

-----------------------------------------------------------------------------
(* The client functions.                                                   *)

Places == {"call", "connected", "certificate", "tls", "open", "request", "returned", "closed",
           "crashed"}
Held == [at : Places, sock : BOOLEAN, conn : BOOLEAN, client_ssl_ctx : BOOLEAN, ssl : BOOLEAN,
         error : BOOLEAN, null : BOOLEAN]

\* Nothing that the caller could not close.
Empty(r) == ~r.sock /\ ~r.ssl /\ ~r.client_ssl_ctx

\* A call that returned NULL has returned, said why and keeps nothing, and so has one that was
\* closed.
Clean(r) ==
  /\ r \in Held
  /\ r.null => r.at = "returned" /\ r.error /\ Empty(r)
  /\ r.at = "closed" => Empty(r)

ClientInv ==
  /\ DOMAIN c_client = ClientThreads
  /\ \A t \in ClientThreads : Clean(c_client[t])

LEMMA ClientStart == C!Init => ClientInv
BY DEF C!Init, C!Nothing, ClientInv, Clean, Empty, Held, Places

\* A step of one thread that leaves its record clean.
LEMMA OneRecord ==
  ASSUME ClientInv, NEW t \in ClientThreads, NEW r, Clean(r), C!Set(t, r)
  PROVE  ClientInv'
<1>1. c_client' = [c_client EXCEPT ![t] = r]
  BY DEF C!Set
<1>2. DOMAIN c_client' = ClientThreads /\ \A u \in ClientThreads : c_client'[u] = IF u = t THEN r ELSE c_client[u]
  BY <1>1 DEF ClientInv
<1>. QED BY <1>2 DEF ClientInv

\* A failure that keeps nothing but the memory of the connection.
LEMMA FailIsClean ==
  ASSUME ClientInv, NEW t \in ClientThreads, NEW kept \in Held, Empty(kept), C!Fail(t, kept)
  PROVE  ClientInv'
<1>. DEFINE r == [C!Nothing EXCEPT !.at = "returned", !.null = TRUE, !.error = TRUE,
                                   !.sock = kept.sock, !.conn = kept.conn,
                                   !.client_ssl_ctx = kept.client_ssl_ctx, !.ssl = kept.ssl]
<1>1. C!Set(t, r)
  BY DEF C!Fail
<1>2. /\ kept.sock \in BOOLEAN /\ kept.conn \in BOOLEAN
      /\ kept.client_ssl_ctx \in BOOLEAN /\ kept.ssl \in BOOLEAN
  BY DEF Held
<1>3. r \in Held
  BY <1>2 DEF C!Nothing, Held, Places
<1>4. r.at = "returned" /\ r.error /\ r.sock = kept.sock /\ r.ssl = kept.ssl
  BY DEF C!Nothing
<1>5. r.client_ssl_ctx = kept.client_ssl_ctx
  BY DEF C!Nothing
<1>6. Clean(r)
  BY <1>3, <1>4, <1>5 DEF Clean, Empty
<1>. HIDE DEF r
<1>. QED BY <1>1, <1>6, OneRecord

LEMMA ClientKeeps == ClientInv /\ [C!Next]_C!vars => ClientInv'
<1>. SUFFICES ASSUME ClientInv, [C!Next]_C!vars
              PROVE  ClientInv'
  OBVIOUS
<1>0. C!Nothing \in Held /\ Empty(C!Nothing)
  BY DEF C!Nothing, Held, Places, Empty
<1>1. ASSUME NEW t \in ClientThreads, C!connect_socket(t)
      PROVE  ClientInv'
  <2>1. CASE C!Fail(t, C!Nothing)
    BY <1>0, <2>1, FailIsClean
  <2>2. CASE C!Set(t, [c_client[t] EXCEPT !.at = "connected", !.sock = TRUE])
    <3>1. Clean([c_client[t] EXCEPT !.at = "connected", !.sock = TRUE])
      BY <1>1 DEF C!connect_socket, C!At, ClientInv, Clean, Empty, Held, Places
    <3>. QED BY <2>2, <3>1, OneRecord
  <2>. QED BY <1>1, <2>1, <2>2 DEF C!connect_socket
<1>2. ASSUME NEW t \in ClientThreads, C!Allocate(t)
      PROVE  ClientInv'
  <2>1. CASE C!Fail(t, C!Nothing)
    BY <1>0, <2>1, FailIsClean
  <2>2. CASE C!Set(t, [c_client[t] EXCEPT !.at = "certificate", !.conn = TRUE, !.client_ssl_ctx = TRUE])
    <3>1. Clean([c_client[t] EXCEPT !.at = "certificate", !.conn = TRUE, !.client_ssl_ctx = TRUE])
      BY <1>2 DEF C!Allocate, C!At, ClientInv, Clean, Empty, Held, Places
    <3>. QED BY <2>2, <3>1, OneRecord
  <2>3. CASE C!Set(t, [c_client[t] EXCEPT !.at = "open", !.conn = TRUE])
    <3>1. Clean([c_client[t] EXCEPT !.at = "open", !.conn = TRUE])
      BY <1>2 DEF C!Allocate, C!At, ClientInv, Clean, Empty, Held, Places
    <3>. QED BY <2>3, <3>1, OneRecord
  <2>. QED BY <1>2, <2>1, <2>2, <2>3 DEF C!Allocate
<1>3. ASSUME NEW t \in ClientThreads, C!UseCertificate(t)
      PROVE  ClientInv'
  <2>1. CASE C!Goto(t, "tls")
    <3>1. Clean([c_client[t] EXCEPT !.at = "tls"])
      BY <1>3 DEF C!UseCertificate, C!At, ClientInv, Clean, Empty, Held, Places
    <3>. QED BY <2>1, <3>1, OneRecord DEF C!Goto
  <2>2. CASE C!Set(t, [C!Nothing EXCEPT !.at = "crashed", !.error = TRUE])
    <3>1. Clean([C!Nothing EXCEPT !.at = "crashed", !.error = TRUE])
      BY DEF C!Nothing, Clean, Empty, Held, Places
    <3>. QED BY <2>2, <3>1, OneRecord
  <2>. QED BY <1>3, <2>1, <2>2 DEF C!UseCertificate
<1>4. ASSUME NEW t \in ClientThreads, C!Handshake(t)
      PROVE  ClientInv'
  <2>1. CASE C!Fail(t, C!Nothing)
    BY <1>0, <2>1, FailIsClean
  <2>2. CASE C!Set(t, [c_client[t] EXCEPT !.at = "open", !.ssl = TRUE])
    <3>1. Clean([c_client[t] EXCEPT !.at = "open", !.ssl = TRUE])
      BY <1>4 DEF C!Handshake, C!At, ClientInv, Clean, Empty, Held, Places
    <3>. QED BY <2>2, <3>1, OneRecord
  <2>. QED BY <1>4, <2>1, <2>2 DEF C!Handshake
<1>5. ASSUME NEW t \in ClientThreads, C!Connected(t)
      PROVE  ClientInv'
  <2>1. PICK p \in {"request", "returned"} : C!Goto(t, p)
    BY <1>5 DEF C!Connected
  <2>2. Clean([c_client[t] EXCEPT !.at = p])
    BY <1>5, <2>1 DEF C!Connected, C!At, ClientInv, Clean, Empty, Held, Places
  <2>. QED BY <2>1, <2>2, OneRecord DEF C!Goto
<1>6. ASSUME NEW t \in ClientThreads, C!mg_download(t)
      PROVE  ClientInv'
  <2>1. C!Closed(c_client[t]) \in Held /\ Empty(C!Closed(c_client[t]))
    BY DEF C!Closed, ClientInv, Clean, Empty, Held
  <2>2. CASE C!Fail(t, C!Closed(c_client[t]))
    BY <2>1, <2>2, FailIsClean
  <2>3. CASE C!Goto(t, "returned")
    <3>1. Clean([c_client[t] EXCEPT !.at = "returned"])
      BY <1>6 DEF C!mg_download, C!At, ClientInv, Clean, Empty, Held, Places
    <3>. QED BY <2>3, <3>1, OneRecord DEF C!Goto
  <2>. QED BY <1>6, <2>2, <2>3 DEF C!mg_download
<1>7. ASSUME NEW t \in ClientThreads, C!mg_get_response(t)
      PROVE  ClientInv'
  <2>1. C!Set(t, [c_client[t] EXCEPT !.error = TRUE])
    BY <1>7 DEF C!mg_get_response
  <2>2. Clean([c_client[t] EXCEPT !.error = TRUE])
    BY <1>7 DEF C!mg_get_response, C!At, ClientInv, Clean, Empty, Held, Places
  <2>. QED BY <2>1, <2>2, OneRecord
<1>8. ASSUME NEW t \in ClientThreads, C!mg_close_connection(t)
      PROVE  ClientInv'
  <2>1. C!Set(t, [C!Closed(c_client[t]) EXCEPT !.at = "closed"])
    BY <1>8 DEF C!mg_close_connection
  <2>2. Clean([C!Closed(c_client[t]) EXCEPT !.at = "closed"])
    BY <1>8 DEF C!mg_close_connection, C!Closed, C!At, ClientInv, Clean, Empty, Held, Places
  <2>. QED BY <2>1, <2>2, OneRecord
<1>9. CASE UNCHANGED C!vars
  BY <1>9 DEF C!vars, ClientInv
<1>. QED BY <1>1, <1>2, <1>3, <1>4, <1>5, <1>6, <1>7, <1>8, <1>9 DEF C!Next

\* A client call that returns NULL has said why and keeps no socket, no SSL and no SSL_CTX, and
\* neither does one that was closed, for any number of threads that connect at once.
THEOREM NullIsClean == PartsSpec => []NullKeepsNothing
<1>1. ClientInv => NullKeepsNothing
  BY DEF ClientInv, Clean, Empty, NullKeepsNothing, C!NullKeepsNothing
<1>2. C!Spec => []ClientInv
  BY ClientStart, ClientKeeps, PTL DEF C!Spec
<1>. QED BY <1>1, <1>2, ClientAlone, PTL

-----------------------------------------------------------------------------
(* The library that the contexts share.                                    *)

Phases == {"none", "library", "key", "chain", "running", "stopping", "stopped", "failed", "no memory"}

\* The contexts that the reference counter counts: those whose start or stop is not over, and
\* those whose start failed, which nobody takes away again.
Users == {c \in Contexts : s_phase[c] \notin {"none", "stopped"}}

Memory == \A c \in Contexts : s_phase[c] # "no memory"

LibraryInv ==
  /\ s_phase \in [Contexts -> Phases]
  /\ s_ssl_mutexes \in BOOLEAN
  /\ s_cryptolib_users = Cardinality(Users)
  /\ Memory /\ Users # {} => s_ssl_mutexes

LEMMA UsersAreFinite == IsFiniteSet(Users) /\ Cardinality(Users) \in Nat
<1>1. Users \subseteq Contexts
  BY DEF Users
<1>. QED BY <1>1, PartsAssumption, FS_Subset, FS_CardinalityType

LEMMA LibraryStart == S!Init => LibraryInv
<1>. SUFFICES ASSUME S!Init
              PROVE  LibraryInv
  OBVIOUS
<1>1. Users = {}
  BY DEF S!Init, Users
<1>2. Cardinality(Users) = 0
  BY <1>1, FS_EmptySet
<1>. QED BY <1>1, <1>2 DEF S!Init, LibraryInv, Phases

\* A context that is not counted is, and the others stay as they are.
LEMMA OneMoreUser ==
  ASSUME LibraryInv, NEW c \in Contexts, s_phase[c] = "none", NEW p \in Phases \ {"none", "stopped"},
         s_phase' = [s_phase EXCEPT ![c] = p]
  PROVE  /\ s_phase' \in [Contexts -> Phases] /\ s_phase'[c] = p
         /\ \A d \in Contexts : d # c => s_phase'[d] = s_phase[d]
         /\ Users' = Users \cup {c}
         /\ Cardinality(Users') = Cardinality(Users) + 1
<1>1. /\ s_phase' \in [Contexts -> Phases] /\ s_phase'[c] = p
      /\ \A d \in Contexts : d # c => s_phase'[d] = s_phase[d]
  BY DEF LibraryInv
<1>2. Users' = Users \cup {c} /\ c \notin Users
  BY <1>1 DEF Users
<1>3. Cardinality(Users \cup {c}) = Cardinality(Users) + 1
  BY <1>2, UsersAreFinite, FS_AddElement
<1>. QED BY <1>1, <1>2, <1>3

\* A context that is counted stays so.
LEMMA SameUsers ==
  ASSUME LibraryInv, NEW c \in Contexts, s_phase[c] \notin {"none", "stopped"},
         NEW p \in Phases \ {"none", "stopped", "no memory"}, s_phase[c] # "no memory",
         s_phase' = [s_phase EXCEPT ![c] = p], UNCHANGED S!library
  PROVE  LibraryInv'
<1>1. /\ s_phase' \in [Contexts -> Phases] /\ s_phase'[c] = p
      /\ \A d \in Contexts : d # c => s_phase'[d] = s_phase[d]
  BY DEF LibraryInv
<1>2. Users' = Users
  BY <1>1 DEF Users
<1>3. Memory' => Memory
  BY <1>1 DEF Memory
<1>. QED BY <1>1, <1>2, <1>3 DEF LibraryInv, S!library

\* Where initialize_ssl leaves a context.
Started == {"library", "no memory"}

LEMMA InitializeKeeps ==
  ASSUME LibraryInv, NEW c \in Contexts, S!initialize_ssl(c)
  PROVE  LibraryInv'
<1>1. PICK p \in Started : S!Phase(c, p)
  BY DEF S!initialize_ssl, Started
<1>2. /\ s_phase' \in [Contexts -> Phases] /\ s_phase'[c] = p
      /\ \A d \in Contexts : d # c => s_phase'[d] = s_phase[d]
      /\ Users' = Users \cup {c}
      /\ Cardinality(Users') = Cardinality(Users) + 1
  BY <1>1, OneMoreUser DEF S!initialize_ssl, S!Phase, Phases, Started
<1>3. s_cryptolib_users' = Cardinality(Users')
  BY <1>2 DEF S!initialize_ssl, LibraryInv
<1>4. s_ssl_mutexes' \in BOOLEAN
  BY DEF S!initialize_ssl, LibraryInv
<1>5. s_cryptolib_users' > 1 => Users # {}
  <2>1. s_cryptolib_users' > 1 => Cardinality(Users) > 0
    BY UsersAreFinite DEF S!initialize_ssl, LibraryInv
  <2>2. Users = {} => Cardinality(Users) = 0
    BY FS_EmptySet
  <2>. QED BY <2>1, <2>2
<1>6. Memory' => s_ssl_mutexes'
  <2>. SUFFICES ASSUME Memory'
                PROVE  s_ssl_mutexes'
    OBVIOUS
  <2>1. p = "library"
    BY <1>2 DEF Memory, Started
  <2>2. CASE s_cryptolib_users' > 1
    <3>1. Users # {}
      BY <2>2, <1>5
    <3>2. Memory
      BY <1>2 DEF Memory, S!initialize_ssl
    <3>3. s_ssl_mutexes
      BY <3>1, <3>2 DEF LibraryInv
    <3>. QED BY <2>2, <3>3 DEF S!initialize_ssl
  <2>3. CASE ~(s_cryptolib_users' > 1)
    <3>1. ~S!Phase(c, "no memory")
      BY <1>1, <1>2, <2>1 DEF S!Phase
    <3>. QED BY <2>3, <3>1 DEF S!initialize_ssl
  <2>. QED BY <2>2, <2>3
<1>. QED BY <1>2, <1>3, <1>4, <1>6 DEF LibraryInv

LEMMA UninitializeKeeps ==
  ASSUME LibraryInv, NEW c \in Contexts, S!uninitialize_ssl(c)
  PROVE  LibraryInv'
<1>1. s_phase' = [s_phase EXCEPT ![c] = "stopped"] /\ s_phase[c] = "stopping"
  BY DEF S!uninitialize_ssl, S!Phase
<1>2. /\ s_phase' \in [Contexts -> Phases] /\ s_phase'[c] = "stopped"
      /\ \A d \in Contexts : d # c => s_phase'[d] = s_phase[d]
  BY <1>1 DEF LibraryInv, Phases
<1>3. Users' = Users \ {c} /\ c \in Users
  BY <1>1, <1>2 DEF Users
<1>4. Cardinality(Users \ {c}) = Cardinality(Users) - 1
  BY <1>3, UsersAreFinite, FS_RemoveElement
<1>5. s_cryptolib_users' = Cardinality(Users')
  BY <1>3, <1>4 DEF S!uninitialize_ssl, LibraryInv
<1>6. Memory' => Memory
  BY <1>1, <1>2 DEF Memory
<1>7. Users' # {} => s_cryptolib_users' # 0
  <2>1. IsFiniteSet(Users')
    BY <1>3, UsersAreFinite, FS_RemoveElement
  <2>. QED BY <2>1, <1>5, FS_EmptySet
<1>8. s_ssl_mutexes' \in BOOLEAN /\ (s_ssl_mutexes' <=> s_ssl_mutexes /\ s_cryptolib_users' # 0)
  BY DEF S!uninitialize_ssl
<1>9. Users # {}
  BY <1>3
<1>. QED BY <1>2, <1>5, <1>6, <1>7, <1>8, <1>9 DEF LibraryInv

LEMMA LibraryKeeps == LibraryInv /\ [S!Next]_S!vars => LibraryInv'
<1>. SUFFICES ASSUME LibraryInv, [S!Next]_S!vars
              PROVE  LibraryInv'
  OBVIOUS
<1>1. ASSUME NEW c \in Contexts, S!set_ssl_option(c)
      PROVE  LibraryInv'
  <2>1. PICK p \in {"key", "chain", "running", "failed"} : s_phase' = [s_phase EXCEPT ![c] = p]
    BY <1>1 DEF S!set_ssl_option, S!Phase
  <2>. QED BY <1>1, <2>1, SameUsers DEF S!set_ssl_option, Phases
<1>2. ASSUME NEW c \in Contexts, S!Stop(c)
      PROVE  LibraryInv'
  BY <1>2, SameUsers DEF S!Stop, S!Phase, Phases
<1>3. CASE UNCHANGED <<S!library, s_phase>>
  BY <1>3 DEF LibraryInv, S!library, Users, Memory
<1>4. ASSUME NEW w \in SslWorkers, S!Accept(w) \/ S!sslize(w) \/ S!Done(w)
      PROVE  UNCHANGED <<S!library, s_phase>>
  BY <1>4 DEF S!Accept, S!Done, S!sslize, S!refresh_trust, S!Reload, S!Stat, S!Compare, S!Test, S!Set,
     S!UseCertificate, S!UseKey, S!UseChain, S!Handshake
<1>5. S!Rotate \/ UNCHANGED S!vars => UNCHANGED <<S!library, s_phase>>
  BY DEF S!Rotate, S!vars
<1>. QED BY <1>1, <1>2, <1>3, <1>4, <1>5, InitializeKeeps, UninitializeKeeps DEF S!Next

\* While a context with TLS runs or is being stopped, the mutexes of the library are there,
\* however many contexts there are and in whatever order they start, fail and stop.
THEOREM LibraryStays == PartsSpec => [](part = "ssl" => S!LibraryWhileUsed)
<1>1. LibraryInv => S!LibraryWhileUsed
  BY DEF LibraryInv, Memory, Users, S!LibraryWhileUsed
<1>2. S!Spec => []LibraryInv
  BY LibraryStart, LibraryKeeps, PTL DEF S!Spec
<1>. QED BY <1>1, <1>2, SslAlone, PTL

-----------------------------------------------------------------------------
(* The certificate that is replaced while one worker makes handshakes.     *)

OneWorker == \A v, w \in SslWorkers : v = w

\* A pair that was checked; and one a handshake may be made with, which is such a pair or has
\* lost its key to the certificate that was read last.
Checked(p) == p.cert = p.key /\ p.cert \notin Bad
Matched(p) == IF p.late THEN p.key = S!NoCert ELSE Checked(p)

Pairs == [cert : Int, key : Int, late : BOOLEAN]
Stations ==
  {"idle", "stat", "compare", "test", "set", "certificate", "key", "chain", "wait", "shaken"}

TrustTypes ==
  /\ s_ssl_ctx \in [Contexts -> Pairs] /\ s_served \in [SslWorkers -> Pairs]
  /\ s_worker \in [SslWorkers -> Stations] /\ s_phase \in [Contexts -> Phases]
  /\ s_file \in Int /\ s_reload_lock \in BOOLEAN

\* A context that a worker is busy with has been started and not yet been stopped.
BusyInv ==
  \A w \in SslWorkers : s_worker[w] # "idle" => s_phase[FirstContext(w)] \in {"running", "stopping"}

\* A context has a pair that matches, unless it is only being started.
Settled(c) == s_phase[c] \in {"key", "chain"} \/ Matched(s_ssl_ctx[c])

\* The pair of a context that is being started is checked before its chain is read.
StartInv == \A c \in Contexts : s_phase[c] = "chain" => Checked(s_ssl_ctx[c])

\* Without the lock every context is settled; with it, at most the one whose file is still to be
\* read again is not, or the lock is never given back.  Its pair, too, is checked before the chain.
LockInv ==
  /\ ~s_reload_lock => \A c \in Contexts : Settled(c)
  /\ \A w \in SslWorkers :
       /\ s_worker[w] = "set" => ~s_reload_lock
       /\ s_worker[w] \in {"certificate", "key", "chain"} => s_reload_lock
       /\ s_worker[w] = "certificate" => \A c \in Contexts : Settled(c)
       /\ s_worker[w] \in {"key", "chain"} =>
            \A c \in Contexts : c # FirstContext(w) => Settled(c)
       /\ s_worker[w] = "chain" => Checked(s_ssl_ctx[FirstContext(w)])

ServedInv == \A w \in SslWorkers : Matched(s_served[w])

TrustInv == TrustTypes /\ BusyInv /\ StartInv /\ LockInv /\ ServedInv

LEMMA ContextOfWorker == \A w : FirstContext(w) \in Contexts
BY PartsAssumption DEF FirstContext

LEMMA NoneMatches == S!None \in Pairs /\ Matched(S!None)
BY PartsAssumption DEF S!None, S!NoCert, Pairs, Matched, Checked

\* What the library makes of a pair when it reads a certificate; behind the check of the key the
\* pair is one that matches, whatever the file is by then.
LEMMA CertifiedIs ==
  ASSUME NEW p \in Pairs, s_file \in Int, NEW chain \in BOOLEAN
  PROVE  /\ S!Certified(p, chain) \in Pairs
         /\ chain /\ Checked(p) => Matched(S!Certified(p, chain))
<1>. DEFINE k == IF S!Belong(p.key) THEN p.key ELSE S!NoCert
            l == chain /\ s_file # p.key
<1>1. k \in Int /\ l \in BOOLEAN /\ (S!Belong(p.key) => k = p.key) /\ (~S!Belong(p.key) => k = S!NoCert)
  BY DEF Pairs, S!NoCert
<1>2. S!Certified(p, chain) = [cert |-> s_file, key |-> k, late |-> l]
  BY DEF S!Certified
<1>. HIDE DEF k
<1>3. chain /\ Checked(p) => Matched([cert |-> s_file, key |-> k, late |-> l])
  BY <1>1 DEF Checked, Matched, S!Belong
<1>. QED BY <1>1, <1>2, <1>3 DEF Pairs

LEMMA TrustStart == S!Init => TrustInv
<1>. SUFFICES ASSUME S!Init
              PROVE  TrustInv
  OBVIOUS
<1>1. TrustTypes
  <2>1. s_ssl_ctx \in [Contexts -> Pairs] /\ s_served \in [SslWorkers -> Pairs]
    BY NoneMatches DEF S!Init
  <2>2. s_worker \in [SslWorkers -> Stations] /\ s_phase \in [Contexts -> Phases]
    BY DEF S!Init, Stations, Phases
  <2>3. s_file \in Int
    BY DEF S!Init
  <2>4. s_reload_lock \in BOOLEAN
    BY Zenon DEF S!Init
  <2>. QED BY <2>1, <2>2, <2>3, <2>4 DEF TrustTypes
<1>2. BusyInv
  BY DEF S!Init, BusyInv
<1>3. StartInv /\ LockInv
  BY NoneMatches DEF S!Init, StartInv, LockInv, Settled
<1>4. ServedInv
  BY NoneMatches DEF S!Init, ServedInv
<1>. QED BY <1>1, <1>2, <1>3, <1>4 DEF TrustInv

\* The application starts and stops a context: that of a context nobody is busy with becomes a
\* pair that matches, if not at once.
LEMMA AppKeepsTrust ==
  ASSUME TrustInv, NEW c \in Contexts,
         S!initialize_ssl(c) \/ S!set_ssl_option(c) \/ S!Stop(c) \/ S!uninitialize_ssl(c)
  PROVE  TrustInv'
<1>1. UNCHANGED <<s_file, s_reload_lock, s_worker, s_served>>
  BY DEF S!initialize_ssl, S!set_ssl_option, S!Stop, S!uninitialize_ssl
<1>2. PICK p \in Phases : s_phase' = [s_phase EXCEPT ![c] = p]
  BY DEF S!initialize_ssl, S!set_ssl_option, S!Stop, S!uninitialize_ssl, S!Phase, Phases
<1>3. /\ s_phase' \in [Contexts -> Phases] /\ s_phase'[c] = p
      /\ \A d \in Contexts : d # c => s_phase'[d] = s_phase[d]
  BY <1>2 DEF TrustInv, TrustTypes
<1>4. \/ s_ssl_ctx' = s_ssl_ctx /\ s_phase[c] \notin {"key", "chain"} /\ p \notin {"key", "chain"}
      \/ \E q \in Pairs : /\ s_ssl_ctx' = [s_ssl_ctx EXCEPT ![c] = q]
                           /\ \/ p = "key"
                              \/ p = "chain" /\ Checked(q)
                              \/ p # "chain" /\ Matched(q)
  <2>1. CASE S!initialize_ssl(c) \/ S!Stop(c)
    BY <2>1, <1>3 DEF S!initialize_ssl, S!Stop, S!Phase
  <2>2. CASE S!uninitialize_ssl(c)
    BY <2>2, <1>3, NoneMatches DEF S!uninitialize_ssl, S!Phase, TrustInv, TrustTypes
  <2>3. CASE S!set_ssl_option(c)
    <3>. DEFINE old == s_ssl_ctx[c]
    <3>1. old \in Pairs /\ s_file \in Int
      BY DEF TrustInv, TrustTypes
    <3>2. CASE s_ssl_ctx' = [s_ssl_ctx EXCEPT ![c] = S!None] /\ S!Phase(c, "failed")
      BY <3>2, <1>3, NoneMatches DEF S!Phase, TrustInv, TrustTypes
    <3>3. CASE s_phase[c] = "library" /\ s_ssl_ctx' = [s_ssl_ctx EXCEPT ![c] = S!Certified(@, FALSE)]
               /\ S!Phase(c, "key")
      <4>1. s_ssl_ctx' = [s_ssl_ctx EXCEPT ![c] = S!Certified(old, FALSE)] /\ p = "key"
        BY <3>3, <1>3 DEF S!Phase, TrustInv, TrustTypes
      <4>. QED BY <4>1, <3>1, CertifiedIs
    <3>4. CASE s_phase[c] = "key" /\ S!Belong(s_ssl_ctx[c].cert)
               /\ s_ssl_ctx' = [s_ssl_ctx EXCEPT ![c].key = s_file] /\ S!Phase(c, "chain")
      <4>. DEFINE q == [old EXCEPT !.key = s_file]
      <4>1. s_ssl_ctx' = [s_ssl_ctx EXCEPT ![c] = q] /\ p = "chain"
        BY <3>4, <1>3 DEF S!Phase, TrustInv, TrustTypes
      <4>2. q \in Pairs /\ q.cert = s_file /\ q.key = s_file /\ s_file \notin Bad
        BY <3>1, <3>4 DEF Pairs, S!Belong
      <4>. QED BY <4>1, <4>2 DEF Checked
    <3>5. CASE s_phase[c] = "chain" /\ s_ssl_ctx' = [s_ssl_ctx EXCEPT ![c] = S!Certified(@, TRUE)]
               /\ S!Phase(c, "running")
      <4>1. s_ssl_ctx' = [s_ssl_ctx EXCEPT ![c] = S!Certified(old, TRUE)] /\ Checked(old)
        BY <3>5 DEF TrustInv, StartInv
      <4>2. p = "running"
        BY <3>5, <1>3 DEF S!Phase, TrustInv, TrustTypes
      <4>. QED BY <4>1, <4>2, <3>1, CertifiedIs
    <3>. QED BY <2>3, <3>2, <3>3, <3>4, <3>5 DEF S!set_ssl_option
  <2>. QED BY <2>1, <2>2, <2>3
<1>5. /\ \A d \in Contexts : d # c => s_ssl_ctx'[d] = s_ssl_ctx[d]
      /\ Settled(c) => Settled(c)'
      /\ p = "chain" => Checked(s_ssl_ctx'[c])
  <2>1. CASE s_ssl_ctx' = s_ssl_ctx /\ s_phase[c] \notin {"key", "chain"} /\ p \notin {"key", "chain"}
    BY <2>1, <1>3 DEF Settled
  <2>2. ASSUME NEW q \in Pairs, s_ssl_ctx' = [s_ssl_ctx EXCEPT ![c] = q],
               p = "key" \/ (p = "chain" /\ Checked(q)) \/ (p # "chain" /\ Matched(q))
        PROVE  /\ \A d \in Contexts : d # c => s_ssl_ctx'[d] = s_ssl_ctx[d]
               /\ Settled(c) => Settled(c)'
               /\ p = "chain" => Checked(s_ssl_ctx'[c])
    <3>1. s_ssl_ctx'[c] = q /\ \A d \in Contexts : d # c => s_ssl_ctx'[d] = s_ssl_ctx[d]
      BY <2>2 DEF TrustInv, TrustTypes
    <3>. QED BY <2>2, <3>1, <1>3 DEF Settled
  <2>. QED BY <1>4, <2>1, <2>2
<1>9. \A d \in Contexts : d # c => s_phase'[d] = s_phase[d] /\ (Settled(d) => Settled(d)')
  BY <1>3, <1>5 DEF Settled
<1>10. TrustTypes'
  <2>1. s_ssl_ctx' \in [Contexts -> Pairs]
    BY <1>4 DEF TrustInv, TrustTypes
  <2>2. s_phase' \in [Contexts -> Phases]
    BY <1>3
  <2>. QED BY <1>1, <2>1, <2>2 DEF TrustInv, TrustTypes
<1>6. BusyInv'
  <2>. SUFFICES ASSUME NEW w \in SslWorkers, s_worker'[w] # "idle"
                PROVE  s_phase'[FirstContext(w)] \in {"running", "stopping"}
    BY DEF BusyInv
  <2>1. s_phase[FirstContext(w)] \in {"running", "stopping"}
    BY <1>1 DEF TrustInv, BusyInv
  <2>2. CASE FirstContext(w) # c
    BY <1>2, <2>1, <2>2, ContextOfWorker DEF TrustInv, TrustTypes
  <2>3. CASE FirstContext(w) = c
    <3>1. S!Stop(c) \/ S!uninitialize_ssl(c)
      BY <2>1, <2>3 DEF S!initialize_ssl, S!set_ssl_option
    <3>2. ~S!uninitialize_ssl(c)
      BY <1>1, <2>3 DEF S!uninitialize_ssl, S!Crew
    <3>3. s_phase' = [s_phase EXCEPT ![c] = "stopping"]
      BY <3>1, <3>2 DEF S!Stop, S!Phase
    <3>. QED BY <3>3, <2>3 DEF TrustInv, TrustTypes
  <2>. QED BY <2>2, <2>3
<1>7. LockInv' /\ StartInv'
  <2>1. StartInv'
    BY <1>3, <1>5 DEF TrustInv, StartInv
  <2>2. \A w \in SslWorkers : s_worker[w] # "idle" => FirstContext(w) # c \/ S!Stop(c)
    <3>. SUFFICES ASSUME NEW w \in SslWorkers, s_worker[w] # "idle", FirstContext(w) = c
                  PROVE  S!Stop(c)
      OBVIOUS
    <3>1. s_phase[c] \in {"running", "stopping"}
      BY DEF TrustInv, BusyInv
    <3>2. ~S!uninitialize_ssl(c)
      BY DEF S!uninitialize_ssl, S!Crew
    <3>. QED BY <3>1, <3>2 DEF S!initialize_ssl, S!set_ssl_option
  <2>3. S!Stop(c) => s_ssl_ctx' = s_ssl_ctx
    BY DEF S!Stop
  <2>4. \A w \in SslWorkers : s_worker[w] = "chain" => Checked(s_ssl_ctx'[FirstContext(w)])
    BY <1>5, <2>2, <2>3, ContextOfWorker DEF TrustInv, LockInv
  <2>5. \A d \in Contexts : Settled(d) => Settled(d)'
    BY <1>5, <1>9
  <2>6. LockInv'
    BY <1>1, <2>4, <2>5 DEF TrustInv, LockInv
  <2>. QED BY <2>1, <2>6
<1>8. ServedInv'
  BY <1>1 DEF TrustInv, ServedInv
<1>. QED BY <1>10, <1>6, <1>7, <1>8 DEF TrustInv

\* A step of the worker that changes where it is, and neither pairs, phases nor the lock.
LEMMA WorkerGoes ==
  ASSUME TrustInv, NEW w \in SslWorkers, OneWorker,
         NEW s \in Stations \ {"set", "certificate", "key", "chain"}, S!Goto(w, s),
         s = "idle" \/ s_worker[w] # "idle" \/ s_phase[FirstContext(w)] = "running",
         UNCHANGED <<s_phase, s_ssl_ctx, s_file, s_reload_lock>>,
         NEW p \in Pairs, Matched(p), s_served' = s_served \/ s_served' = [s_served EXCEPT ![w] = p]
  PROVE  TrustInv'
<1>1. s_worker' = [s_worker EXCEPT ![w] = s]
  BY DEF S!Goto
<1>2. s_worker' \in [SslWorkers -> Stations] /\ \A v \in SslWorkers : v = w /\ s_worker'[v] = s
  BY <1>1 DEF TrustInv, TrustTypes, OneWorker
<1>3. s_served' \in [SslWorkers -> Pairs] /\ \A v \in SslWorkers : Matched(s_served'[v])
  BY DEF TrustInv, TrustTypes, ServedInv
<1>4. TrustTypes'
  BY <1>2, <1>3 DEF TrustInv, TrustTypes
<1>5. BusyInv'
  BY <1>2 DEF TrustInv, BusyInv
<1>6. StartInv' /\ LockInv'
  BY <1>2 DEF TrustInv, StartInv, LockInv, Settled
<1>7. ServedInv'
  BY <1>3 DEF ServedInv
<1>. QED BY <1>4, <1>5, <1>6, <1>7 DEF TrustInv

LEMMA ReloadKeeps ==
  ASSUME TrustInv, NEW w \in SslWorkers, OneWorker,
         S!Set(w) \/ S!UseCertificate(w) \/ S!UseKey(w) \/ S!UseChain(w)
  PROVE  TrustInv'
<1>. DEFINE c == FirstContext(w)
<1>0. c \in Contexts
  BY ContextOfWorker
<1>. HIDE DEF c
<1>1. UNCHANGED <<s_phase, s_file, s_served>>
  BY DEF S!Set, S!UseCertificate, S!UseKey, S!UseChain
<1>2. \A v \in SslWorkers : v = w
  BY DEF OneWorker
<1>3. PICK s \in Stations : s_worker' = [s_worker EXCEPT ![w] = s]
  BY DEF S!Set, S!UseCertificate, S!UseKey, S!UseChain, S!Goto, Stations
<1>4. s_worker' \in [SslWorkers -> Stations] /\ \A v \in SslWorkers : s_worker'[v] = s
  BY <1>2, <1>3 DEF TrustInv, TrustTypes
<1>5. s_worker[w] # "idle"
  BY DEF S!Set, S!UseCertificate, S!UseKey, S!UseChain
<1>6. BusyInv'
  BY <1>1, <1>2, <1>4, <1>5 DEF TrustInv, BusyInv
<1>7. ServedInv'
  BY <1>1 DEF TrustInv, ServedInv
<1>11. s_phase[c] \in {"running", "stopping"} /\ s_ssl_ctx[c] \in Pairs /\ s_file \in Int
  BY <1>0, <1>5 DEF TrustInv, TrustTypes, BusyInv, c
<1>12. ASSUME NEW q \in Pairs, s_ssl_ctx' = [s_ssl_ctx EXCEPT ![c] = q]
       PROVE  /\ s_ssl_ctx' \in [Contexts -> Pairs] /\ s_ssl_ctx'[c] = q
              /\ \A d \in Contexts : d # c => s_ssl_ctx'[d] = s_ssl_ctx[d] /\ (Settled(d) => Settled(d)')
              /\ StartInv'
  <2>1. /\ s_ssl_ctx' \in [Contexts -> Pairs] /\ s_ssl_ctx'[c] = q
        /\ \A d \in Contexts : d # c => s_ssl_ctx'[d] = s_ssl_ctx[d]
    BY <1>0, <1>12 DEF TrustInv, TrustTypes
  <2>2. StartInv'
    BY <1>1, <1>11, <2>1 DEF TrustInv, StartInv
  <2>. QED BY <1>1, <2>1, <2>2 DEF Settled
<1>8. CASE S!Set(w)
  <2>1. s_reload_lock' = TRUE /\ s_ssl_ctx' = s_ssl_ctx /\ s = "certificate"
    BY <1>8, <1>3 DEF S!Set, S!Goto, TrustInv, TrustTypes
  <2>2. \A d \in Contexts : Settled(d)
    BY <1>8 DEF S!Set, TrustInv, LockInv
  <2>3. LockInv' /\ StartInv'
    BY <1>1, <1>4, <2>1, <2>2 DEF TrustInv, LockInv, StartInv, Settled
  <2>4. TrustTypes'
    BY <1>1, <1>4, <2>1 DEF TrustInv, TrustTypes
  <2>. QED BY <1>6, <1>7, <2>3, <2>4 DEF TrustInv
<1>9. CASE S!UseCertificate(w)
  <2>1. s_reload_lock' = s_reload_lock /\ s_reload_lock /\ s = "key"
    BY <1>9, <1>3 DEF S!UseCertificate, S!Goto, TrustInv, TrustTypes, LockInv
  <2>2. s_ssl_ctx' = [s_ssl_ctx EXCEPT ![c] = S!Certified(s_ssl_ctx[c], FALSE)]
    BY <1>9 DEF S!UseCertificate, c
  <2>3. S!Certified(s_ssl_ctx[c], FALSE) \in Pairs
    BY <1>11, CertifiedIs
  <2>4. \A d \in Contexts : Settled(d)
    BY <1>9 DEF S!UseCertificate, TrustInv, LockInv
  <2>5. LockInv'
    BY <1>2, <1>4, <1>12, <2>1, <2>2, <2>3, <2>4 DEF LockInv, c
  <2>6. TrustTypes' /\ StartInv'
    BY <1>1, <1>4, <1>12, <2>1, <2>2, <2>3 DEF TrustInv, TrustTypes
  <2>. QED BY <1>6, <1>7, <2>5, <2>6 DEF TrustInv
<1>10. CASE S!UseKey(w)
  <2>1. s_reload_lock /\ s_reload_lock' = s_reload_lock /\ \A d \in Contexts : d # c => Settled(d)
    BY <1>10 DEF S!UseKey, TrustInv, LockInv, c
  <2>2. CASE ~S!Belong(s_ssl_ctx[c].cert)
    <3>. DEFINE q == [s_ssl_ctx[c] EXCEPT !.cert = S!NoCert]
    <3>1. s_ssl_ctx' = [s_ssl_ctx EXCEPT ![c] = q] /\ s = "idle"
      BY <1>10, <1>3, <2>2 DEF S!UseKey, S!Goto, TrustInv, TrustTypes, c
    <3>2. q \in Pairs
      BY <1>11 DEF Pairs, S!NoCert
    <3>3. LockInv'
      BY <1>4, <2>1, <3>1 DEF LockInv
    <3>4. TrustTypes' /\ StartInv'
      BY <1>1, <1>4, <1>12, <2>1, <3>1, <3>2 DEF TrustInv, TrustTypes
    <3>. QED BY <1>6, <1>7, <3>3, <3>4 DEF TrustInv
  <2>3. CASE S!Belong(s_ssl_ctx[c].cert)
    <3>. DEFINE q == [s_ssl_ctx[c] EXCEPT !.key = s_file]
    <3>1. s_ssl_ctx' = [s_ssl_ctx EXCEPT ![c] = q] /\ s = "chain"
      BY <1>10, <1>3, <2>3 DEF S!UseKey, S!Goto, TrustInv, TrustTypes, c
    <3>2. q \in Pairs /\ q.cert = s_file /\ q.key = s_file /\ s_file \notin Bad
      BY <1>11, <2>3 DEF Pairs, S!Belong
    <3>. HIDE DEF q
    <3>3. LockInv'
      BY <1>2, <1>4, <1>12, <2>1, <3>1, <3>2 DEF LockInv, Checked, c
    <3>4. TrustTypes' /\ StartInv'
      BY <1>1, <1>4, <1>12, <2>1, <3>1, <3>2 DEF TrustInv, TrustTypes
    <3>. QED BY <1>6, <1>7, <3>3, <3>4 DEF TrustInv
  <2>. QED BY <2>2, <2>3
<1>13. CASE S!UseChain(w)
  <2>. DEFINE q == S!Certified(s_ssl_ctx[c], TRUE)
  <2>1. s_reload_lock' = FALSE /\ s_ssl_ctx' = [s_ssl_ctx EXCEPT ![c] = q] /\ s = "wait"
    BY <1>13, <1>3 DEF S!UseChain, S!Goto, TrustInv, TrustTypes, c
  <2>2. Checked(s_ssl_ctx[c]) /\ \A d \in Contexts : d # c => Settled(d)
    BY <1>13 DEF S!UseChain, TrustInv, LockInv, c
  <2>3. q \in Pairs /\ Matched(q)
    BY <1>11, <2>2, CertifiedIs
  <2>. HIDE DEF q
  <2>4. \A d \in Contexts : Settled(d)'
    BY <1>12, <2>1, <2>2, <2>3 DEF Settled
  <2>5. LockInv'
    BY <1>4, <2>1, <2>4 DEF LockInv
  <2>6. TrustTypes' /\ StartInv'
    BY <1>1, <1>4, <1>12, <2>1, <2>3 DEF TrustInv, TrustTypes
  <2>. QED BY <1>6, <1>7, <2>5, <2>6 DEF TrustInv
<1>. QED BY <1>8, <1>9, <1>10, <1>13

LEMMA TrustKeeps ==
  ASSUME OneWorker
  PROVE  TrustInv /\ [S!Next]_S!vars => TrustInv'
<1>. SUFFICES ASSUME TrustInv, [S!Next]_S!vars
              PROVE  TrustInv'
  OBVIOUS
<1>. DEFINE Steady == UNCHANGED <<s_phase, s_ssl_ctx, s_file, s_reload_lock>>
<1>1. CASE S!Rotate
  <2>1. s_file' \in Int /\ UNCHANGED <<s_phase, s_ssl_ctx, s_reload_lock, s_worker, s_served>>
    BY <1>1 DEF S!Rotate, TrustInv, TrustTypes
  <2>. QED BY <2>1 DEF TrustInv, TrustTypes, BusyInv, StartInv, LockInv, Settled, ServedInv
<1>2. ASSUME NEW w \in SslWorkers, S!Accept(w)
      PROVE  TrustInv'
  <2>1. S!Goto(w, "stat") /\ Steady /\ s_served' = s_served /\ s_phase[FirstContext(w)] = "running"
    BY <1>2 DEF S!Accept
  <2>. QED BY <2>1, NoneMatches, WorkerGoes DEF Stations
<1>3. ASSUME NEW w \in SslWorkers, S!Stat(w)
      PROVE  TrustInv'
  <2>1. S!Goto(w, "compare") /\ Steady /\ s_served' = s_served /\ s_worker[w] # "idle"
    BY <1>3 DEF S!Stat
  <2>. QED BY <2>1, NoneMatches, WorkerGoes DEF Stations
<1>4. ASSUME NEW w \in SslWorkers, S!Compare(w)
      PROVE  TrustInv'
  <2>1. Steady /\ s_served' = s_served /\ s_worker[w] # "idle"
    BY <1>4 DEF S!Compare
  <2>2. PICK s \in {"wait", "test", "idle"} : S!Goto(w, s)
    BY <1>4 DEF S!Compare
  <2>. QED BY <2>1, <2>2, NoneMatches, WorkerGoes DEF Stations
<1>5. ASSUME NEW w \in SslWorkers, S!Test(w)
      PROVE  TrustInv'
  <2>1. Steady /\ s_served' = s_served /\ s_worker[w] # "idle"
    BY <1>5 DEF S!Test
  <2>2. CASE s_reload_lock
    <3>1. S!Goto(w, "wait")
      BY <1>5, <2>2 DEF S!Test
    <3>. QED BY <2>1, <3>1, NoneMatches, WorkerGoes DEF Stations
  <2>3. CASE ~s_reload_lock
    <3>1. s_worker' = [s_worker EXCEPT ![w] = "set"]
      BY <1>5, <2>3 DEF S!Test, S!Goto
    <3>2. s_worker' \in [SslWorkers -> Stations] /\ \A v \in SslWorkers : v = w /\ s_worker'[v] = "set"
      BY <3>1 DEF OneWorker, TrustInv, TrustTypes, Stations
    <3>3. TrustTypes'
      BY <2>1, <3>2 DEF TrustInv, TrustTypes
    <3>4. BusyInv'
      BY <2>1, <3>2 DEF TrustInv, BusyInv
    <3>5. StartInv' /\ LockInv'
      BY <2>1, <2>3, <3>2 DEF TrustInv, StartInv, LockInv, Settled
    <3>6. ServedInv'
      BY <2>1 DEF TrustInv, ServedInv
    <3>. QED BY <3>3, <3>4, <3>5, <3>6 DEF TrustInv
  <2>. QED BY <2>2, <2>3
<1>6. ASSUME NEW w \in SslWorkers, S!Handshake(w)
      PROVE  TrustInv'
  <2>1. /\ S!Goto(w, "shaken") /\ Steady /\ s_worker[w] # "idle"
        /\ s_served' = [s_served EXCEPT ![w] = s_ssl_ctx[FirstContext(w)]]
    BY <1>6 DEF S!Handshake
  <2>2. s_ssl_ctx[FirstContext(w)] \in Pairs /\ Matched(s_ssl_ctx[FirstContext(w)])
    <3>1. s_phase[FirstContext(w)] \in {"running", "stopping"}
      BY <2>1 DEF TrustInv, BusyInv
    <3>. QED BY <1>6, <3>1, ContextOfWorker DEF S!Handshake, TrustInv, TrustTypes, LockInv, Settled
  <2>. QED BY <2>1, <2>2, WorkerGoes DEF Stations
<1>7. ASSUME NEW w \in SslWorkers, S!Done(w)
      PROVE  TrustInv'
  <2>1. S!Goto(w, "idle") /\ Steady /\ s_served' = [s_served EXCEPT ![w] = S!None]
    BY <1>7 DEF S!Done
  <2>. QED BY <2>1, NoneMatches, WorkerGoes DEF Stations
<1>8. CASE UNCHANGED S!vars
  BY <1>8 DEF S!vars, TrustInv, TrustTypes, BusyInv, StartInv, LockInv, Settled, ServedInv
<1>. QED BY <1>1, <1>2, <1>3, <1>4, <1>5, <1>6, <1>7, <1>8, AppKeepsTrust, ReloadKeeps
         DEF S!Next, S!sslize, S!refresh_trust, S!Reload

\* However the file is replaced and contexts start and stop, one worker never makes a handshake
\* with a certificate and a key that do not belong together, and what it uses of the library is
\* there; when the file is replaced once more, behind the check of the key, the handshake is made
\* without a key.  With two workers the first is false: reload_lock is tested and then set.
THEOREM TlsCorrect ==
  ASSUME OneWorker
  PROVE  PartsSpec => []TlsIsSound
<1>1. TrustInv => S!MatchingPair
  BY DEF TrustInv, ServedInv, Matched, Checked, S!MatchingPair
<1>2. S!Spec => []TrustInv
  BY TrustStart, TrustKeeps, PTL DEF S!Spec
<1>3. S!MatchingPair /\ (part = "ssl" => S!LibraryWhileUsed) => TlsIsSound
  BY DEF TlsIsSound
<1>. QED BY <1>1, <1>2, <1>3, SslAlone, LibraryStays, PTL

(***************************************************************************)
(* Websockets.  What an end has been sent and has not read is a stream of  *)
(* bytes: its queue, what is on the net, and the data of the frame whose   *)
(* header is written.  The invariant says that this stream is the frames   *)
(* of the messages that are still to come, one behind the other, or what   *)
(* is left of one and then the others (StreamInv).  A header is read as it *)
(* was written, in each of the three formats of a length (HeaderIsParsed); *)
(* unmasking takes the mask away (Unmasked); and no step of either end     *)
(* makes anything else of the stream.                                      *)
(***************************************************************************)

-----------------------------------------------------------------------------
(* Streams of bytes.  The provers know them by their sizes and their bytes *)
(* alone: none of these definitions is expanded below the next six lemmas. *)

Bytes == Seq(Nat)
Size(x) == Len(x)
Cat(x, y) == x \o y
First(x, n) == SubSeq(x, 1, n)
Rest(x, n) == SubSeq(x, n + 1, Len(x))

LEMMA Sizes ==
  ASSUME NEW x \in Bytes
  PROVE  Size(x) \in Nat /\ \A i \in 1..Size(x) : x[i] \in Nat
BY DEF Bytes, Size

LEMMA SameBytes ==
  ASSUME NEW x \in Bytes, NEW y \in Bytes, Size(x) = Size(y), \A i \in 1..Size(x) : x[i] = y[i]
  PROVE  x = y
BY SeqEqual DEF Bytes, Size

LEMMA FunctionIsBytes ==
  ASSUME NEW n \in Nat, NEW f \in [1..n -> Nat]
  PROVE  f \in Bytes /\ Size(f) = n
BY DEF Bytes, Size

LEMMA NoBytes == <<>> \in Bytes /\ Size(<<>>) = 0
BY DEF Bytes, Size

LEMMA Behind ==
  ASSUME NEW x \in Bytes, NEW y \in Bytes
  PROVE  /\ Cat(x, y) \in Bytes /\ Size(Cat(x, y)) = Size(x) + Size(y)
         /\ \A i \in 1..Size(x) : Cat(x, y)[i] = x[i]
         /\ \A i \in 1..Size(y) : Cat(x, y)[Size(x) + i] = y[i]
<1> DEFINE s == x \o y
           n == Len(x)
           m == Len(y)
<1>1. n \in Nat /\ m \in Nat
  BY DEF Bytes
<1>2. /\ s \in Seq(Nat) /\ Len(s) = n + m
      /\ \A i \in 1 .. n + m : s[i] = IF i <= n THEN x[i] ELSE y[i - n]
  BY ConcatProperties DEF Bytes
<1> HIDE DEF s, n, m
<1>3. ASSUME NEW i \in 1..m
      PROVE  s[n + i] = y[i]
  <2>. DEFINE j == n + i
  <2>1. j \in 1 .. n + m /\ ~(j <= n) /\ j - n = i
    BY <1>1
  <2>. HIDE DEF j
  <2>2. s[j] = y[j - n]
    BY <1>2, <2>1
  <2>. QED BY <2>1, <2>2 DEF j
<1>4. \A i \in 1..n : i \in 1 .. n + m /\ i <= n
  BY <1>1
<1>5. \A i \in 1..n : s[i] = x[i]
  BY <1>2, <1>4
<1>. QED BY <1>2, <1>3, <1>5 DEF s, n, m, Size, Cat, Bytes

LEMMA FirstBytes ==
  ASSUME NEW x \in Bytes, NEW n \in 0..Size(x)
  PROVE  First(x, n) \in Bytes /\ Size(First(x, n)) = n /\ \A i \in 1..n : First(x, n)[i] = x[i]
<1>1. n \in Nat /\ 1 \in Int
  BY Sizes
<1>2. \A i \in 1..n : x[i] \in Nat
  BY Sizes
<1>3. /\ SubSeq(x, 1, n) \in Seq(Nat) /\ Len(SubSeq(x, 1, n)) = IF 1 <= n THEN n - 1 + 1 ELSE 0
      /\ \A i \in 1 .. n - 1 + 1 : SubSeq(x, 1, n)[i] = x[1 + i - 1]
  BY <1>1, <1>2, SubSeqProperties
<1>4. n - 1 + 1 = n /\ (IF 1 <= n THEN n - 1 + 1 ELSE 0) = n /\ \A i \in 1..n : 1 + i - 1 = i
  BY <1>1
<1>. QED BY <1>3, <1>4 DEF First, Bytes, Size

LEMMA RestBytes ==
  ASSUME NEW x \in Bytes, NEW n \in 0..Size(x)
  PROVE  /\ Rest(x, n) \in Bytes /\ Size(Rest(x, n)) = Size(x) - n
         /\ \A i \in 1 .. Size(x) - n : Rest(x, n)[i] = x[n + i]
<1> DEFINE l == Size(x)
<1>1. n \in Nat /\ n + 1 \in Int /\ l \in Nat
  BY Sizes
<1>2. \A i \in n + 1 .. l : x[i] \in Nat
  BY <1>1, Sizes
<1> HIDE DEF l
<1>3. /\ SubSeq(x, n + 1, l) \in Seq(Nat)
      /\ Len(SubSeq(x, n + 1, l)) = IF n + 1 <= l THEN l - (n + 1) + 1 ELSE 0
      /\ \A i \in 1 .. l - (n + 1) + 1 : SubSeq(x, n + 1, l)[i] = x[n + 1 + i - 1]
  BY <1>1, <1>2, SubSeqProperties
<1>4. /\ l - (n + 1) + 1 = l - n /\ (IF n + 1 <= l THEN l - (n + 1) + 1 ELSE 0) = l - n
      /\ \A i \in 1 .. l - n : n + 1 + i - 1 = n + i
  BY <1>1 DEF l
<1>. QED BY <1>3, <1>4 DEF Rest, Bytes, Size, l
Bits == 0 .. BASE - 1
Masks == [1..4 -> Bits]

LEMMA PlaceValues ==
  /\ BASE = 2 /\ Place[1] = 1 /\ Place[2] = 2 /\ Place[3] = 4 /\ Place[4] = 8 /\ Place[5] = 16
  /\ Place[6] = 32 /\ Place[7] = 64 /\ Place[8] = 128 /\ Place[9] = 256
BY DEF Place, BASE

\* Whatever the bytes are, a number is one of so many bytes.
LEMMA NumbersAreBounded ==
  ASSUME NEW q \in Bytes, NEW i \in 1..Size(q)
  PROVE  /\ i + 1 <= Size(q) => ntohs(q, i) \in 0..3
         /\ i + 3 <= Size(q) => ntohl(q, i) \in 0..15
<1>1. Size(q) \in Nat /\ \A j \in 1..Size(q) : q[j] \in Nat
  BY Sizes
<1>2. \A j \in 1..Size(q) : q[j] % 2 \in 0..1
  BY <1>1
<1>3. ASSUME NEW j \in 1..Size(q), j + 1 <= Size(q)
      PROVE  ntohs(q, j) \in 0..3
  <2>1. q[j] % 2 \in 0..1 /\ q[j + 1] % 2 \in 0..1
    BY <1>1, <1>2, <1>3
  <2>2. ntohs(q, j) = 2 * (q[j] % 2) + (q[j + 1] % 2)
    BY DEF ntohs, BASE
  <2>3. \A a, b \in 0..1 : 2 * a + b \in 0..3
    OBVIOUS
  <2>. QED BY <2>1, <2>2, <2>3
<1>4. ASSUME i + 3 <= Size(q)
      PROVE  ntohl(q, i) \in 0..15
  <2>1. ntohs(q, i) \in 0..3 /\ ntohs(q, i + 2) \in 0..3
    BY <1>1, <1>3, <1>4
  <2>2. ntohl(q, i) = 4 * ntohs(q, i) + ntohs(q, i + 2)
    BY PlaceValues DEF ntohl
  <2>. QED BY <2>1, <2>2
<1>. QED BY <1>3, <1>4

LEMMA Digits2 ==
  ASSUME NEW n \in 0..3
  PROVE  /\ Digits(n, 2) \in Bytes /\ Size(Digits(n, 2)) = 2
         /\ Digits(n, 2)[1] = (n \div 2) % 2 /\ Digits(n, 2)[2] = n % 2
<1>1. Digits(n, 2) = [i \in 1..2 |-> (n \div Place[3 - i]) % 2]
  BY PlaceValues DEF Digits
<1>2. (n \div Place[3 - 1]) % 2 = (n \div 2) % 2 /\ (n \div Place[3 - 2]) % 2 = n % 2
  BY PlaceValues
<1>. DEFINE d == Digits(n, 2)
<1>3. d[1] = (n \div 2) % 2 /\ d[2] = n % 2
  BY <1>1, <1>2
<1>4. d \in [1..2 -> Nat]
  <2>1. (n \div Place[3 - 1]) % 2 \in Nat /\ (n \div Place[3 - 2]) % 2 \in Nat
    BY <1>2
  <2>2. \A i \in 1..2 : (n \div Place[3 - i]) % 2 \in Nat
    BY <2>1
  <2>. QED BY <1>1, <2>2
<1>. HIDE DEF d
<1>5. d \in Bytes /\ Size(d) = 2
  BY <1>4, FunctionIsBytes
<1>. QED BY <1>3, <1>5 DEF d

LEMMA Digits8 ==
  ASSUME NEW n \in 0..255
  PROVE  /\ Digits(n, 8) \in Bytes /\ Size(Digits(n, 8)) = 8
         /\ Digits(n, 8)[1] = (n \div 128) % 2 /\ Digits(n, 8)[2] = (n \div 64) % 2
         /\ Digits(n, 8)[3] = (n \div 32) % 2 /\ Digits(n, 8)[4] = (n \div 16) % 2
         /\ Digits(n, 8)[5] = (n \div 8) % 2 /\ Digits(n, 8)[6] = (n \div 4) % 2
         /\ Digits(n, 8)[7] = (n \div 2) % 2 /\ Digits(n, 8)[8] = n % 2
<1>1. Digits(n, 8) = [i \in 1..8 |-> (n \div Place[9 - i]) % 2]
  BY PlaceValues DEF Digits
<1>. DEFINE d == Digits(n, 8)
<1>. HIDE DEF d
<1>2. DOMAIN d = 1..8 /\ \A i \in 1..8 : d[i] = (n \div Place[9 - i]) % 2
  BY <1>1 DEF d
<1>3. /\ d[1] = (n \div Place[8]) % 2 /\ d[2] = (n \div Place[7]) % 2
      /\ d[3] = (n \div Place[6]) % 2 /\ d[4] = (n \div Place[5]) % 2
      /\ d[5] = (n \div Place[4]) % 2 /\ d[6] = (n \div Place[3]) % 2
      /\ d[7] = (n \div Place[2]) % 2 /\ d[8] = (n \div Place[1]) % 2
  BY <1>2
<1>4. /\ d[1] = (n \div 128) % 2 /\ d[2] = (n \div 64) % 2
      /\ d[3] = (n \div 32) % 2 /\ d[4] = (n \div 16) % 2
      /\ d[5] = (n \div 8) % 2 /\ d[6] = (n \div 4) % 2
      /\ d[7] = (n \div 2) % 2 /\ d[8] = n % 2
  <2>1. n \div 1 = n
    OBVIOUS
  <2>. QED BY <1>3, <2>1, PlaceValues
<1>5. \A i \in 1..8 : d[i] \in Nat
  <2>1. /\ d[1] \in Nat /\ d[2] \in Nat /\ d[3] \in Nat /\ d[4] \in Nat
        /\ d[5] \in Nat /\ d[6] \in Nat /\ d[7] \in Nat /\ d[8] \in Nat
    BY <1>4
  <2>. QED BY <2>1
<1>6. d = [i \in 1..8 |-> d[i]]
  BY <1>1 DEF d
<1>7. d \in Seq(Nat) /\ Len(d) = 8
  BY <1>5, <1>6
<1>. QED BY <1>4, <1>7 DEF d, Bytes, Size

\* What the digits of a number say, when the queue has them.
LEMMA DigitsSayIt ==
  ASSUME NEW q
  PROVE  /\ \A n \in 0..3 : (/\ q[3] = Digits(n, 2)[1] /\ q[4] = Digits(n, 2)[2])
                            => ntohs(q, 3) = n
         /\ \A n \in 0..255 : (\A i \in 1..8 : q[i + 2] = Digits(n, 8)[i])
                            => Place[5] * ntohl(q, 3) + ntohl(q, 7) = n
<1>1. ASSUME NEW n \in 0..3, q[3] = Digits(n, 2)[1], q[4] = Digits(n, 2)[2]
      PROVE  ntohs(q, 3) = n
  <2>1. Digits(n, 2)[1] = (n \div 2) % 2 /\ Digits(n, 2)[2] = n % 2
    BY Digits2
  <2>2. q[3] = (n \div 2) % 2 /\ q[4] = n % 2
    BY <1>1, <2>1
  <2>3. ntohs(q, 3) = 2 * (q[3] % 2) + (q[4] % 2)
    BY DEF ntohs, BASE
  <2>4. 2 * (((n \div 2) % 2) % 2) + ((n % 2) % 2) = n
    OBVIOUS
  <2>. QED BY <2>2, <2>3, <2>4
<1>2. ASSUME NEW n \in 0..255, \A i \in 1..8 : q[i + 2] = Digits(n, 8)[i]
      PROVE  Place[5] * ntohl(q, 3) + ntohl(q, 7) = n
  <2>1. /\ q[3] = Digits(n, 8)[1] /\ q[4] = Digits(n, 8)[2] /\ q[5] = Digits(n, 8)[3]
        /\ q[6] = Digits(n, 8)[4] /\ q[7] = Digits(n, 8)[5] /\ q[8] = Digits(n, 8)[6]
        /\ q[9] = Digits(n, 8)[7] /\ q[10] = Digits(n, 8)[8]
    BY <1>2
  <2>2. /\ q[3] = (n \div 128) % 2 /\ q[4] = (n \div 64) % 2 /\ q[5] = (n \div 32) % 2
        /\ q[6] = (n \div 16) % 2 /\ q[7] = (n \div 8) % 2 /\ q[8] = (n \div 4) % 2
        /\ q[9] = (n \div 2) % 2 /\ q[10] = n % 2
    BY <2>1, Digits8
  <2>3. /\ ntohs(q, 3) = 2 * (q[3] % 2) + (q[4] % 2) /\ ntohs(q, 5) = 2 * (q[5] % 2) + (q[6] % 2)
        /\ ntohs(q, 7) = 2 * (q[7] % 2) + (q[8] % 2) /\ ntohs(q, 9) = 2 * (q[9] % 2) + (q[10] % 2)
    BY DEF ntohs, BASE
  <2>4. /\ ntohl(q, 3) = 4 * ntohs(q, 3) + ntohs(q, 5)
        /\ ntohl(q, 7) = 4 * ntohs(q, 7) + ntohs(q, 9)
    BY PlaceValues DEF ntohl
  <2>5. Place[5] * ntohl(q, 3) + ntohl(q, 7) = 16 * ntohl(q, 3) + ntohl(q, 7)
    BY PlaceValues
  <2>6. /\ q[3] % 2 = (n \div 128) % 2 /\ q[4] % 2 = (n \div 64) % 2
        /\ q[5] % 2 = (n \div 32) % 2 /\ q[6] % 2 = (n \div 16) % 2
        /\ q[7] % 2 = (n \div 8) % 2 /\ q[8] % 2 = (n \div 4) % 2
        /\ q[9] % 2 = (n \div 2) % 2 /\ q[10] % 2 = n % 2
    BY <2>2
  <2>7. /\ ntohl(q, 3) = 4 * (2 * ((n \div 128) % 2) + ((n \div 64) % 2))
                         + (2 * ((n \div 32) % 2) + ((n \div 16) % 2))
        /\ ntohl(q, 7) = 4 * (2 * ((n \div 8) % 2) + ((n \div 4) % 2))
                         + (2 * ((n \div 2) % 2) + (n % 2))
    BY <2>3, <2>4, <2>6
  <2>8. \A a, b : a = 4 * (2 * ((n \div 128) % 2) + ((n \div 64) % 2))
                         + (2 * ((n \div 32) % 2) + ((n \div 16) % 2))
               /\ b = 4 * (2 * ((n \div 8) % 2) + ((n \div 4) % 2))
                         + (2 * ((n \div 2) % 2) + (n % 2))
               => 16 * a + b = n
    OBVIOUS
  <2>. QED BY <2>5, <2>7, <2>8
<1>. QED BY <1>1, <1>2

MaskOf(key) == IF key # NoKey THEN 4 ELSE 0
MaskedBit(key) == IF key # NoKey THEN 128 ELSE 0

LEMMA NoKeyIsMask == NoKey \in Masks
<1>1. NoKey = [i \in 1..4 |-> 0]
  BY DEF NoKey
<1>. QED BY <1>1, PlaceValues DEF Masks, Bits

\* The length, in each of its three formats.
LengthOf(len, key) ==
  IF len < LEN16 THEN <<MaskedBit(key) + len>>
  ELSE IF len < Place[3] THEN <<MaskedBit(key) + LEN16>> \o Digits(len, 2)
  ELSE <<MaskedBit(key) + LEN16 + 1>> \o Digits(len, 8)

LEMMA OneByte == ASSUME NEW n \in Nat PROVE <<n>> \in Bytes /\ Size(<<n>>) = 1 /\ <<n>>[1] = n
BY DEF Bytes, Size

Format(l, len, bit) ==
  \/ len < LEN16 /\ Size(l) = 1 /\ l[1] = bit + len
  \/ /\ len >= LEN16 /\ len < 4 /\ Size(l) = 3 /\ l[1] = bit + LEN16
     /\ \A i \in 1..2 : l[1 + i] = Digits(len, 2)[i]
  \/ /\ len >= LEN16 /\ len >= 4 /\ Size(l) = 9 /\ l[1] = bit + LEN16 + 1
     /\ \A i \in 1..8 : l[1 + i] = Digits(len, 8)[i]

LEMMA LengthIs ==
  ASSUME NEW len \in 0..255, NEW key
  PROVE  LengthOf(len, key) \in Bytes /\ Format(LengthOf(len, key), len, MaskedBit(key))
<1> DEFINE l == LengthOf(len, key)
<1>1. LEN16 \in Nat /\ MaskedBit(key) \in Nat
  BY SocketAssumption DEF MaskedBit
<1>2. CASE len < LEN16
  <2>1. l = <<MaskedBit(key) + len>>
    BY <1>2 DEF LengthOf
  <2>2. MaskedBit(key) + len \in Nat
    BY <1>1
  <2>. QED BY <1>2, <2>1, <2>2, OneByte DEF Format
<1>3. CASE ~(len < LEN16) /\ len < 4
  <2>. DEFINE b == MaskedBit(key) + LEN16
              d == Digits(len, 2)
  <2>1. l = Cat(<<b>>, d)
    BY <1>3, PlaceValues DEF LengthOf, Cat
  <2>2. b \in Nat
    BY <1>1
  <2>3. d \in Bytes /\ Size(d) = 2
    BY <1>3, Digits2
  <2>. HIDE DEF b, d, l
  <2>4. <<b>> \in Bytes /\ Size(<<b>>) = 1 /\ <<b>>[1] = b
    BY <2>2, OneByte
  <2>5. /\ l \in Bytes /\ Size(l) = Size(<<b>>) + Size(d)
        /\ \A i \in 1..Size(<<b>>) : l[i] = <<b>>[i]
        /\ \A i \in 1..Size(d) : l[Size(<<b>>) + i] = d[i]
    BY <2>1, <2>3, <2>4, Behind
  <2>6. Size(l) = 3 /\ l[1] = b /\ \A i \in 1..2 : l[1 + i] = d[i]
    BY <2>3, <2>4, <2>5
  <2>7. l \in Bytes /\ len >= LEN16
    BY <1>1, <1>3, <2>5
  <2>. QED BY <1>3, <2>3, <2>6, <2>7 DEF b, l, d, Format
<1>4. CASE ~(len < LEN16) /\ ~(len < 4)
  <2>. DEFINE b == MaskedBit(key) + LEN16 + 1
              d == Digits(len, 8)
  <2>1. l = Cat(<<b>>, d)
    BY <1>4, PlaceValues DEF LengthOf, Cat
  <2>2. b \in Nat
    BY <1>1
  <2>3. d \in Bytes /\ Size(d) = 8
    BY Digits8
  <2>. HIDE DEF b, d, l
  <2>4. <<b>> \in Bytes /\ Size(<<b>>) = 1 /\ <<b>>[1] = b
    BY <2>2, OneByte
  <2>5. /\ l \in Bytes /\ Size(l) = Size(<<b>>) + Size(d)
        /\ \A i \in 1..Size(<<b>>) : l[i] = <<b>>[i]
        /\ \A i \in 1..Size(d) : l[Size(<<b>>) + i] = d[i]
    BY <2>1, <2>3, <2>4, Behind
  <2>6. Size(l) = 9 /\ l[1] = b /\ \A i \in 1..8 : l[1 + i] = d[i]
    BY <2>3, <2>4, <2>5
  <2>7. l \in Bytes /\ len >= LEN16 /\ len >= 4
    BY <1>1, <1>4, <2>5
  <2>. QED BY <2>6, <2>7 DEF b, l, d, Format
<1>. QED BY <1>2, <1>3, <1>4

LEMMA KeyIsBytes == ASSUME NEW key \in Masks PROVE key \in Bytes /\ Size(key) = 4
<1>1. key \in [1..4 -> Nat]
  BY PlaceValues DEF Masks, Bits
<1>. QED BY <1>1, FunctionIsBytes

\* The header, byte by byte: opcode, length and mask.
Heads(h, op, l, key) ==
  /\ h \in Bytes /\ Size(h) = 1 + Size(l) + MaskOf(key) /\ h[1] = 128 + op
  /\ \A i \in 1..Size(l) : h[1 + i] = l[i]
  /\ key # NoKey => \A i \in 1..4 : h[1 + Size(l) + i] = key[i]

LEMMA HeaderIs ==
  ASSUME NEW op \in 0..15, NEW len \in 0..255, NEW key \in Masks
  PROVE  Heads(Header(op, len, key), op, LengthOf(len, key), key)
<1> DEFINE h == Header(op, len, key)
           n == Size(LengthOf(len, key))
           k == IF key # NoKey THEN key ELSE <<>>
           l == LengthOf(len, key)
           o == <<128 + op>>
           a == Cat(o, l)
<1>1. k \in Bytes /\ Size(k) = MaskOf(key)
  <2>2. CASE key # NoKey
    BY <2>2, KeyIsBytes DEF MaskOf
  <2>3. CASE key = NoKey
    BY <2>3, NoBytes DEF MaskOf
  <2>. QED BY <2>2, <2>3
<1>2. o \in Bytes /\ Size(o) = 1 /\ o[1] = 128 + op
  BY OneByte
<1>3. l \in Bytes /\ n = Size(l) /\ n \in Nat
  BY LengthIs, Sizes
<1>4. h = Cat(a, k)
  BY DEF Header, LengthOf, MaskedBit, Cat
<1>5. key # NoKey => k = key /\ MaskOf(key) = 4
  BY DEF MaskOf
<1>0. MaskOf(key) \in Nat
  BY DEF MaskOf
<1> HIDE DEF k, l, o, a, h, n
<1>6. /\ a \in Bytes /\ Size(a) = Size(o) + Size(l)
      /\ \A i \in 1..Size(o) : a[i] = o[i]
      /\ \A i \in 1..Size(l) : a[Size(o) + i] = l[i]
  BY <1>2, <1>3, Behind DEF a
<1>7. Size(a) = 1 + n /\ a[1] = 128 + op /\ \A i \in 1..n : a[1 + i] = l[i]
  BY <1>2, <1>3, <1>6
<1>8. /\ h \in Bytes /\ Size(h) = Size(a) + Size(k)
      /\ \A i \in 1..Size(a) : h[i] = a[i]
      /\ \A i \in 1..Size(k) : h[Size(a) + i] = k[i]
  BY <1>1, <1>4, <1>6, Behind
<1>9. 1 \in 1..1 + n /\ \A i \in 1..n : 1 + i \in 1..1 + n
  BY <1>3
<1>10. h[1] = 128 + op /\ \A i \in 1..n : h[1 + i] = l[i]
  BY <1>7, <1>8, <1>9
<1>11. ASSUME key # NoKey, NEW i \in 1..4
       PROVE  h[1 + n + i] = key[i]
  BY <1>1, <1>5, <1>7, <1>8, <1>11
<1>12. Size(h) = 1 + n + MaskOf(key)
  BY <1>1, <1>7, <1>8
<1>. QED BY <1>8, <1>10, <1>11, <1>12 DEF l, h, n, Heads

\* What the reader finds, case by case.
LEMMA ParsedIs ==
  ASSUME NEW q, NEW len, NEW mask, len = q[2] % 128, mask = (IF q[2] >= 128 THEN 4 ELSE 0)
  PROVE  Parsed(q) =
           IF Size(q) < 2 THEN [header |-> 0, mask |-> 0, data |-> 0]
           ELSE IF len < LEN16 /\ Size(q) >= mask
             THEN [header |-> 2 + mask, mask |-> mask, data |-> len]
           ELSE IF len = LEN16 /\ Size(q) >= 4 + mask
             THEN [header |-> 4 + mask, mask |-> mask, data |-> ntohs(q, 3)]
           ELSE IF Size(q) >= 10 + mask
             THEN [header |-> 10 + mask, mask |-> mask, data |-> Place[5] * ntohl(q, 3) + ntohl(q, 7)]
           ELSE [header |-> 0, mask |-> mask, data |-> 0]
BY DEF Parsed, Size

LEMMA CompleteIs ==
  ASSUME NEW q
  PROVE  Complete(q) <=> Parsed(q).header > 0 /\ Size(q) >= Parsed(q).header
BY DEF Complete, Size

\* Whatever has arrived, it is a header of so many bytes and a length of at most eight.
LEMMA ParsedIsTyped ==
  ASSUME NEW q \in Bytes, Complete(q)
  PROVE  /\ Parsed(q).mask \in {0, 4} /\ Parsed(q).data \in 0..255 /\ Parsed(q).header \in Nat
         /\ Parsed(q).header >= 2 + Parsed(q).mask /\ Parsed(q).header <= Size(q)
         /\ Size(q) \in Nat /\ Size(q) >= 2
<1> DEFINE len == q[2] % 128
           mask == IF q[2] >= 128 THEN 4 ELSE 0
           p == Parsed(q)
<1>1. Size(q) \in Nat /\ p.header > 0 /\ Size(q) >= p.header
  BY Sizes, CompleteIs
<1>2. mask \in {0, 4} /\ LEN16 \in 0..126
  BY SocketAssumption
<1>3. Size(q) >= 2 => len \in 0..127
  BY <1>1, Sizes
<1>4. Size(q) >= 4 + mask => ntohs(q, 3) \in 0..3
  BY <1>1, <1>2, NumbersAreBounded
<1>5. Size(q) >= 10 + mask => Place[5] * ntohl(q, 3) + ntohl(q, 7) \in 0..255
  <2>1. SUFFICES ASSUME Size(q) >= 10 + mask
                 PROVE  Place[5] * ntohl(q, 3) + ntohl(q, 7) \in 0..255
    OBVIOUS
  <2>2. 3 \in 1..Size(q) /\ 3 + 3 <= Size(q) /\ 7 \in 1..Size(q) /\ 7 + 3 <= Size(q)
    BY <1>1, <1>2, <2>1
  <2>3. ntohl(q, 3) \in 0..15 /\ ntohl(q, 7) \in 0..15
    BY <2>2, NumbersAreBounded
  <2>4. \A a, b \in 0..15 : 16 * a + b \in 0..255
    OBVIOUS
  <2>. QED BY <2>3, <2>4, PlaceValues
<1>6. p = IF Size(q) < 2 THEN [header |-> 0, mask |-> 0, data |-> 0]
          ELSE IF len < LEN16 /\ Size(q) >= mask
            THEN [header |-> 2 + mask, mask |-> mask, data |-> len]
          ELSE IF len = LEN16 /\ Size(q) >= 4 + mask
            THEN [header |-> 4 + mask, mask |-> mask, data |-> ntohs(q, 3)]
          ELSE IF Size(q) >= 10 + mask
            THEN [header |-> 10 + mask, mask |-> mask, data |-> Place[5] * ntohl(q, 3) + ntohl(q, 7)]
          ELSE [header |-> 0, mask |-> mask, data |-> 0]
  BY ParsedIs
<1> HIDE DEF len, mask, p
<1>7. Size(q) >= 2
  BY <1>1, <1>6
<1>8. p.mask \in {0, 4} /\ p.header \in Nat
  BY <1>1, <1>2, <1>6
<1>9. p.header >= 2 + p.mask
  BY <1>1, <1>2, <1>6
<1>10. p.data \in 0..255
  BY <1>1, <1>2, <1>3, <1>4, <1>5, <1>6, <1>7
<1>. QED BY <1>1, <1>7, <1>8, <1>9, <1>10 DEF p

\* The bytes q, as far as they go, are the first of h.
Begins(q, h) == \A i \in 1..Size(q) : i <= Size(h) => q[i] = h[i]

\* What the reader makes of q is what the header was built from.
Says(q, op, len, key) ==
  /\ Parsed(q) = [header |-> Size(Header(op, len, key)), mask |-> MaskOf(key), data |-> len]
  /\ q[1] = 128 + op
  /\ key # NoKey => SubSeq(q, Size(Header(op, len, key)) - 3, Size(Header(op, len, key))) = key

\* A queue that begins with a header, as far as it goes, is complete when the whole of it is
\* there, and says what the header was built from.
LEMMA HeaderIsParsed ==
  ASSUME NEW op \in 0..15, NEW len \in 0..255, NEW key \in Masks, NEW q \in Bytes, Complete(q),
         Begins(q, Header(op, len, key))
  PROVE  Says(q, op, len, key)
<1> DEFINE h == Header(op, len, key)
           l == LengthOf(len, key)
           n == Size(l)
           m == MaskOf(key)
           b == MaskedBit(key)
           c == q[2] % 128
           p == Parsed(q)
<1>1. /\ h \in Bytes /\ Size(h) = 1 + n + m /\ h[1] = 128 + op
      /\ \A i \in 1..n : h[1 + i] = l[i]
      /\ key # NoKey => \A i \in 1..4 : h[1 + n + i] = key[i]
  BY HeaderIs DEF Heads
<1>2. l \in Bytes /\ Format(l, len, b)
  BY LengthIs
<1>3. /\ p.mask \in {0, 4} /\ p.data \in 0..255 /\ p.header \in Nat
      /\ p.header >= 2 + p.mask /\ p.header <= Size(q) /\ Size(q) \in Nat /\ Size(q) >= 2
  BY ParsedIsTyped
<1>4. n \in Nat /\ n >= 1 /\ m \in {0, 4} /\ b = 32 * m /\ LEN16 \in 0..126 /\ (m = 4 <=> key # NoKey)
  BY <1>2, SocketAssumption DEF MaskOf, MaskedBit, Format
<1>5. \A i \in 1..Size(q) : i <= 1 + n + m => q[i] = h[i]
  BY <1>1 DEF Begins
<1> HIDE DEF h, l, n, m, b, p
<1>6. q[1] = 128 + op /\ q[2] = l[1]
  BY <1>1, <1>3, <1>4, <1>5
<1>7. ASSUME NEW d \in 0..127, l[1] = b + d
      PROVE  c = d /\ (IF q[2] >= 128 THEN 4 ELSE 0) = m
  BY <1>4, <1>6, <1>7
<1>8. ASSUME (IF q[2] >= 128 THEN 4 ELSE 0) = m
      PROVE  p = IF Size(q) < 2 THEN [header |-> 0, mask |-> 0, data |-> 0]
          ELSE IF c < LEN16 /\ Size(q) >= m
            THEN [header |-> 2 + m, mask |-> m, data |-> c]
          ELSE IF c = LEN16 /\ Size(q) >= 4 + m
            THEN [header |-> 4 + m, mask |-> m, data |-> ntohs(q, 3)]
          ELSE IF Size(q) >= 10 + m
            THEN [header |-> 10 + m, mask |-> m, data |-> Place[5] * ntohl(q, 3) + ntohl(q, 7)]
          ELSE [header |-> 0, mask |-> m, data |-> 0]
  BY <1>8, ParsedIs DEF p
<1> HIDE DEF c
<1>9. p = [header |-> 1 + n + m, mask |-> m, data |-> len]
  <2>1. CASE len < LEN16 /\ n = 1 /\ l[1] = b + len
    <3>1. len \in 0..127
      BY <2>1, <1>4
    <3>2. c = len /\ (IF q[2] >= 128 THEN 4 ELSE 0) = m
      BY <2>1, <3>1, <1>7
    <3>. QED BY <1>3, <1>4, <1>8, <2>1, <3>2
  <2>2. CASE /\ len >= LEN16 /\ len < 4 /\ n = 3 /\ l[1] = b + LEN16
             /\ \A i \in 1..2 : l[1 + i] = Digits(len, 2)[i]
    <3>1. LEN16 \in 0..127
      BY <1>4
    <3>2. c = LEN16 /\ (IF q[2] >= 128 THEN 4 ELSE 0) = m
      BY <2>2, <3>1, <1>7
    <3>3. Size(q) >= 4 + m /\ p = [header |-> 4 + m, mask |-> m, data |-> ntohs(q, 3)]
      BY <1>3, <1>4, <1>8, <3>2
    <3>4. h[3] = l[2] /\ h[4] = l[3]
      BY <1>1, <2>2
    <3>5. q[3] = h[3] /\ q[4] = h[4]
      BY <1>3, <1>4, <1>5, <2>2, <3>3
    <3>6. l[2] = Digits(len, 2)[1] /\ l[3] = Digits(len, 2)[2]
      BY <2>2
    <3>7. len \in 0..3
      BY <2>2
    <3>8. q[3] = Digits(len, 2)[1] /\ q[4] = Digits(len, 2)[2]
      BY <3>4, <3>5, <3>6
    <3>9. ntohs(q, 3) = len
      BY <3>7, <3>8, DigitsSayIt
    <3>. QED BY <2>2, <3>3, <3>9
  <2>3. CASE /\ len >= LEN16 /\ len >= 4 /\ n = 9 /\ l[1] = b + LEN16 + 1
             /\ \A i \in 1..8 : l[1 + i] = Digits(len, 8)[i]
    <3>1. LEN16 + 1 \in 0..127 /\ l[1] = b + (LEN16 + 1)
      BY <1>4, <2>3
    <3>2. c = LEN16 + 1 /\ (IF q[2] >= 128 THEN 4 ELSE 0) = m
      BY <3>1, <1>7
    <3>3. Size(q) >= 10 + m /\ p = [header |-> 10 + m, mask |-> m, data |-> Place[5] * ntohl(q, 3) + ntohl(q, 7)]
      BY <1>3, <1>4, <1>8, <3>2
    <3>4. ASSUME NEW i \in 1..8 PROVE q[i + 2] = Digits(len, 8)[i]
      <4>1. 1 + i \in 1..n /\ i + 2 \in 1..Size(q) /\ i + 2 <= 1 + n + m /\ i + 2 = 1 + (1 + i)
        BY <1>3, <1>4, <2>3, <3>3
      <4>2. q[i + 2] = h[i + 2]
        BY <4>1, <1>5
      <4>3. h[1 + (1 + i)] = l[1 + i]
        BY <4>1, <1>1
      <4>. QED BY <4>1, <4>2, <4>3, <2>3
    <3>5. Place[5] * ntohl(q, 3) + ntohl(q, 7) = len
      BY <3>4, DigitsSayIt
    <3>. QED BY <2>3, <3>3, <3>5
  <2>. QED BY <1>2, <2>1, <2>2, <2>3 DEF Format, n
<1>10. ASSUME key # NoKey
       PROVE  SubSeq(q, n + 2, n + 5) = key
  <2> DEFINE s == SubSeq(q, n + 2, n + 5)
  <2>1. m = 4 /\ n + 5 <= Size(q)
    BY <1>3, <1>4, <1>9, <1>10
  <2>2. \A i \in n + 2 .. n + 5 : q[i] \in Nat
    BY <1>4, <2>1, Sizes
  <2>3. /\ s \in Seq(Nat) /\ Len(s) = IF n + 2 <= n + 5 THEN n + 5 - (n + 2) + 1 ELSE 0
        /\ \A i \in 1 .. n + 5 - (n + 2) + 1 : s[i] = q[n + 2 + i - 1]
    BY <1>4, <2>2, SubSeqProperties
  <2> HIDE DEF s
  <2>4. s \in Bytes /\ Size(s) = 4 /\ \A i \in 1..4 : s[i] = q[1 + n + i]
    <3>1. (IF n + 2 <= n + 5 THEN n + 5 - (n + 2) + 1 ELSE 0) = 4 /\ n + 5 - (n + 2) + 1 = 4
          /\ \A i \in 1..4 : n + 2 + i - 1 = 1 + n + i
      BY <1>4
    <3>. QED BY <2>3, <3>1 DEF Bytes, Size
  <2>5. \A i \in 1..4 : q[1 + n + i] = key[i]
    <3> TAKE i \in 1..4
    <3>1. 1 + n + i \in 1..Size(q) /\ 1 + n + i <= 1 + n + m
      BY <1>3, <1>4, <2>1
    <3>. QED BY <1>1, <1>5, <1>10, <3>1
  <2>6. key \in Bytes /\ Size(key) = 4
    BY KeyIsBytes
  <2>7. Size(s) = Size(key) /\ \A i \in 1..Size(s) : s[i] = key[i]
    BY <2>4, <2>5, <2>6
  <2>. QED BY <2>4, <2>6, <2>7, SameBytes DEF s
<1>11. key # NoKey => 1 + n + m - 3 = n + 2 /\ 1 + n + m = n + 5
  BY <1>4
<1>12. p = [header |-> Size(h), mask |-> m, data |-> len] /\ q[1] = 128 + op
  BY <1>1, <1>6, <1>9
<1>13. ASSUME key # NoKey
       PROVE  SubSeq(q, Size(h) - 3, Size(h)) = key
  <2>1. Size(h) - 3 = n + 2 /\ Size(h) = n + 5
    BY <1>1, <1>4, <1>11, <1>13
  <2>. QED BY <1>10, <1>13, <2>1
<1>. QED BY <1>12, <1>13 DEF h, m, p, Says

-----------------------------------------------------------------------------
(* Frames one behind the other.                                            *)

Frame(m, key) == Cat(Header(m.op, Size(m.data), key), mask_data(m.data, key))

LEMMA BytesOf ==
  ASSUME NEW data \in Bytes
  PROVE  DOMAIN data = 1..Size(data) /\ Size(data) \in Nat /\ \A i \in 1..Size(data) : data[i] \in Nat
BY DEF Bytes, Size

\* A masked payload is as long, and of bytes again, whatever it and the mask are.
LEMMA MaskedIs ==
  ASSUME NEW data \in Bytes, NEW key \in [1..4 -> Nat]
  PROVE  /\ mask_data(data, key) \in [1..Size(data) -> Bits]
         /\ mask_data(data, key) \in Bytes /\ Size(mask_data(data, key)) = Size(data)
         /\ mask_data(data, key) \in Seq(Bits)
<1> DEFINE f == mask_data(data, key)
           n == Size(data)
<1>1. DOMAIN data = 1..n /\ n \in Nat /\ \A i \in 1..n : data[i] \in Nat
  BY BytesOf
<1> HIDE DEF n
<1>2. f = [i \in 1..n |-> (data[i] + key[((i - 1) % 4) + 1]) % 2]
  BY <1>1 DEF mask_data, BASE
<1>3. \A i \in 1..n : (data[i] + key[((i - 1) % 4) + 1]) % 2 \in 0..1
  <2> TAKE i \in 1..n
  <2>1. ((i - 1) % 4) + 1 \in 1..4
    BY <1>1
  <2>2. data[i] \in Nat /\ key[((i - 1) % 4) + 1] \in Nat
    BY <1>1, <2>1
  <2>. QED BY <2>2
<1>4. f \in [1..n -> 0..1]
  BY <1>2, <1>3
<1> HIDE DEF f
<1>5. f \in [1..n -> Nat]
  BY <1>4
<1>6. f \in Seq(0..1)
  BY <1>1, <1>4
<1>7. f \in Bytes /\ Size(f) = n
  BY <1>1, <1>5, FunctionIsBytes
<1>. QED BY <1>4, <1>6, <1>7, PlaceValues DEF f, n, Bits

\* Unmasking takes the mask away.
LEMMA Unmasked ==
  ASSUME NEW data \in Seq(Bits), NEW key \in Masks
  PROVE  /\ data \in Bytes /\ key \in [1..4 -> Nat]
         /\ mask_data(mask_data(data, key), key) = data
<1> DEFINE f == mask_data(data, key)
           n == Size(data)
<1>1. data \in Bytes /\ key \in [1..4 -> Nat] /\ \A i \in DOMAIN data : data[i] \in 0..1
  BY PlaceValues DEF Bits, Masks, Bytes
<1>2. DOMAIN data = 1..n /\ n \in Nat
  BY <1>1, BytesOf
<1>3. f \in [1..n -> Bits]
  BY <1>1, MaskedIs
<1> HIDE DEF n
<1>4. f = [i \in 1..n |-> (data[i] + key[((i - 1) % 4) + 1]) % 2]
  BY <1>2 DEF mask_data, BASE
<1>5. mask_data(f, key) = [i \in 1..n |-> (f[i] + key[((i - 1) % 4) + 1]) % 2]
  BY <1>3 DEF mask_data, BASE
<1>6. \A i \in 1..n : (f[i] + key[((i - 1) % 4) + 1]) % 2 = data[i]
  <2> TAKE i \in 1..n
  <2>1. ((i - 1) % 4) + 1 \in 1..4
    BY <1>2
  <2>2. key[((i - 1) % 4) + 1] \in 0..1
    BY <2>1, PlaceValues DEF Masks, Bits
  <2>3. data[i] \in 0..1
    BY <1>1, <1>2
  <2>4. f[i] = (data[i] + key[((i - 1) % 4) + 1]) % 2
    BY <1>4
  <2>5. \A x, y \in 0..1 : (((x + y) % 2) + y) % 2 = x
    OBVIOUS
  <2>. QED BY <2>2, <2>3, <2>4, <2>5
<1> HIDE DEF f
<1>7. mask_data(f, key) = [i \in 1..n |-> data[i]]
  BY <1>5, <1>6
<1>8. data = [i \in 1..n |-> data[i]]
  BY <1>2, <1>1 DEF Bytes
<1>. QED BY <1>1, <1>7, <1>8 DEF f

\* f is in the stream v, behind its first a bytes.
At(v, a, f) == a + Size(f) <= Size(v) /\ \A i \in 1..Size(f) : v[a + i] = f[i]

\* The bytes of v behind the first a and up to the b-th are a frame with the message m.
IsFrame(v, a, b, m) == \E key \in Masks : b = a + Size(Frame(m, key)) /\ At(v, a, Frame(m, key))

\* Behind its first a bytes, v is the frames of the messages of s but the first g, one after the
\* other: c[i] is where the i-th ends.
Framed(v, s, g, a) ==
  /\ g \in 0..Len(s)
  /\ \E c \in [g..Len(s) -> Nat] :
       /\ c[g] = a /\ c[Len(s)] = Size(v)
       /\ \A i, j \in g..Len(s) : i <= j => c[i] <= c[j]
       /\ \A i \in g + 1 .. Len(s) : IsFrame(v, c[i - 1], c[i], s[i])

LEMMA FrameIs ==
  ASSUME NEW m \in Messages, NEW key \in Masks
  PROVE  /\ m.data \in Bytes /\ m.data \in Seq(Bits) /\ Size(m.data) \in 0..255 /\ m.op \in 0..15
         /\ Header(m.op, Size(m.data), key) \in Bytes /\ mask_data(m.data, key) \in Bytes
         /\ Size(mask_data(m.data, key)) = Size(m.data)
         /\ Frame(m, key) \in Bytes
         /\ Size(Frame(m, key)) = Size(Header(m.op, Size(m.data), key)) + Size(m.data)
         /\ Size(Header(m.op, Size(m.data), key)) \in Nat /\ Size(Header(m.op, Size(m.data), key)) >= 2
<1>1. m \in [op : 0..15, data : Seq(Bits)] /\ Len(m.data) < 256
  BY PlaceValues DEF Messages, Bits
<1>2. m.data \in Seq(Bits) /\ m.op \in 0..15
  BY <1>1
<1>3. m.data \in Bytes /\ key \in [1..4 -> Nat]
  BY <1>2, Unmasked
<1>4. Size(m.data) \in 0..255
  <2>1. Size(m.data) \in Nat
    BY <1>3, Sizes
  <2>2. Size(m.data) < 256
    BY <1>1 DEF Size
  <2>. QED BY <2>1, <2>2
<1> DEFINE h == Header(m.op, Size(m.data), key)
           f == mask_data(m.data, key)
<1>5. f \in Bytes /\ Size(f) = Size(m.data)
  BY <1>3, MaskedIs
<1>6. h \in Bytes /\ Size(h) = 1 + Size(LengthOf(Size(m.data), key)) + MaskOf(key)
  <2> DEFINE op == m.op
             len == Size(m.data)
  <2>1. op \in 0..15 /\ len \in 0..255
    BY <1>2, <1>4
  <2> HIDE DEF op, len
  <2>2. Header(op, len, key) \in Bytes /\ Size(Header(op, len, key)) = 1 + Size(LengthOf(len, key)) + MaskOf(key)
    <3>1. Heads(Header(op, len, key), op, LengthOf(len, key), key)
      BY <2>1, HeaderIs
    <3>. QED BY <3>1 DEF Heads
  <2>. QED BY <2>2 DEF op, len
<1>7. Size(h) \in Nat /\ Size(h) >= 2
  <2>1. Format(LengthOf(Size(m.data), key), Size(m.data), MaskedBit(key))
    BY <1>4, LengthIs
  <2>2. Size(LengthOf(Size(m.data), key)) \in {1, 3, 9} /\ MaskOf(key) \in {0, 4}
    BY <2>1 DEF Format, MaskOf
  <2>. QED BY <1>6, <2>2
<1> HIDE DEF h, f
<1>8. Cat(h, f) \in Bytes /\ Size(Cat(h, f)) = Size(h) + Size(f)
  BY <1>5, <1>6, Behind
<1>. QED BY <1>2, <1>3, <1>4, <1>5, <1>6, <1>7, <1>8 DEF h, f, Frame

LEMMA FramedEnd ==
  ASSUME NEW v \in Bytes, NEW s \in Seq(Messages)
  PROVE  Framed(v, s, Len(s), Size(v)) /\ \A a : Framed(v, s, Len(s), a) => a = Size(v)
<1> DEFINE n == Len(s)
           c == [i \in n..n |-> Size(v)]
<1>1. n \in Nat /\ Size(v) \in Nat
  BY Sizes
<1>2. c \in [n..n -> Nat] /\ c[n] = Size(v) /\ \A i, j \in n..n : c[i] <= c[j]
  BY <1>1
<1>3. n \in 0..n /\ n + 1 .. n = {}
  BY <1>1
<1> HIDE DEF n, c
<1>4. \E d \in [n..n -> Nat] :
       /\ d[n] = Size(v) /\ d[n] = Size(v)
       /\ \A i, j \in n..n : i <= j => d[i] <= d[j]
       /\ \A i \in n + 1 .. n : IsFrame(v, d[i - 1], d[i], s[i])
  BY <1>2, <1>3
<1>5. Framed(v, s, n, Size(v))
  BY <1>3, <1>4 DEF Framed, n
<1>. QED BY <1>5 DEF Framed, n

LEMMA FramedBounds ==
  ASSUME NEW v \in Bytes, NEW s \in Seq(Messages), NEW g, NEW a, Framed(v, s, g, a)
  PROVE  g \in 0..Len(s) /\ a \in 0..Size(v)
<1>1. PICK c \in [g..Len(s) -> Nat] :
       /\ c[g] = a /\ c[Len(s)] = Size(v)
       /\ \A i, j \in g..Len(s) : i <= j => c[i] <= c[j]
  BY DEF Framed
<1>2. g \in 0..Len(s) /\ Size(v) \in Nat /\ Len(s) \in Nat
  BY Sizes DEF Framed
<1>3. g \in g..Len(s) /\ Len(s) \in g..Len(s) /\ g <= Len(s)
  BY <1>2
<1>. QED BY <1>1, <1>2, <1>3

LEMMA FramedSplit ==
  ASSUME NEW v \in Bytes, NEW s \in Seq(Messages), NEW g, NEW a, Framed(v, s, g, a), g < Len(s)
  PROVE  \E key \in Masks : /\ At(v, a, Frame(s[g + 1], key))
                            /\ Framed(v, s, g + 1, a + Size(Frame(s[g + 1], key)))
<1> DEFINE n == Len(s)
<1>1. PICK c \in [g..n -> Nat] :
       /\ c[g] = a /\ c[n] = Size(v)
       /\ \A i, j \in g..n : i <= j => c[i] <= c[j]
       /\ \A i \in g + 1 .. n : IsFrame(v, c[i - 1], c[i], s[i])
  BY DEF Framed
<1>2. g \in Nat /\ n \in Nat /\ g < n
  BY DEF Framed
<1> HIDE DEF n
<1>3. g + 1 \in g + 1 .. n /\ g + 1 - 1 = g /\ g + 1 \in 0..n
  BY <1>2
<1>4. IsFrame(v, c[g], c[g + 1], s[g + 1])
  <2> DEFINE i == g + 1
  <2>1. i \in g + 1 .. n /\ i - 1 = g
    BY <1>2, <1>3
  <2> HIDE DEF i
  <2>2. IsFrame(v, c[i - 1], c[i], s[i])
    BY <1>1, <2>1
  <2>. QED BY <2>1, <2>2 DEF i
<1>5. PICK key \in Masks : c[g + 1] = a + Size(Frame(s[g + 1], key)) /\ At(v, a, Frame(s[g + 1], key))
  BY <1>1, <1>4 DEF IsFrame
<1> DEFINE d == [i \in g + 1 .. n |-> c[i]]
<1>6. d \in [g + 1 .. n -> Nat] /\ \A i \in g + 1 .. n : d[i] = c[i]
  BY <1>1, <1>2
<1> HIDE DEF d
<1>7. d[g + 1] = a + Size(Frame(s[g + 1], key)) /\ d[n] = Size(v)
  BY <1>1, <1>2, <1>3, <1>5, <1>6
<1>8. \A i, j \in g + 1 .. n : i <= j => d[i] <= d[j]
  BY <1>1, <1>2, <1>6
<1>9. \A i \in g + 2 .. n : IsFrame(v, d[i - 1], d[i], s[i])
  <2> TAKE i \in g + 2 .. n
  <2>1. i \in g + 1 .. n /\ i - 1 \in g + 1 .. n
    BY <1>2
  <2>. QED BY <1>1, <1>6, <2>1
<1>10. g + 1 + 1 = g + 2
  BY <1>2
<1>11. Framed(v, s, g + 1, a + Size(Frame(s[g + 1], key)))
  BY <1>3, <1>6, <1>7, <1>8, <1>9, <1>10 DEF Framed, n
<1>. QED BY <1>5, <1>11

LEMMA FrameLater ==
  ASSUME NEW v \in Bytes, NEW w \in Bytes, NEW a \in Nat, NEW b, NEW m \in Messages, IsFrame(v, a, b, m)
  PROVE  IsFrame(Cat(v, w), a, b, m)
<1>1. PICK key \in Masks : b = a + Size(Frame(m, key)) /\ At(v, a, Frame(m, key))
  BY DEF IsFrame
<1> DEFINE f == Frame(m, key)
<1>2. f \in Bytes /\ Size(f) \in Nat /\ Size(v) \in Nat /\ Size(w) \in Nat
  BY FrameIs, Sizes
<1>3. /\ Size(Cat(v, w)) = Size(v) + Size(w) /\ \A i \in 1..Size(v) : Cat(v, w)[i] = v[i]
  BY Behind
<1>4. a + Size(f) <= Size(v) /\ \A i \in 1..Size(f) : v[a + i] = f[i]
  BY <1>1 DEF At
<1> HIDE DEF f
<1>5. a + Size(f) <= Size(Cat(v, w))
  BY <1>2, <1>3, <1>4
<1>6. ASSUME NEW i \in 1..Size(f)
      PROVE  Cat(v, w)[a + i] = f[i]
  <2>1. a + i \in 1..Size(v)
    BY <1>2, <1>4
  <2>. QED BY <1>3, <1>4, <2>1
<1>7. At(Cat(v, w), a, f)
  BY <1>5, <1>6 DEF At
<1>. QED BY <1>1, <1>7 DEF IsFrame, f

LEMMA FrameLast ==
  ASSUME NEW v \in Bytes, NEW m \in Messages, NEW key \in Masks
  PROVE  IsFrame(Cat(v, Frame(m, key)), Size(v), Size(Cat(v, Frame(m, key))), m)
<1> DEFINE f == Frame(m, key)
<1>1. f \in Bytes /\ Size(f) \in Nat /\ Size(v) \in Nat
  BY FrameIs, Sizes
<1>2. /\ Size(Cat(v, f)) = Size(v) + Size(f) /\ \A i \in 1..Size(f) : Cat(v, f)[Size(v) + i] = f[i]
  BY <1>1, Behind
<1> HIDE DEF f
<1>3. At(Cat(v, f), Size(v), f)
  BY <1>1, <1>2 DEF At
<1>. QED BY <1>2, <1>3 DEF IsFrame, f

LEMMA FramedAppend ==
  ASSUME NEW v \in Bytes, NEW s \in Seq(Messages), NEW g, NEW a, Framed(v, s, g, a),
         NEW m \in Messages, NEW key \in Masks
  PROVE  Framed(Cat(v, Frame(m, key)), Append(s, m), g, a)
<1> DEFINE n == Len(s)
           t == Append(s, m)
           w == Cat(v, Frame(m, key))
<1>1. PICK c \in [g..n -> Nat] :
       /\ c[g] = a /\ c[n] = Size(v)
       /\ \A i, j \in g..n : i <= j => c[i] <= c[j]
       /\ \A i \in g + 1 .. n : IsFrame(v, c[i - 1], c[i], s[i])
  BY DEF Framed
<1>2. g \in Nat /\ n \in Nat /\ g <= n
  BY DEF Framed
<1>3. t \in Seq(Messages) /\ Len(t) = n + 1 /\ t[n + 1] = m /\ \A i \in 1..n : t[i] = s[i] /\ s[i] \in Messages
  BY <1>2
<1>4. /\ Frame(m, key) \in Bytes /\ Size(Frame(m, key)) \in Nat /\ Size(v) \in Nat
      /\ Size(w) = Size(v) + Size(Frame(m, key))
  BY FrameIs, Sizes, Behind
<1>5. IsFrame(w, Size(v), Size(w), m)
  BY FrameLast
<1>6. \A i \in g + 1 .. n : IsFrame(w, c[i - 1], c[i], s[i])
  <2> TAKE i \in g + 1 .. n
  <2>1. i \in 1..n /\ i - 1 \in g..n
    BY <1>2
  <2>2. c[i - 1] \in Nat /\ s[i] \in Messages /\ IsFrame(v, c[i - 1], c[i], s[i])
    BY <1>1, <1>3, <2>1
  <2>. QED BY <1>4, <2>2, FrameLater
<1> HIDE DEF n, t, w
<1> DEFINE d == [i \in g .. n + 1 |-> IF i = n + 1 THEN Size(w) ELSE c[i]]
<1>7. Size(w) \in Nat /\ Size(v) <= Size(w)
  BY <1>4
<1>8. /\ d \in [g .. n + 1 -> Nat] /\ d[n + 1] = Size(w) /\ \A i \in g..n : d[i] = c[i]
  BY <1>1, <1>2, <1>7
<1> HIDE DEF d
<1>9. d[g] = a
  BY <1>1, <1>2, <1>8
<1>10. \A i, j \in g .. n + 1 : i <= j => d[i] <= d[j]
  <2> TAKE i, j \in g .. n + 1
  <2> HAVE i <= j
  <2>1. CASE j = n + 1
    <3>1. CASE i = n + 1
      BY <1>7, <1>8, <2>1, <3>1
    <3>2. CASE i # n + 1
      <4>1. i \in g..n /\ n \in g..n /\ i <= n
        BY <1>2, <3>2
      <4>2. d[i] <= Size(v)
        BY <1>1, <1>8, <4>1
      <4>3. d[i] \in Nat
        BY <1>8
      <4>. QED BY <1>4, <1>7, <1>8, <2>1, <4>2, <4>3
    <3>. QED BY <3>1, <3>2
  <2>2. CASE j # n + 1
    <3>1. i \in g..n /\ j \in g..n
      BY <1>2, <2>2
    <3>. QED BY <1>1, <1>8, <3>1
  <2>. QED BY <2>1, <2>2
<1>11. \A i \in g + 1 .. n + 1 : IsFrame(w, d[i - 1], d[i], t[i])
  <2> TAKE i \in g + 1 .. n + 1
  <2>1. CASE i = n + 1
    <3>1. i - 1 = n /\ n \in g..n
      BY <1>2, <2>1
    <3>2. d[i - 1] = Size(v) /\ d[i] = Size(w) /\ t[i] = m
      BY <1>1, <1>3, <1>8, <2>1, <3>1
    <3>. QED BY <1>5, <3>2
  <2>2. CASE i # n + 1
    <3>1. i \in g + 1 .. n /\ i \in 1..n /\ i \in g..n /\ i - 1 \in g..n
      BY <1>2, <2>2
    <3>2. d[i - 1] = c[i - 1] /\ d[i] = c[i] /\ t[i] = s[i]
      BY <1>3, <1>8, <3>1
    <3>. QED BY <1>6, <3>1, <3>2
  <2>. QED BY <2>1, <2>2
<1>12. g \in 0 .. n + 1
  BY <1>2
<1>13. \E c1 \in [g .. Len(t) -> Nat] :
       /\ c1[g] = a /\ c1[Len(t)] = Size(w)
       /\ \A i, j \in g .. Len(t) : i <= j => c1[i] <= c1[j]
       /\ \A i \in g + 1 .. Len(t) : IsFrame(w, c1[i - 1], c1[i], t[i])
  BY <1>3, <1>8, <1>9, <1>10, <1>11
<1>14. Framed(w, t, g, a)
  BY <1>3, <1>12, <1>13 DEF Framed
<1>. QED BY <1>14 DEF w, t

LEMMA FrameSooner ==
  ASSUME NEW v \in Bytes, NEW n \in 0..Size(v), NEW a \in Nat, n <= a, NEW b \in Nat, NEW m \in Messages,
         IsFrame(v, a, b, m)
  PROVE  IsFrame(Rest(v, n), a - n, b - n, m)
<1>1. PICK key \in Masks : b = a + Size(Frame(m, key)) /\ At(v, a, Frame(m, key))
  BY DEF IsFrame
<1> DEFINE f == Frame(m, key)
           w == Rest(v, n)
<1>2. f \in Bytes /\ Size(f) \in Nat /\ Size(v) \in Nat /\ n \in Nat
  BY FrameIs, Sizes
<1>3. Size(w) = Size(v) - n /\ \A i \in 1 .. Size(v) - n : w[i] = v[n + i]
  BY RestBytes
<1>4. a + Size(f) <= Size(v) /\ \A i \in 1..Size(f) : v[a + i] = f[i]
  BY <1>1 DEF At
<1> HIDE DEF f, w
<1>5. a - n + Size(f) <= Size(w)
  BY <1>2, <1>3, <1>4
<1>6. ASSUME NEW i \in 1..Size(f)
      PROVE  w[a - n + i] = f[i]
  <2> DEFINE j == a - n + i
  <2>1. j \in 1 .. Size(v) - n /\ n + j = a + i
    BY <1>2, <1>4
  <2> HIDE DEF j
  <2>2. w[j] = v[a + i]
    BY <1>3, <2>1
  <2>. QED BY <1>4, <2>2 DEF j
<1>7. At(w, a - n, f)
  BY <1>5, <1>6 DEF At
<1>8. b - n = a - n + Size(f)
  BY <1>1, <1>2 DEF f
<1>. QED BY <1>7, <1>8 DEF IsFrame, f, w

LEMMA FramedRest ==
  ASSUME NEW v \in Bytes, NEW s \in Seq(Messages), NEW g, NEW a, Framed(v, s, g, a), NEW n \in 0..a
  PROVE  Framed(Rest(v, n), s, g, a - n)
<1> DEFINE l == Len(s)
           w == Rest(v, n)
<1>1. PICK c \in [g..l -> Nat] :
       /\ c[g] = a /\ c[l] = Size(v)
       /\ \A i, j \in g..l : i <= j => c[i] <= c[j]
       /\ \A i \in g + 1 .. l : IsFrame(v, c[i - 1], c[i], s[i])
  BY DEF Framed
<1>2. g \in 0..l /\ a \in 0..Size(v) /\ Size(v) \in Nat /\ l \in Nat
  BY FramedBounds, Sizes
<1>3. n \in 0..Size(v) /\ n \in Nat /\ n <= a
  BY <1>2
<1>4. Size(w) = Size(v) - n
  BY <1>3, RestBytes
<1> DEFINE d == [i \in g..l |-> c[i] - n]
<1>5. ASSUME NEW i \in g..l PROVE c[i] \in Nat /\ c[i] >= a
  BY <1>1, <1>2
<1>6. d \in [g..l -> Nat]
  BY <1>2, <1>3, <1>5
<1>7. \A i \in g..l : d[i] = c[i] - n
  OBVIOUS
<1>8. \A i \in g + 1 .. l : IsFrame(w, d[i - 1], d[i], s[i])
  <2> TAKE i \in g + 1 .. l
  <2>1. i - 1 \in g..l /\ i \in g..l /\ i \in 1..l
    BY <1>2
  <2>2. s[i] \in Messages
    BY <2>1
  <2>3. c[i - 1] \in Nat /\ c[i] \in Nat /\ n <= c[i - 1]
    BY <1>2, <1>3, <1>5, <2>1
  <2>4. IsFrame(v, c[i - 1], c[i], s[i])
    BY <1>1
  <2> HIDE DEF d, l
  <2>5. IsFrame(w, c[i - 1] - n, c[i] - n, s[i])
    BY <1>3, <2>2, <2>3, <2>4, FrameSooner
  <2>. QED BY <1>7, <2>1, <2>5
<1> HIDE DEF d
<1>9. g \in g..l /\ l \in g..l
  BY <1>2
<1>10. d[g] = a - n /\ d[l] = Size(w)
  BY <1>1, <1>4, <1>7, <1>9
<1>11. \A i, j \in g..l : i <= j => d[i] <= d[j]
  <2> TAKE i, j \in g..l
  <2> HAVE i <= j
  <2>1. c[i] <= c[j] /\ c[i] \in Nat /\ c[j] \in Nat
    BY <1>1
  <2>. QED BY <1>3, <1>7, <2>1
<1>. QED BY <1>2, <1>6, <1>8, <1>10, <1>11 DEF Framed, l, w

-----------------------------------------------------------------------------
(* The invariant.                                                          *)

States == {"opening", "reading", "pulling", "calling", "answering", "left", "closing", "closed",
           "gone"}

FramesIn == [op : 0..15, mask : [1..4 -> Nat], data : Bytes, len : 0..255]

SocketTypes ==
  /\ request \in Requests /\ state \in [Ends -> States]
  /\ net \in [Ends -> Bytes] /\ buf \in [Ends -> Bytes]
  /\ frame \in [Ends -> FramesIn]
  /\ \A e \in Ends : Size(frame[e].data) <= frame[e].len
  /\ got \in [Ends -> Seq(Messages)] /\ sent \in [Ends -> Seq(Messages)]
  /\ todo \in [Writers -> Seq(Messages)]
  /\ write \in [Writers -> [at : {"idle", "header", "data"}, key : Masks]]
  /\ lock \in [Ends -> Writers \cup {Nobody}]

\* Who writes holds the lock of its end, and has a frame to write.
HoldersInv ==
  /\ \A e \in Ends : lock[e] \in Writers => EndOf(lock[e]) = e
  /\ \A t \in Writers : IF write[t].at = "idle" THEN write[t] = Idle
                       ELSE lock[EndOf(t)] = t /\ todo[t] # <<>>

\* Before the server is open nothing comes from it, and whatever it sends then is behind its answer.
OpeningInv ==
  /\ state["server"] = "opening" =>
       /\ state["client"] \in {"opening", "gone"} /\ Size(net["client"]) = 0
       /\ \A t \in Writers : EndOf(t) = "server" => write[t].at = "idle"
  /\ state["client"] = "opening" =>
       /\ Size(buf["client"]) = 0
       /\ Open("server") \/ (\E t \in Writers : EndOf(t) = "server" /\ write[t].at # "idle")
            => Size(net["client"]) > 0

\* What an end has still to read: its queue, what is on the net behind the server's answer, and the
\* data of the frame whose header is written.
Pending(e) ==
  LET t == lock[Other(e)]
  IN IF t \in Writers /\ write[t].at = "data" THEN mask_data(Head(todo[t]).data, write[t].key)
     ELSE <<>>
Arriving(e) ==
  IF e = "client" /\ state[e] = "opening" /\ Size(net[e]) > 0 THEN Rest(net[e], 1) ELSE net[e]
Coming(e) == Cat(Cat(buf[e], Arriving(e)), Pending(e))

\* The messages g are the first ones of s.
Handed(g, s) == Len(g) <= Len(s) /\ \A i \in 1..Len(g) : g[i] = s[i]

\* The frame f is the beginning of that of the message behind the first g of s, and v begins with
\* the rest of it.
PartlyRead(v, s, g, f) ==
  /\ g < Len(s) /\ f.mask \in Masks
  /\ f.op = s[g + 1].op /\ f.len = Size(s[g + 1].data)
  /\ \A i \in 1..Size(f.data) : f.data[i] = mask_data(s[g + 1].data, f.mask)[i]
  /\ \A i \in 1 .. f.len - Size(f.data) :
       v[i] = mask_data(s[g + 1].data, f.mask)[Size(f.data) + i]
  /\ Framed(v, s, g + 1, f.len - Size(f.data))

\* What has been handed over, what is being read and what has still to be read are together what
\* was sent.
Reads(at, q, v, f, g, s) ==
  /\ Handed(g, s)
  /\ at \in {"opening", "reading", "answering"} => Framed(v, s, Len(g), 0)
  /\ at \in {"pulling", "calling"} => PartlyRead(v, s, Len(g), f)
  /\ at = "pulling" => Size(q) = 0
  /\ at = "calling" => Size(f.data) = f.len

StreamAt(e) ==
  e \notin short => Reads(state[e], buf[e], Coming(e), frame[e], got[e], sent[Other(e)])
StreamInv == \A e \in Ends : StreamAt(e)

SocketInv == SocketTypes /\ HoldersInv /\ OpeningInv /\ StreamInv

LEMMA FrameTypes ==
  ASSUME NEW f \in FramesIn
  PROVE  f.data \in Bytes /\ f.len \in 0..255 /\ f.op \in 0..15 /\ f.mask \in [1..4 -> Nat]
BY DEF FramesIn

-----------------------------------------------------------------------------
LEMMA CatIsAssociative ==
  ASSUME NEW x \in Bytes, NEW y \in Bytes, NEW z \in Bytes
  PROVE  Cat(Cat(x, y), z) = Cat(x, Cat(y, z))
<1>1. x \in Seq(Nat) /\ y \in Seq(Nat) /\ z \in Seq(Nat)
  BY DEF Bytes
<1>2. (x \o y) \o z = x \o (y \o z)
  BY <1>1, ConcatAssociative
<1>. QED BY <1>2 DEF Cat

LEMMA CatNothing ==
  ASSUME NEW x \in Bytes
  PROVE  Cat(x, <<>>) = x /\ Cat(<<>>, x) = x
<1>1. x \in Seq(Nat)
  BY DEF Bytes
<1>2. x \o <<>> = x /\ <<>> \o x = x
  BY <1>1, ConcatEmptySeq
<1>. QED BY <1>2 DEF Cat

LEMMA SizeNothing ==
  ASSUME NEW x \in Bytes, Size(x) = 0
  PROVE  x = <<>>
BY NoBytes, SameBytes

\* Taking the first bytes of one and putting them behind the other changes nothing.
LEMMA Passed ==
  ASSUME NEW x \in Bytes, NEW y \in Bytes, NEW n \in 0..Size(y)
  PROVE  Cat(Cat(x, First(y, n)), Rest(y, n)) = Cat(x, y)
<1> DEFINE f == First(y, n)
           r == Rest(y, n)
<1>1. f \in Bytes /\ Size(f) = n /\ \A i \in 1..n : f[i] = y[i]
  BY FirstBytes
<1>2. r \in Bytes /\ Size(r) = Size(y) - n /\ \A i \in 1 .. Size(y) - n : r[i] = y[n + i]
  BY RestBytes
<1>3. n \in Nat /\ Size(y) \in Nat /\ n <= Size(y)
  BY Sizes
<1> HIDE DEF f, r
<1>4. /\ Cat(f, r) \in Bytes /\ Size(Cat(f, r)) = Size(f) + Size(r)
      /\ \A i \in 1..Size(f) : Cat(f, r)[i] = f[i]
      /\ \A i \in 1..Size(r) : Cat(f, r)[Size(f) + i] = r[i]
  BY <1>1, <1>2, Behind
<1>5. Size(Cat(f, r)) = Size(y)
  BY <1>1, <1>2, <1>3, <1>4
<1>6. ASSUME NEW i \in 1..Size(y)
      PROVE  Cat(f, r)[i] = y[i]
  <2>1. CASE i <= n
    BY <1>1, <1>3, <1>4, <2>1
  <2>2. CASE i > n
    <3> DEFINE j == i - n
    <3>1. j \in 1 .. Size(y) - n /\ n + j = i
      BY <1>3, <2>2
    <3> HIDE DEF j
    <3>2. Cat(f, r)[n + j] = r[j]
      BY <1>1, <1>2, <1>4, <3>1
    <3>. QED BY <1>2, <3>1, <3>2
  <2>. QED BY <1>3, <2>1, <2>2
<1>7. Cat(f, r) = y
  BY <1>4, <1>5, <1>6, SameBytes
<1>. QED BY <1>1, <1>2, <1>7, CatIsAssociative DEF f, r

LEMMA RestOfCat ==
  ASSUME NEW x \in Bytes, NEW y \in Bytes, NEW n \in 0..Size(x)
  PROVE  Cat(Rest(x, n), y) = Rest(Cat(x, y), n)
<1> DEFINE c == Cat(x, y)
           r == Rest(x, n)
<1>1. /\ c \in Bytes /\ Size(c) = Size(x) + Size(y)
      /\ \A i \in 1..Size(x) : c[i] = x[i]
      /\ \A i \in 1..Size(y) : c[Size(x) + i] = y[i]
  BY Behind
<1>2. r \in Bytes /\ Size(r) = Size(x) - n /\ \A i \in 1 .. Size(x) - n : r[i] = x[n + i]
  BY RestBytes
<1>3. n \in Nat /\ Size(x) \in Nat /\ Size(y) \in Nat /\ n <= Size(x)
  BY Sizes
<1> HIDE DEF c, r
<1>4. n \in 0..Size(c)
  BY <1>1, <1>3
<1>5. /\ Rest(c, n) \in Bytes /\ Size(Rest(c, n)) = Size(c) - n
      /\ \A i \in 1 .. Size(c) - n : Rest(c, n)[i] = c[n + i]
  BY <1>1, <1>4, RestBytes
<1>6. /\ Cat(r, y) \in Bytes /\ Size(Cat(r, y)) = Size(r) + Size(y)
      /\ \A i \in 1..Size(r) : Cat(r, y)[i] = r[i]
      /\ \A i \in 1..Size(y) : Cat(r, y)[Size(r) + i] = y[i]
  BY <1>2, Behind
<1>7. Size(Cat(r, y)) = Size(Rest(c, n)) /\ Size(Cat(r, y)) = Size(x) - n + Size(y)
  BY <1>1, <1>2, <1>3, <1>5, <1>6
<1>8. ASSUME NEW i \in 1 .. Size(x) - n + Size(y)
      PROVE  Cat(r, y)[i] = Rest(c, n)[i]
  <2>1. i \in 1 .. Size(c) - n /\ Rest(c, n)[i] = c[n + i]
    <3>1. i \in 1 .. Size(c) - n
      BY <1>1, <1>3
    <3>. QED BY <3>1, <1>5
  <2>2. CASE i <= Size(x) - n
    <3>1. i \in 1 .. Size(x) - n /\ n + i \in 1..Size(x)
      BY <1>3, <2>2
    <3>2. Cat(r, y)[i] = x[n + i]
      BY <1>2, <1>6, <3>1
    <3>3. c[n + i] = x[n + i]
      BY <1>1, <3>1
    <3>. QED BY <2>1, <3>2, <3>3
  <2>3. CASE i > Size(x) - n
    <3> DEFINE j == i - (Size(x) - n)
    <3>1. j \in 1..Size(y) /\ i = (Size(x) - n) + j /\ n + i = Size(x) + j
      BY <1>3, <2>3
    <3> HIDE DEF j
    <3>2. Cat(r, y)[Size(r) + j] = y[j] /\ Size(r) + j = i
      BY <1>2, <1>6, <3>1
    <3>3. c[Size(x) + j] = y[j]
      BY <1>1, <3>1
    <3>. QED BY <2>1, <3>1, <3>2, <3>3
  <2>. QED BY <1>3, <2>2, <2>3
<1>. QED BY <1>5, <1>6, <1>7, <1>8, SameBytes DEF c, r

\* A frame more has been sent.
LEMMA SendKeeps ==
  ASSUME NEW at, NEW q, NEW v \in Bytes, NEW f, NEW g \in Seq(Messages), NEW s \in Seq(Messages),
         Reads(at, q, v, f, g, s), NEW m \in Messages, NEW key \in Masks,
         f.len \in 0..255, f.data \in Bytes, Size(f.data) <= f.len
  PROVE  Reads(at, q, Cat(v, Frame(m, key)), f, g, Append(s, m))
<1> DEFINE w == Cat(v, Frame(m, key))
           t == Append(s, m)
<1>1. /\ t \in Seq(Messages) /\ Len(t) = Len(s) + 1 /\ (\A i \in 1..Len(s) : t[i] = s[i])
      /\ Len(s) \in Nat /\ Len(g) \in Nat
  OBVIOUS
<1>2. Frame(m, key) \in Bytes
  BY FrameIs
<1>3. \A i \in 1..Size(v) : w[i] = v[i]
  BY <1>2, Behind
<1> HIDE DEF w, t
<1>4. Handed(g, t)
  BY <1>1 DEF Reads, Handed
<1>5. \A h, a : Framed(v, s, h, a) => Framed(w, t, h, a)
  BY FramedAppend DEF w, t
<1>6. ASSUME PartlyRead(v, s, Len(g), f)
      PROVE  PartlyRead(w, t, Len(g), f)
  <2> DEFINE n == Len(g)
             k == f.len - Size(f.data)
  <2>1. n < Len(s) /\ Framed(v, s, n + 1, k)
    BY <1>6 DEF PartlyRead
  <2>2. t[n + 1] = s[n + 1] /\ n < Len(t)
    BY <1>1, <2>1
  <2>3. k \in 0..Size(v) /\ Size(v) \in Nat
    BY <2>1, FramedBounds, Sizes
  <2>4. \A i \in 1..k : w[i] = v[i]
    BY <1>3, <2>3
  <2>5. Framed(w, t, n + 1, k)
    BY <1>5, <2>1
  <2>. QED BY <1>6, <2>2, <2>4, <2>5 DEF PartlyRead
<1>. QED BY <1>4, <1>5, <1>6 DEF Reads, w, t

\* No frame begins before one was sent; the next one is that of the next message.
LEMMA NextFrame ==
  ASSUME NEW v \in Bytes, NEW s \in Seq(Messages), NEW g, Framed(v, s, g, 0), Size(v) > 0
  PROVE  /\ g + 1 \in 1..Len(s) /\ s[g + 1] \in Messages
         /\ \E key \in Masks : /\ At(v, 0, Frame(s[g + 1], key))
                               /\ Framed(v, s, g + 1, Size(Frame(s[g + 1], key)))
<1>1. g \in 0..Len(s) /\ Len(s) \in Nat
  BY FramedBounds
<1>2. g # Len(s)
  <2>1. SUFFICES ASSUME g = Len(s) PROVE FALSE
    OBVIOUS
  <2>2. 0 = Size(v)
    BY <2>1, FramedEnd
  <2>. QED BY <2>2
<1>3. g < Len(s) /\ g + 1 \in 1..Len(s) /\ s[g + 1] \in Messages
  BY <1>1, <1>2
<1>4. PICK key \in Masks : /\ At(v, 0, Frame(s[g + 1], key))
                           /\ Framed(v, s, g + 1, 0 + Size(Frame(s[g + 1], key)))
  BY <1>3, FramedSplit
<1>5. 0 + Size(Frame(s[g + 1], key)) = Size(Frame(s[g + 1], key))
  BY <1>3, FrameIs, Sizes
<1>. QED BY <1>3, <1>4, <1>5

-----------------------------------------------------------------------------
(* What a step of the reader does to the stream.                           *)

Until(q) == Min({Parsed(q).header + Parsed(q).data, Len(q)})
Have(q) == SubSeq(q, Parsed(q).header + 1, Until(q))
Remaining(q) == SubSeq(q, Parsed(q).header + Parsed(q).data + 1, Len(q))
MaskIn(q) == IF Parsed(q).mask = 0 THEN NoKey
             ELSE SubSeq(q, Parsed(q).header - Parsed(q).mask + 1, Parsed(q).header)
FrameIn(q) == [op |-> q[1] % 16, len |-> Parsed(q).data, data |-> Have(q), mask |-> MaskIn(q)]

\* The header is taken from the queue, with n bytes in all.
LEMMA TakenIs ==
  ASSUME NEW q \in Bytes, Complete(q), NEW d, NEW l, d = Parsed(q).header, l = Parsed(q).data
  PROVE  \E n \in 0..Size(q) :
           /\ n >= d /\ n <= d + l /\ d \in Nat /\ l \in 0..255
           /\ Remaining(q) = Rest(q, n) /\ (n < d + l => n = Size(q))
           /\ Have(q) \in Bytes /\ Size(Have(q)) = n - d
           /\ \A i \in 1 .. n - d : Have(q)[i] = q[d + i]
           /\ FrameIn(q) \in FramesIn
<1> DEFINE s == Size(q)
           n == IF d + l <= s THEN d + l ELSE s
           p == Parsed(q)
<1>1. /\ p.mask \in {0, 4} /\ l \in 0..255 /\ d \in Nat /\ d >= 2 + p.mask /\ d <= s
      /\ s \in Nat /\ s >= 2
  BY ParsedIsTyped
<1> HIDE DEF s, n
<1>2. n \in 0..s /\ n >= d /\ n <= d + l /\ (n < d + l => n = s)
  BY <1>1 DEF n
<1>3. Until(q) = n
  <2>1. Until(q) = Min({d + l, s})
    BY DEF Until, s, Size
  <2>2. /\ n \in {d + l, s} /\ \A y \in {d + l, s} : n <= y
        /\ \A x \in {d + l, s} : (\A y \in {d + l, s} : x <= y) => x = n
    BY <1>1 DEF n
  <2>. QED BY <2>1, <2>2 DEF Min
<1>4. Remaining(q) = Rest(q, n)
  <2>1. Remaining(q) = SubSeq(q, d + l + 1, s) /\ Rest(q, n) = SubSeq(q, n + 1, s)
    BY DEF Remaining, Rest, s, Size
  <2>2. CASE n = d + l
    BY <2>1, <2>2
  <2>3. CASE n # d + l
    <3>1. n = s /\ s < d + l + 1 /\ s < n + 1 /\ d + l + 1 \in Int /\ n + 1 \in Int /\ s \in Int
      BY <1>1, <2>3 DEF n
    <3>2. SubSeq(q, d + l + 1, s) = <<>> /\ SubSeq(q, n + 1, s) = <<>>
      BY <3>1, SubSeqEmpty
    <3>. QED BY <2>1, <3>2
  <2>. QED BY <2>2, <2>3
<1>5. /\ Have(q) \in Bytes /\ Size(Have(q)) = n - d
      /\ \A i \in 1 .. n - d : Have(q)[i] = q[d + i]
  <2>1. Have(q) = SubSeq(q, d + 1, n)
    BY <1>3 DEF Have
  <2>2. \A i \in d + 1 .. n : q[i] \in Nat
    <3>1. \A i \in d + 1 .. n : i \in 1..s
      BY <1>1, <1>2
    <3>. QED BY <3>1, Sizes DEF s
  <2>3. d + 1 \in Int /\ n \in Int
    BY <1>1, <1>2
  <2>4. /\ SubSeq(q, d + 1, n) \in Seq(Nat)
        /\ Len(SubSeq(q, d + 1, n)) = IF d + 1 <= n THEN n - (d + 1) + 1 ELSE 0
        /\ \A i \in 1 .. n - (d + 1) + 1 : SubSeq(q, d + 1, n)[i] = q[d + 1 + i - 1]
    BY <2>2, <2>3, SubSeqProperties
  <2>5. /\ n - (d + 1) + 1 = n - d /\ (IF d + 1 <= n THEN n - (d + 1) + 1 ELSE 0) = n - d
        /\ \A i \in 1 .. n - d : d + 1 + i - 1 = d + i
    BY <1>1, <1>2
  <2>. QED BY <2>1, <2>4, <2>5 DEF Bytes, Size
<1>6. MaskIn(q) \in [1..4 -> Nat]
  <2>1. CASE p.mask = 0
    <3>1. MaskIn(q) = NoKey
      BY <2>1 DEF MaskIn
    <3>2. NoKey \in [1..4 -> Nat]
      BY NoKeyIsMask, PlaceValues DEF Masks, Bits
    <3>. QED BY <3>1, <3>2
  <2>2. CASE p.mask = 4
    <3>1. MaskIn(q) = SubSeq(q, d - 3, d)
      <4>1. MaskIn(q) = SubSeq(q, d - p.mask + 1, d)
        BY <2>2 DEF MaskIn
      <4>2. d - 4 + 1 = d - 3
        BY <1>1
      <4>. QED BY <2>2, <4>1, <4>2
    <3>2. \A i \in d - 3 .. d : q[i] \in Nat
      <4>1. \A i \in d - 3 .. d : i \in 1..s
        BY <1>1, <2>2
      <4>. QED BY <4>1, Sizes DEF s
    <3>3. d - 3 \in Int /\ d \in Int /\ d - 3 <= d /\ d - (d - 3) + 1 = 4
      BY <1>1
    <3>4. SubSeq(q, d - 3, d) \in Seq(Nat) /\ Len(SubSeq(q, d - 3, d)) = 4
      BY <3>2, <3>3, SubSeqProperties
    <3>5. SubSeq(q, d - 3, d) \in [1..4 -> Nat]
      <4> DEFINE x == SubSeq(q, d - 3, d)
      <4> HIDE DEF x
      <4>1. x \in Bytes /\ Size(x) = 4
        BY <3>4 DEF x, Bytes, Size
      <4>2. DOMAIN x = 1..4 /\ \A i \in 1..4 : x[i] \in Nat
        BY <4>1, BytesOf
      <4>3. x = [i \in DOMAIN x |-> x[i]]
        BY <4>1 DEF Bytes
      <4>4. x \in [1..4 -> Nat]
        BY <4>2, <4>3
      <4>. QED BY <4>4 DEF x
    <3>. QED BY <3>1, <3>5
  <2>. QED BY <1>1, <2>1, <2>2
<1>7. q[1] % 16 \in 0..15
  <2>1. q[1] \in Nat
    BY <1>1, Sizes DEF s
  <2>. QED BY <2>1
<1>8. FrameIn(q) \in FramesIn
  BY <1>1, <1>5, <1>6, <1>7 DEF FrameIn, FramesIn
<1>9. n \in 0..Size(q) /\ (n < d + l => n = Size(q))
  BY <1>2 DEF s
<1>. QED BY <1>1, <1>2, <1>4, <1>5, <1>8, <1>9

\* n bytes of the queue q are taken for the header and the first k bytes of the frame of m at the
\* beginning of v.
HeadRead(q, v, m, key) ==
  \E n \in 0..Size(q), k \in 0..Size(m.data) :
    /\ Remaining(q) = Rest(q, n) /\ n <= Size(Frame(m, key))
    /\ FrameIn(q).op = m.op /\ FrameIn(q).len = Size(m.data) /\ FrameIn(q).mask = key
    /\ Size(FrameIn(q).data) = k /\ Size(m.data) - k = Size(Frame(m, key)) - n
    /\ \A i \in 1..k : FrameIn(q).data[i] = mask_data(m.data, key)[i]
    /\ \A i \in 1 .. Size(m.data) - k : v[n + i] = mask_data(m.data, key)[k + i]

\* A complete queue that begins with a frame, as far as it goes, is taken for the beginning of it.
LEMMA HeadOfFrame ==
  ASSUME NEW m \in Messages, NEW key \in Masks, NEW q \in Bytes, NEW v \in Bytes, Complete(q),
         Size(q) <= Size(v), Begins(q, v), At(v, 0, Frame(m, key))
  PROVE  HeadRead(q, v, m, key)
<1> DEFINE op == m.op
           len == Size(m.data)
           h == Header(op, len, key)
           b == mask_data(m.data, key)
           c == Frame(m, key)
           d == Parsed(q).header
           l == Parsed(q).data
           f == FrameIn(q)
<1>1. Size(q) \in Nat /\ Size(q) >= 2 /\ Size(v) \in Nat
  BY ParsedIsTyped, Sizes
<1>2. /\ len \in 0..255 /\ op \in 0..15
      /\ h \in Bytes /\ b \in Bytes /\ Size(b) = len
      /\ c \in Bytes /\ Size(c) = Size(h) + len /\ Size(h) \in Nat
  BY FrameIs
<1>3. /\ \A i \in 1..Size(h) : c[i] = h[i]
      /\ \A i \in 1..Size(b) : c[Size(h) + i] = b[i]
  BY <1>2, Behind DEF Frame
<1>4. 0 + Size(c) <= Size(v) /\ \A i \in 1..Size(c) : v[0 + i] = c[i]
  BY DEF At
<1> HIDE DEF h, b, c, op, len, f, d, l
<1>5. Size(c) <= Size(v) /\ \A i \in 1..Size(c) : v[i] = c[i]
  <2>1. Size(c) \in Nat /\ \A i \in 1..Size(c) : 0 + i = i
    BY <1>2
  <2>. QED BY <1>4, <2>1
<1>6. \A i \in 1..Size(q) : i <= Size(h) => q[i] = h[i]
  <2> TAKE i \in 1..Size(q)
  <2> HAVE i <= Size(h)
  <2>1. i \in 1..Size(h) /\ i \in 1..Size(c)
    BY <1>1, <1>2
  <2>2. v[i] = q[i]
    BY <1>1 DEF Begins
  <2>. QED BY <1>3, <1>5, <2>1, <2>2
<1>7. /\ Parsed(q) = [header |-> Size(h), mask |-> MaskOf(key), data |-> len]
      /\ q[1] = 128 + op
      /\ key # NoKey => SubSeq(q, Size(h) - 3, Size(h)) = key
  <2>1. Begins(q, Header(op, len, key))
    BY <1>6 DEF h, Begins
  <2>2. op \in 0..15 /\ len \in 0..255 /\ key \in Masks /\ q \in Bytes /\ Complete(q)
    BY <1>2
  <2>3. Says(q, op, len, key)
    BY <2>1, <2>2, HeaderIsParsed
  <2>. QED BY <2>3 DEF h, Says
<1>8. d = Size(h) /\ l = len /\ Parsed(q).mask = MaskOf(key)
  BY <1>7 DEF d, l
<1>9. MaskIn(q) = key
  <2>1. CASE key = NoKey
    BY <1>8, <2>1 DEF MaskIn, MaskOf
  <2>2. CASE key # NoKey
    <3>1. Parsed(q).mask = 4
      BY <1>8, <2>2 DEF MaskOf
    <3>2. MaskIn(q) = SubSeq(q, d - Parsed(q).mask + 1, d)
      BY <3>1 DEF MaskIn, d
    <3>3. Size(h) - 4 + 1 = Size(h) - 3
      BY <1>2
    <3>. QED BY <1>7, <1>8, <2>2, <3>1, <3>2, <3>3
  <2>. QED BY <2>1, <2>2
<1>10. f.op = op /\ f.len = len /\ f.mask = key /\ f.data = Have(q)
  <2>1. f.op = q[1] % 16 /\ f.len = l /\ f.mask = MaskIn(q) /\ f.data = Have(q)
    BY DEF FrameIn, f, l
  <2>2. \A o \in 0..15 : (128 + o) % 16 = o
    OBVIOUS
  <2>. QED BY <1>2, <1>7, <1>8, <1>9, <2>1, <2>2
<1>11. PICK n \in 0..Size(q) :
         /\ n >= d /\ n <= d + l /\ d \in Nat /\ l \in 0..255
         /\ Remaining(q) = Rest(q, n)
         /\ Have(q) \in Bytes /\ Size(Have(q)) = n - d
         /\ \A i \in 1 .. n - d : Have(q)[i] = q[d + i]
  <2>1. \E n \in 0..Size(q) :
         /\ n >= d /\ n <= d + l /\ d \in Nat /\ l \in 0..255
         /\ Remaining(q) = Rest(q, n) /\ (n < d + l => n = Size(q))
         /\ Have(q) \in Bytes /\ Size(Have(q)) = n - d
         /\ \A i \in 1 .. n - d : Have(q)[i] = q[d + i]
         /\ FrameIn(q) \in FramesIn
    BY TakenIs DEF d, l
  <2>. QED BY <2>1
<1> DEFINE k == n - Size(h)
<1>12. n \in Nat /\ n >= Size(h) /\ n <= Size(h) + len
  BY <1>1, <1>8, <1>11
<1>13. k \in 0..len /\ n = Size(h) + k /\ n <= Size(c) /\ len - k = Size(c) - n
  BY <1>2, <1>12
<1>14. Size(f.data) = k /\ \A i \in 1..k : f.data[i] = q[Size(h) + i]
  BY <1>8, <1>10, <1>11
<1> HIDE DEF k
<1>15. ASSUME NEW i \in 1..k
       PROVE  f.data[i] = b[i]
  <2>1. Size(h) + i \in 1..Size(c) /\ Size(h) + i \in 1..Size(q) /\ i \in 1..Size(b)
    BY <1>1, <1>2, <1>11, <1>13
  <2>2. q[Size(h) + i] = c[Size(h) + i]
    <3>1. v[Size(h) + i] = q[Size(h) + i]
      BY <1>1, <2>1 DEF Begins
    <3>. QED BY <1>5, <2>1, <3>1
  <2>. QED BY <1>3, <1>14, <2>1, <2>2
<1>16. ASSUME NEW i \in 1 .. len - k
       PROVE  v[n + i] = b[k + i]
  <2>0. k \in Nat /\ len \in Nat /\ n = Size(h) + k /\ Size(h) \in Nat /\ i \in Nat /\ i >= 1 /\ i <= len - k
    BY <1>2, <1>13
  <2>1. n + i \in 1..Size(c) /\ k + i \in 1..Size(b) /\ n + i = Size(h) + (k + i)
    BY <1>2, <2>0
  <2>. QED BY <1>3, <1>5, <2>1
<1>17. k \in 0..Size(m.data)
  BY <1>13 DEF len
<1>. QED BY <1>10, <1>11, <1>13, <1>14, <1>15, <1>16, <1>17 DEF op, len, b, c, f, HeadRead

LEMMA TakeKeeps ==
  ASSUME NEW q \in Bytes, NEW y \in Bytes, Complete(q), NEW s \in Seq(Messages), NEW g,
         Framed(Cat(q, y), s, g, 0)
  PROVE  PartlyRead(Cat(Remaining(q), y), s, g, FrameIn(q))
<1> DEFINE v == Cat(q, y)
           w == Cat(Remaining(q), y)
           f == FrameIn(q)
           m == s[g + 1]
<1>1. /\ v \in Bytes /\ Size(v) = Size(q) + Size(y) /\ \A i \in 1..Size(q) : v[i] = q[i]
  BY Behind
<1>2. Size(q) \in Nat /\ Size(q) >= 2 /\ Size(y) \in Nat
  BY ParsedIsTyped, Sizes
<1>3. Size(v) > 0 /\ Size(q) <= Size(v) /\ Size(v) \in Nat
  BY <1>1, <1>2
<1>4. g < Len(s)
  <2>1. g \in 0..Len(s) /\ Len(s) \in Nat
    BY <1>1, FramedBounds
  <2>2. g + 1 \in 1..Len(s)
    BY <1>1, <1>3, NextFrame
  <2>. QED BY <2>1, <2>2
<1>5. /\ m \in Messages
      /\ \E key \in Masks : At(v, 0, Frame(m, key)) /\ Framed(v, s, g + 1, Size(Frame(m, key)))
  BY <1>1, <1>3, NextFrame
<1> HIDE DEF v, w, f, m
<1>6. PICK key \in Masks : At(v, 0, Frame(m, key)) /\ Framed(v, s, g + 1, Size(Frame(m, key)))
  BY <1>5
<1> DEFINE len == Size(m.data)
           c == Frame(m, key)
           b == mask_data(m.data, key)
<1>7. PICK n \in 0..Size(q), k \in 0..len :
        /\ Remaining(q) = Rest(q, n) /\ n <= Size(c)
        /\ f.op = m.op /\ f.len = len /\ f.mask = key
        /\ Size(f.data) = k /\ len - k = Size(c) - n
        /\ \A i \in 1..k : f.data[i] = b[i]
        /\ \A i \in 1 .. len - k : v[n + i] = b[k + i]
  <2>1. Begins(q, v)
    BY <1>1 DEF Begins
  <2>2. HeadRead(q, v, m, key)
    BY <1>1, <1>3, <1>5, <1>6, <2>1, HeadOfFrame
  <2>. QED BY <2>2 DEF f, len, b, c, HeadRead
<1>8. c \in Bytes /\ Size(c) \in Nat /\ len \in 0..255 /\ Size(c) >= len
  <2>1. c \in Bytes /\ len \in 0..255 /\ Size(c) = Size(Header(m.op, len, key)) + len /\ Size(Header(m.op, len, key)) \in Nat
    BY <1>5, FrameIs
  <2> HIDE DEF c, len
  <2>. QED BY <2>1
<1> HIDE DEF c, b, len
<1>9. w = Rest(v, n)
  BY <1>7, RestOfCat DEF v, w
<1>10. n \in 0..Size(c) /\ n \in 0..Size(v)
  BY <1>2, <1>3, <1>7, <1>8
<1>11. \A i \in 1 .. Size(v) - n : w[i] = v[n + i]
  BY <1>1, <1>9, <1>10, RestBytes
<1>12. Framed(w, s, g + 1, Size(c) - n)
  BY <1>1, <1>6, <1>9, <1>10, FramedRest DEF c
<1>13. Size(c) <= Size(v)
  <2>1. Size(c) \in 0..Size(v)
    BY <1>1, <1>6, FramedBounds DEF c
  <2>. QED BY <1>3, <2>1
<1>14. ASSUME NEW i \in 1 .. len - k
       PROVE  w[i] = b[k + i]
  <2>1. i \in 1 .. Size(v) - n
    BY <1>3, <1>7, <1>8, <1>10, <1>13
  <2>. QED BY <1>7, <1>11, <2>1
<1>15. /\ f.mask \in Masks /\ f.op = s[g + 1].op /\ f.len = Size(s[g + 1].data)
       /\ b = mask_data(s[g + 1].data, f.mask)
  BY <1>7 DEF m, len, b
<1>16. /\ Size(f.data) = k /\ f.len = len /\ Framed(w, s, g + 1, f.len - Size(f.data))
  BY <1>7, <1>12
<1>17. PartlyRead(w, s, g, f)
  BY <1>4, <1>7, <1>14, <1>15, <1>16 DEF PartlyRead
<1>. QED BY <1>17 DEF w, f

\* The next bytes of the payload are pulled.
LEMMA PullDataKeeps ==
  ASSUME NEW v \in Bytes, NEW s \in Seq(Messages), NEW g,
         NEW f, f.len \in Nat, f.data \in Bytes, Size(f.data) <= f.len, PartlyRead(v, s, g, f),
         NEW n \in 0 .. f.len - Size(f.data), NEW x \in Bytes, Size(x) = n, Begins(x, v),
         NEW h, h.op = f.op, h.mask = f.mask, h.len = f.len, h.data = Cat(f.data, x)
  PROVE  PartlyRead(Rest(v, n), s, g, h)
<1> DEFINE k == Size(f.data)
           len == f.len
           b == mask_data(s[g + 1].data, f.mask)
           d == Cat(f.data, x)
           w == Rest(v, n)
<1>1. k \in Nat /\ len \in Nat /\ n \in Nat /\ n <= len - k /\ Size(v) \in Nat
  <2>1. f.data \in Bytes /\ len \in Nat
    OBVIOUS
  <2>2. k \in Nat /\ Size(v) \in Nat
    BY <2>1, Sizes
  <2> HIDE DEF k, len
  <2>3. n \in 0 .. len - k
    BY DEF k, len
  <2>. QED BY <2>1, <2>2, <2>3
<1>2. /\ g < Len(s) /\ f.mask \in Masks /\ f.op = s[g + 1].op /\ len = Size(s[g + 1].data)
      /\ \A i \in 1..k : f.data[i] = b[i]
      /\ \A i \in 1 .. len - k : v[i] = b[k + i]
      /\ Framed(v, s, g + 1, len - k)
  BY DEF PartlyRead
<1>3. len - k \in 0..Size(v)
  BY <1>2, FramedBounds
<1>4. /\ Size(d) = k + n
      /\ \A i \in 1..k : d[i] = f.data[i]
      /\ \A i \in 1..n : d[k + i] = x[i]
  BY Behind
<1>5. n \in 0..Size(v) /\ n \in 0 .. len - k
  BY <1>1, <1>3
<1>6. /\ Size(w) = Size(v) - n /\ \A i \in 1 .. Size(v) - n : w[i] = v[n + i]
  BY <1>5, RestBytes
<1>7. Framed(w, s, g + 1, len - k - n)
  <2>1. \A a : Framed(v, s, g + 1, a) /\ n \in 0..a => Framed(Rest(v, n), s, g + 1, a - n)
    BY FramedRest
  <2> HIDE DEF k, len, w
  <2>. QED BY <1>2, <1>5, <2>1 DEF w
<1>8. h.op = f.op /\ h.mask = f.mask /\ h.len = len /\ h.data = d
  OBVIOUS
<1> HIDE DEF k, len, b, d, w
<1>9. ASSUME NEW i \in 1 .. k + n
      PROVE  d[i] = b[i]
  <2>1. CASE i <= k
    <3>1. i \in 1..k
      BY <1>1, <2>1
    <3>. QED BY <1>2, <1>4, <3>1
  <2>2. CASE i > k
    <3> DEFINE j == i - k
    <3>1. j \in 1..n /\ j \in 1 .. len - k /\ j \in 1..Size(v) /\ i = k + j
      BY <1>1, <1>3, <2>2
    <3> HIDE DEF j
    <3>2. x[j] = v[j]
      BY <1>1, <3>1 DEF Begins
    <3>. QED BY <1>2, <1>4, <3>1, <3>2
  <2>. QED BY <1>1, <2>1, <2>2
<1>10. ASSUME NEW i \in 1 .. len - (k + n)
       PROVE  w[i] = b[k + n + i]
  <2>1. i \in 1 .. Size(v) - n /\ n + i \in 1 .. len - k /\ k + n + i = k + (n + i)
    BY <1>1, <1>3
  <2>. QED BY <1>2, <1>6, <2>1
<1>11. len - (k + n) = len - k - n
  BY <1>1
<1>12. b = mask_data(s[g + 1].data, h.mask)
  BY <1>8 DEF b
<1>13. PartlyRead(w, s, g, h)
  BY <1>2, <1>4, <1>7, <1>8, <1>9, <1>10, <1>11, <1>12 DEF PartlyRead
<1>. QED BY <1>13 DEF w, d

\* The message handed over is the one that was sent.
LEMMA CallbackKeeps ==
  ASSUME NEW v \in Bytes, NEW s \in Seq(Messages), NEW g \in Seq(Messages), Handed(g, s),
         NEW f, f.len \in Nat, f.data \in Bytes, Size(f.data) = f.len, PartlyRead(v, s, Len(g), f),
         NEW m, m = [op |-> f.op, data |-> mask_data(f.data, f.mask)]
  PROVE  /\ m = s[Len(g) + 1]
         /\ Handed(Append(g, m), s) /\ Framed(v, s, Len(Append(g, m)), 0)
<1> DEFINE n == Len(g)
           o == s[n + 1]
           d == f.data
<1>1. n \in Nat /\ Len(s) \in Nat /\ n < Len(s)
  BY DEF PartlyRead
<1>2. o \in Messages
  BY <1>1
<1>3. o \in [op : 0..15, data : Seq(Bits)] /\ o.data \in Seq(Bits)
  BY <1>2, PlaceValues DEF Messages, Bits
<1> HIDE DEF n, o, d
<1>4. f.mask \in Masks /\ f.op = o.op /\ Size(d) = Size(o.data)
  BY DEF PartlyRead, n, o, d
<1>5. o.data \in Bytes /\ mask_data(mask_data(o.data, f.mask), f.mask) = o.data /\ f.mask \in [1..4 -> Nat]
  BY <1>3, <1>4, Unmasked
<1>6. mask_data(o.data, f.mask) \in Bytes /\ Size(mask_data(o.data, f.mask)) = Size(o.data)
  BY <1>5, MaskedIs
<1>7. \A i \in 1..Size(d) : d[i] = mask_data(o.data, f.mask)[i]
  BY DEF PartlyRead, n, o, d
<1>8. d = mask_data(o.data, f.mask)
  <2>1. d \in Bytes
    BY DEF d
  <2>. QED BY <1>4, <1>6, <1>7, <2>1, SameBytes
<1>9. m = o
  <2>1. m = [op |-> o.op, data |-> o.data]
    BY <1>4, <1>5, <1>8 DEF d
  <2>. QED BY <1>3, <2>1
<1>10. Append(g, m) \in Seq(Messages) /\ Len(Append(g, m)) = n + 1 /\ Append(g, m)[n + 1] = m
       /\ \A i \in 1..n : Append(g, m)[i] = g[i]
  BY <1>2, <1>9 DEF n
<1>11. Handed(Append(g, m), s)
  <2>1. \A i \in 1..n : g[i] = s[i]
    BY DEF Handed, n
  <2>2. \A i \in 1 .. n + 1 : i \in 1..n \/ i = n + 1
    BY <1>1
  <2> HIDE DEF Handed
  <2>3. m = s[n + 1]
    BY <1>9 DEF o
  <2>4. n + 1 <= Len(s)
    BY <1>1
  <2>. QED BY <1>10, <2>1, <2>2, <2>3, <2>4 DEF Handed
<1>12. Framed(v, s, n + 1, 0)
  <2>1. Framed(v, s, n + 1, f.len - Size(f.data))
    BY DEF PartlyRead, n
  <2>2. f.len - Size(f.data) = 0
    <3>1. f.len \in Nat
      OBVIOUS
    <3>. QED BY <3>1
  <2>. QED BY <2>1, <2>2
<1>. QED BY <1>9, <1>10, <1>11, <1>12 DEF n, o

-----------------------------------------------------------------------------
LEMMA OtherEnd ==
  ASSUME NEW e \in Ends
  PROVE  Other(e) \in Ends /\ Other(e) # e /\ Other(Other(e)) = e /\ \A d \in Ends : d = e \/ d = Other(e)
BY DEF Ends, Other

LEMMA BitsAreBytes ==
  ASSUME NEW m \in Messages, NEW key \in Masks
  PROVE  mask_data(m.data, key) \in Bytes
BY FrameIs

LEMMA HeadOfTodo ==
  ASSUME NEW q \in Seq(Messages), q # <<>>
  PROVE  Head(q) \in Messages /\ Tail(q) \in Seq(Messages) /\ <<Head(q)>> \in Seq(Messages)
         /\ Head(<<Head(q)>>) = Head(q)
OBVIOUS

\* What is still to come is bytes.
LEMMA ComingIsBytes ==
  ASSUME SocketTypes, HoldersInv, NEW e \in Ends
  PROVE  Pending(e) \in Bytes /\ Arriving(e) \in Bytes /\ Coming(e) \in Bytes
<1>1. Pending(e) \in Bytes
  <2> DEFINE t == lock[Other(e)]
  <2>1. CASE t \in Writers /\ write[t].at = "data"
    <3>1. todo[t] # <<>> /\ todo[t] \in Seq(Messages) /\ write[t].key \in Masks
      BY <2>1 DEF SocketTypes, HoldersInv
    <3>2. Head(todo[t]) \in Messages
      BY <3>1, HeadOfTodo
    <3>3. Pending(e) = mask_data(Head(todo[t]).data, write[t].key)
      BY <2>1 DEF Pending
    <3>. QED BY <3>1, <3>2, <3>3, BitsAreBytes
  <2>2. CASE ~(t \in Writers /\ write[t].at = "data")
    BY <2>2, NoBytes DEF Pending
  <2>. QED BY <2>1, <2>2
<1>2. Arriving(e) \in Bytes
  <2>1. net[e] \in Bytes
    BY DEF SocketTypes
  <2>2. Size(net[e]) > 0 => 1 \in 0..Size(net[e])
    BY <2>1, Sizes
  <2>3. Size(net[e]) > 0 => Rest(net[e], 1) \in Bytes
    BY <2>1, <2>2, RestBytes
  <2>. QED BY <2>1, <2>3 DEF Arriving
<1>3. buf[e] \in Bytes
  BY DEF SocketTypes
<1>. QED BY <1>1, <1>2, <1>3, Behind DEF Coming

LEMMA SocketStart == Init => SocketInv
<1> SUFFICES ASSUME Init PROVE SocketInv
  OBVIOUS
<1>1. SocketTypes
  <2>1. NoFrame \in FramesIn
    <3>1. NoKey \in [1..4 -> Nat]
      BY NoKeyIsMask, PlaceValues DEF Masks, Bits
    <3>. QED BY <3>1, NoBytes DEF NoFrame, FramesIn
  <2>2. Size(NoFrame.data) <= NoFrame.len
    <3>1. NoFrame.data = <<>> /\ NoFrame.len = 0
      BY DEF NoFrame
    <3>. QED BY <3>1, NoBytes
  <2>3. todo \in [Writers -> Seq(Messages)]
    BY SocketAssumption DEF Init
  <2>4. write \in [Writers -> [at : {"idle", "header", "data"}, key : Masks]]
    BY NoKeyIsMask DEF Init, Idle
  <2>5. net \in [Ends -> Bytes] /\ buf \in [Ends -> Bytes]
    BY NoBytes DEF Init
  <2>6. got \in [Ends -> Seq(Messages)] /\ sent \in [Ends -> Seq(Messages)]
    BY DEF Init
  <2>7. frame \in [Ends -> FramesIn] /\ \A e \in Ends : Size(frame[e].data) <= frame[e].len
    BY <2>1, <2>2 DEF Init
  <2>8. request \in Requests /\ state \in [Ends -> States] /\ lock \in [Ends -> Writers \cup {Nobody}]
    BY DEF Init, States
  <2>. QED BY <2>3, <2>4, <2>5, <2>6, <2>7, <2>8 DEF SocketTypes
<1>2. HoldersInv
  BY SocketAssumption DEF Init, HoldersInv, Idle
<1>3. OpeningInv
  <2>1. net["client"] = <<>> /\ buf["client"] = <<>> /\ state["server"] = "opening" /\ state["client"] = "opening"
    BY DEF Init, Ends
  <2>2. \A t \in Writers : write[t].at = "idle"
    BY DEF Init, Idle
  <2>3. ~Open("server")
    BY <2>1 DEF Open
  <2>. QED BY <2>1, <2>2, <2>3, NoBytes DEF OpeningInv
<1>4. StreamInv
  <2> SUFFICES ASSUME NEW e \in Ends PROVE StreamAt(e)
    BY DEF StreamInv
  <2>1. state[e] = "opening" /\ net[e] = <<>> /\ buf[e] = <<>> /\ got[e] = <<>> /\ sent[Other(e)] = <<>>
        /\ lock[Other(e)] = Nobody
    BY OtherEnd DEF Init
  <2>2. Pending(e) = <<>>
    BY <2>1, SocketAssumption DEF Pending
  <2>3. Arriving(e) = <<>>
    BY <2>1, NoBytes DEF Arriving
  <2>4. Coming(e) = <<>>
    BY <2>1, <2>2, <2>3, NoBytes, CatNothing DEF Coming
  <2>5. Framed(<<>>, <<>>, 0, 0)
    <3>1. <<>> \in Seq(Messages) /\ Len(<<>>) = 0
      OBVIOUS
    <3>2. Framed(<<>>, <<>>, Len(<<>>), Size(<<>>))
      BY <3>1, NoBytes, FramedEnd
    <3>. QED BY <3>1, <3>2, NoBytes
  <2>6. Handed(<<>>, <<>>)
    BY DEF Handed
  <2>7. Len(<<>>) = 0
    OBVIOUS
  <2>. QED BY <2>1, <2>4, <2>5, <2>6, <2>7 DEF StreamAt, Reads
<1>. QED BY <1>1, <1>2, <1>3, <1>4 DEF SocketInv

-----------------------------------------------------------------------------
(* What a step leaves alone stays as it was.                               *)

LEMMA PendingKept ==
  ASSUME NEW e \in Ends, lock' = lock, write' = write,
         \A t \in Writers : write[t].at = "data" => Head(todo'[t]) = Head(todo[t])
  PROVE  Pending(e)' = Pending(e)
BY DEF Pending

LEMMA ComingKept ==
  ASSUME NEW e, buf'[e] = buf[e], net'[e] = net[e], state'[e] = "opening" <=> state[e] = "opening",
         Pending(e)' = Pending(e)
  PROVE  Coming(e)' = Coming(e)
BY DEF Coming, Arriving

LEMMA StreamKept ==
  ASSUME NEW e, StreamAt(e), short \subseteq short', state'[e] = state[e], buf'[e] = buf[e],
         frame'[e] = frame[e], got'[e] = got[e], sent'[Other(e)] = sent[Other(e)],
         Coming(e)' = Coming(e)
  PROVE  StreamAt(e)'
BY DEF StreamAt

\* An end that reads has seen the server open.
LEMMA ServerIsOpen ==
  ASSUME SocketInv, NEW e \in Ends, state[e] \notin {"opening", "gone"}
  PROVE  state["server"] # "opening"
BY DEF SocketInv, OpeningInv, Ends

LEMMA OpeningKept ==
  ASSUME SocketInv, NEW e \in Ends, state[e] \notin {"opening", "gone"},
         \A d \in Ends : d # e => state'[d] = state[d] /\ net'[d] = net[d] /\ buf'[d] = buf[d],
         state'[e] # "opening", Open(e)' => Open(e), write' = write
  PROVE  OpeningInv'
<1>1. state["server"] # "opening" /\ OpeningInv
  BY ServerIsOpen DEF SocketInv
<1>2. state'["server"] # "opening"
  BY <1>1 DEF Ends
<1>3. CASE e = "client"
  BY <1>2, <1>3 DEF OpeningInv
<1>4. CASE e = "server"
  <2>1. state'["client"] = state["client"] /\ net'["client"] = net["client"] /\ buf'["client"] = buf["client"]
    BY <1>4 DEF Ends
  <2>. QED BY <1>1, <1>2, <1>4, <2>1 DEF OpeningInv
<1>. QED BY <1>3, <1>4 DEF Ends

\* A step that takes from the net to e, from its queue, or hands a message over.
LEMMA ReadKeeps ==
  ASSUME SocketInv, NEW e \in Ends, state[e] \notin {"opening", "gone"}, SocketTypes',
         \A d \in Ends : d # e => /\ state'[d] = state[d] /\ net'[d] = net[d] /\ buf'[d] = buf[d]
                                 /\ frame'[d] = frame[d] /\ got'[d] = got[d],
         state'[e] # "opening", Open(e)' => Open(e), UNCHANGED <<write, lock, sent, short>>,
         \A t \in Writers : write[t].at # "idle" => todo'[t] # <<>> /\ Head(todo'[t]) = Head(todo[t]),
         e \notin short => Reads(state'[e], buf'[e], Cat(Cat(buf'[e], net'[e]), Pending(e)), frame'[e],
                                got'[e], sent[Other(e)])
  PROVE  SocketInv'
<1>1. HoldersInv'
  BY DEF SocketInv, HoldersInv
<1>2. OpeningInv'
  BY OpeningKept
<1>3. StreamInv'
  <2> SUFFICES ASSUME NEW d \in Ends PROVE StreamAt(d)'
    BY DEF StreamInv
  <2>1. Pending(d)' = Pending(d)
    BY PendingKept
  <2>2. CASE d # e
    <3>1. Coming(d)' = Coming(d)
      BY <2>1, <2>2, ComingKept
    <3>2. StreamAt(d)
      BY DEF SocketInv, StreamInv
    <3>. QED BY <2>2, <3>1, <3>2, StreamKept
  <2>3. CASE d = e
    <3>1. Coming(e)' = Cat(Cat(buf'[e], net'[e]), Pending(e))
      BY <2>1, <2>3 DEF Coming, Arriving
    <3>. QED BY <2>3, <3>1 DEF StreamAt
  <2>. QED BY <2>2, <2>3
<1>. QED BY <1>1, <1>2, <1>3 DEF SocketInv

-----------------------------------------------------------------------------
(* The steps that read and write nothing.                                  *)

LEMMA StillKeeps ==
  ASSUME SocketInv, UNCHANGED <<opening, state, net, reading, writing>>
  PROVE  SocketInv'
<1>1. SocketTypes'
  BY DEF SocketInv, SocketTypes, opening, reading, writing
<1>2. HoldersInv'
  BY DEF SocketInv, HoldersInv, writing
<1>3. OpeningInv'
  BY DEF SocketInv, OpeningInv, Open, reading, writing
<1>4. StreamInv'
  <2> SUFFICES ASSUME NEW e \in Ends PROVE StreamAt(e)'
    BY DEF StreamInv
  <2>1. Pending(e)' = Pending(e)
    BY PendingKept DEF writing
  <2>2. Coming(e)' = Coming(e)
    BY <2>1, ComingKept DEF reading
  <2>. QED BY <2>2, StreamKept DEF SocketInv, StreamInv, reading, writing
<1>. QED BY <1>1, <1>2, <1>3, <1>4 DEF SocketInv

LEMMA MoveKeeps ==
  ASSUME SocketInv, NEW e \in Ends, NEW x \in {"left", "closing", "closed", "gone", "reading"},
         state[e] \notin {"opening", "gone"}, state' = [state EXCEPT ![e] = x],
         x = "left" => Open(e), x = "reading" => state[e] = "answering",
         UNCHANGED <<opening, net, reading, lock, write, sent, short>>,
         todo' \in [Writers -> Seq(Messages)],
         \A t \in Writers : write[t].at # "idle" => todo'[t] # <<>> /\ Head(todo'[t]) = Head(todo[t])
  PROVE  SocketInv'
<1>0. state \in [Ends -> States] /\ x \in States
  BY DEF SocketInv, SocketTypes, States
<1>1. SocketTypes'
  BY <1>0 DEF SocketInv, SocketTypes, opening, reading
<1>2. HoldersInv'
  BY DEF SocketInv, HoldersInv
<1>3. OpeningInv'
  <2>1. state'[e] = x /\ \A d \in Ends : d # e => state'[d] = state[d]
    BY <1>0
  <2>2. Open(e)' => Open(e)
    BY <2>1 DEF Open
  <2>. QED BY <2>1, <2>2, OpeningKept DEF reading
<1>4. StreamInv'
  <2> SUFFICES ASSUME NEW d \in Ends PROVE StreamAt(d)'
    BY DEF StreamInv
  <2>1. Pending(d)' = Pending(d)
    BY PendingKept
  <2>2. state'[e] = x /\ (d # e => state'[d] = state[d])
    BY <1>0
  <2>3. Coming(d)' = Coming(d)
    BY <2>1, <2>2, ComingKept DEF reading
  <2>4. StreamAt(d)
    BY DEF SocketInv, StreamInv
  <2>5. CASE d # e
    BY <2>2, <2>3, <2>4, <2>5, StreamKept DEF reading
  <2>6. CASE d = e
    <3>1. SUFFICES ASSUME d \notin short
                   PROVE  Reads(x, buf[d], Coming(d), frame[d], got[d], sent[Other(d)])
      BY <2>2, <2>3, <2>6 DEF StreamAt, reading
    <3>2. Reads(state[d], buf[d], Coming(d), frame[d], got[d], sent[Other(d)])
      BY <2>4, <3>1 DEF StreamAt
    <3>. QED BY <2>6, <3>2 DEF Reads
  <2>. QED BY <2>5, <2>6
<1>. QED BY <1>1, <1>2, <1>3, <1>4 DEF SocketInv

LEMMA MovesKeep ==
  ASSUME SocketInv
  PROVE  /\ ClientStartFails \/ HandlerReturns => SocketInv'
         /\ \A e \in Ends : OutOfMemory(e) \/ PullFails(e) \/ CloseHandler(e) \/ Closes(e) => SocketInv'
         /\ ClientCloses \/ ClientShuts \/ ClientJoins \/ ServerStops => SocketInv'
<1>0. /\ todo \in [Writers -> Seq(Messages)] /\ state \in [Ends -> States]
      /\ \A t \in Writers : write[t].at # "idle" => todo[t] # <<>>
  BY DEF SocketInv, SocketTypes, HoldersInv
<1>1. ASSUME NEW e \in Ends, NEW x \in {"left", "closing", "closed", "gone", "reading"},
             state[e] \notin {"opening", "gone"}, state' = [state EXCEPT ![e] = x],
             x = "left" => Open(e), x = "reading" => state[e] = "answering",
             UNCHANGED <<opening, net, reading, writing>>
      PROVE  SocketInv'
  <2>1. UNCHANGED <<opening, net, reading, lock, write, sent, short>> /\ todo' = todo
    BY <1>1 DEF writing
  <2>. QED BY <1>0, <1>1, <2>1, MoveKeeps
<1>2. ASSUME ClientStartFails PROVE SocketInv'
  <2>1. "client" \in Ends /\ state["client"] = "reading" /\ state' = [state EXCEPT !["client"] = "gone"]
        /\ UNCHANGED <<opening, net, reading, writing>>
    BY <1>2 DEF ClientStartFails, Goto, Ends
  <2>. QED BY <1>1, <2>1
<1>3. ASSUME HandlerReturns PROVE SocketInv'
  <2>1. "server" \in Ends /\ state["server"] = "answering" /\ UNCHANGED <<opening, net, reading, writing>>
    BY <1>3 DEF HandlerReturns, Ends
  <2>2. PICK keep \in BOOLEAN : state' = [state EXCEPT !["server"] = IF keep THEN "reading" ELSE "left"]
    BY <1>3 DEF HandlerReturns, Goto
  <2>3. Open("server")
    BY <2>1 DEF Open
  <2>. QED BY <1>1, <2>1, <2>2, <2>3
<1>4. ASSUME NEW e \in Ends, OutOfMemory(e) \/ PullFails(e) PROVE SocketInv'
  <2>1. state[e] \in {"reading", "pulling"} /\ state' = [state EXCEPT ![e] = "left"]
        /\ UNCHANGED <<opening, net, reading, writing>>
    BY <1>4 DEF OutOfMemory, PullFails, Goto
  <2>2. Open(e)
    BY <2>1 DEF Open
  <2>. QED BY <1>1, <2>1, <2>2
<1>5. ASSUME NEW e \in Ends, Closes(e) PROVE SocketInv'
  <2>1. state[e] = "closing" /\ state' = [state EXCEPT ![e] = "closed"]
        /\ UNCHANGED <<opening, net, reading, writing>>
    BY <1>5 DEF Closes, Goto
  <2>. QED BY <1>1, <2>1
<1>6. ASSUME NEW e \in Ends, CloseHandler(e) PROVE SocketInv'
  <2>1. /\ state[e] = "left" /\ state' = [state EXCEPT ![e] = "closing"]
        /\ UNCHANGED <<opening, net, reading, lock, write, sent, short>>
        /\ todo' = [t \in Writers |-> IF EndOf(t) # e THEN todo[t]
                                      ELSE IF write[t] = Idle THEN <<>> ELSE <<Head(todo[t])>>]
    BY <1>6 DEF CloseHandler, Goto
  <2>2. ASSUME NEW t \in Writers
        PROVE  /\ todo'[t] \in Seq(Messages)
               /\ write[t].at # "idle" => todo'[t] # <<>> /\ Head(todo'[t]) = Head(todo[t])
    <3>1. CASE EndOf(t) # e
      <4>1. todo'[t] = todo[t]
        BY <2>1, <3>1
      <4>. QED BY <1>0, <4>1
    <3>2. CASE EndOf(t) = e /\ write[t] = Idle
      <4>1. todo'[t] = <<>> /\ write[t].at = "idle"
        BY <2>1, <3>2 DEF Idle
      <4>. QED BY <4>1
    <3>3. CASE EndOf(t) = e /\ write[t] # Idle
      <4>1. todo'[t] = <<Head(todo[t])>> /\ todo[t] # <<>> /\ todo[t] \in Seq(Messages)
        BY <1>0, <2>1, <3>3 DEF SocketInv, HoldersInv
      <4>2. <<Head(todo[t])>> \in Seq(Messages) /\ Head(<<Head(todo[t])>>) = Head(todo[t])
        BY <4>1, HeadOfTodo
      <4>3. <<Head(todo[t])>> # <<>>
        OBVIOUS
      <4>. QED BY <4>1, <4>2, <4>3
    <3>. QED BY <3>1, <3>2, <3>3
  <2>3. todo' \in [Writers -> Seq(Messages)]
    BY <2>1, <2>2
  <2>. QED BY <2>1, <2>2, <2>3, MoveKeeps
<1>7. ASSUME ClientCloses \/ ClientShuts \/ ClientJoins \/ ServerStops PROVE SocketInv'
  <2>1. UNCHANGED <<opening, state, net, reading, writing>>
    BY <1>7 DEF ClientCloses, ClientShuts, ClientJoins, ServerStops
  <2>. QED BY <2>1, StillKeeps
<1>. QED BY <1>2, <1>3, <1>4, <1>5, <1>6, <1>7

-----------------------------------------------------------------------------
(* The reader.                                                             *)

\* What an end that is open has still to read.
LEMMA ComingIs ==
  ASSUME SocketInv, NEW e \in Ends, state[e] # "opening"
  PROVE  /\ Coming(e) = Cat(Cat(buf[e], net[e]), Pending(e))
         /\ Coming(e) = Cat(buf[e], Cat(net[e], Pending(e)))
         /\ buf[e] \in Bytes /\ net[e] \in Bytes /\ Pending(e) \in Bytes /\ Coming(e) \in Bytes
         /\ frame[e] \in FramesIn /\ Size(frame[e].data) <= frame[e].len
         /\ got[e] \in Seq(Messages) /\ sent[Other(e)] \in Seq(Messages)
         /\ StreamAt(e)
<1>1. /\ buf[e] \in Bytes /\ net[e] \in Bytes /\ frame[e] \in FramesIn
      /\ Size(frame[e].data) <= frame[e].len
      /\ got[e] \in Seq(Messages) /\ sent[Other(e)] \in Seq(Messages)
  BY OtherEnd DEF SocketInv, SocketTypes
<1>2. Pending(e) \in Bytes /\ Coming(e) \in Bytes
  BY ComingIsBytes DEF SocketInv
<1>3. Coming(e) = Cat(Cat(buf[e], net[e]), Pending(e))
  BY DEF Coming, Arriving
<1>4. Cat(Cat(buf[e], net[e]), Pending(e)) = Cat(buf[e], Cat(net[e], Pending(e)))
  BY <1>1, <1>2, CatIsAssociative
<1>. QED BY <1>1, <1>2, <1>3, <1>4 DEF SocketInv, StreamInv

\* recv returns n bytes.
LEMMA RecvIs ==
  ASSUME NEW x \in Bytes, NEW n \in ReadSizes, n <= Len(x)
  PROVE  /\ n \in 0..Size(x) /\ SubSeq(x, 1, n) = First(x, n) /\ SubSeq(x, n + 1, Len(x)) = Rest(x, n)
         /\ First(x, n) \in Bytes /\ Size(First(x, n)) = n /\ Begins(First(x, n), x)
         /\ Rest(x, n) \in Bytes /\ n \in Nat
<1>1. n \in Nat
  BY SocketAssumption
<1>2. n \in 0..Size(x)
  <2>1. Size(x) \in Nat /\ n <= Size(x)
    BY Sizes DEF Size
  <2>. QED BY <1>1, <2>1
<1>3. /\ First(x, n) \in Bytes /\ Size(First(x, n)) = n /\ \A i \in 1..n : First(x, n)[i] = x[i]
      /\ Rest(x, n) \in Bytes
  BY <1>2, FirstBytes, RestBytes
<1>4. SubSeq(x, 1, n) = First(x, n) /\ SubSeq(x, n + 1, Len(x)) = Rest(x, n)
  BY DEF First, Rest
<1>. QED BY <1>1, <1>2, <1>3, <1>4 DEF Begins

LEMMA PullIs ==
  ASSUME SocketInv, NEW e \in Ends, Pull(e)
  PROVE  SocketInv'
<1>1. PICK n \in ReadSizes :
        /\ n <= Len(net[e])
        /\ buf' = [buf EXCEPT ![e] = @ \o SubSeq(net[e], 1, n)]
        /\ net' = [net EXCEPT ![e] = SubSeq(@, n + 1, Len(@))]
  BY DEF Pull
<1>2. /\ state[e] = "reading" /\ UNCHANGED <<request, state, frame, got, todo, write, lock, sent, short>>
  BY DEF Pull, opening, writing
<1>3. buf \in [Ends -> Bytes] /\ net \in [Ends -> Bytes]
  BY DEF SocketInv, SocketTypes
<1>4. /\ buf[e] \in Bytes /\ net[e] \in Bytes /\ StreamAt(e)
      /\ Coming(e) = Cat(Cat(buf[e], net[e]), Pending(e))
  BY <1>2, ComingIs
<1>5. /\ n \in 0..Size(net[e]) /\ First(net[e], n) \in Bytes /\ Rest(net[e], n) \in Bytes
      /\ SubSeq(net[e], 1, n) = First(net[e], n) /\ SubSeq(net[e], n + 1, Len(net[e])) = Rest(net[e], n)
  BY <1>1, <1>4, RecvIs
<1>6. Cat(buf[e], First(net[e], n)) \in Bytes
  BY <1>4, <1>5, Behind
<1>7. /\ buf' = [buf EXCEPT ![e] = Cat(buf[e], First(net[e], n))]
      /\ net' = [net EXCEPT ![e] = Rest(net[e], n)]
  BY <1>1, <1>5 DEF Cat
<1>8. /\ buf'[e] = Cat(buf[e], First(net[e], n)) /\ net'[e] = Rest(net[e], n)
      /\ buf' \in [Ends -> Bytes] /\ net' \in [Ends -> Bytes]
      /\ \A d \in Ends : d # e => buf'[d] = buf[d] /\ net'[d] = net[d]
  BY <1>3, <1>5, <1>6, <1>7
<1>9. SocketTypes'
  BY <1>2, <1>8 DEF SocketInv, SocketTypes
<1>10. Cat(Cat(buf'[e], net'[e]), Pending(e)) = Coming(e)
  BY <1>4, <1>5, <1>8, Passed
<1>11. e \notin short => Reads(state'[e], buf'[e], Cat(Cat(buf'[e], net'[e]), Pending(e)), frame'[e],
                               got'[e], sent[Other(e)])
  <2>1. SUFFICES ASSUME e \notin short
                 PROVE  Reads("reading", buf'[e], Coming(e), frame[e], got[e], sent[Other(e)])
    BY <1>2, <1>10
  <2>2. Reads("reading", buf[e], Coming(e), frame[e], got[e], sent[Other(e)])
    BY <1>2, <1>4, <2>1 DEF StreamAt
  <2>. QED BY <2>2 DEF Reads
<1>12. \A t \in Writers : write[t].at # "idle" => todo'[t] # <<>> /\ Head(todo'[t]) = Head(todo[t])
  BY <1>2 DEF SocketInv, HoldersInv
<1>13. Open(e)' => Open(e)
  BY <1>2 DEF Open
<1>. QED BY <1>2, <1>8, <1>9, <1>11, <1>12, <1>13, ReadKeeps

LEMMA TakeIs ==
  ASSUME SocketInv, NEW e \in Ends, Take(e)
  PROVE  SocketInv'
<1> DEFINE q == buf[e]
           y == Cat(net[e], Pending(e))
           x == IF Len(Have(q)) < Parsed(q).data THEN "pulling" ELSE "calling"
<1>1. /\ state[e] = "reading" /\ UNCHANGED <<request, net, got, todo, write, lock, sent, short>>
      /\ Complete(q)
  BY DEF Take, opening, writing
<1>2. /\ frame' = [frame EXCEPT ![e] = FrameIn(q)] /\ buf' = [buf EXCEPT ![e] = Remaining(q)]
      /\ state' = [state EXCEPT ![e] = x]
  BY DEF Take, Goto, FrameIn, Have, Until, MaskIn, Remaining
<1>3. /\ q \in Bytes /\ y \in Bytes /\ Pending(e) \in Bytes /\ net[e] \in Bytes /\ StreamAt(e)
      /\ Coming(e) = Cat(q, y) /\ sent[Other(e)] \in Seq(Messages) /\ got[e] \in Seq(Messages)
  BY <1>1, ComingIs, Behind
<1>4. PICK n \in 0..Size(q) :
           /\ n >= Parsed(q).header /\ n <= Parsed(q).header + Parsed(q).data
           /\ Parsed(q).header \in Nat /\ Parsed(q).data \in 0..255
           /\ Remaining(q) = Rest(q, n) /\ (n < Parsed(q).header + Parsed(q).data => n = Size(q))
           /\ Have(q) \in Bytes /\ Size(Have(q)) = n - Parsed(q).header
           /\ FrameIn(q) \in FramesIn
  <2>1. Complete(q) /\ q \in Bytes
    BY <1>1, <1>3
  <2>. QED BY <2>1, TakenIs
<1>5. /\ Rest(q, n) \in Bytes /\ Size(Rest(q, n)) = Size(q) - n /\ Size(q) \in Nat /\ n \in Nat
  BY <1>3, <1>4, RestBytes, Sizes
<1>6. FrameIn(q).data = Have(q) /\ FrameIn(q).len = Parsed(q).data
  BY DEF FrameIn
<1> HIDE DEF q, y, x
<1>7. Size(Have(q)) <= Parsed(q).data
  BY <1>4, <1>5
<1>8. \/ x = "pulling" /\ Size(Remaining(q)) = 0
      \/ x = "calling" /\ Size(Have(q)) = Parsed(q).data
  <2>1. CASE Size(Have(q)) < Parsed(q).data
    <3>1. x = "pulling"
      BY <2>1 DEF x, Size
    <3>2. n = Size(q) /\ Size(q) - n = 0
      BY <1>4, <1>5, <2>1
    <3>3. Size(Remaining(q)) = Size(q) - n
      <4>1. Remaining(q) = Rest(q, n)
        BY <1>4
      <4>. QED BY <1>5, <4>1
    <3>4. Size(Remaining(q)) = 0
      BY <3>2, <3>3
    <3>. QED BY <3>1, <3>4
  <2>2. CASE ~(Size(Have(q)) < Parsed(q).data)
    <3>1. x = "calling"
      BY <2>2 DEF x, Size
    <3>2. Size(Have(q)) = Parsed(q).data
      BY <1>4, <1>5, <2>2
    <3>. QED BY <3>1, <3>2
  <2>. QED BY <2>1, <2>2
<1>9. buf \in [Ends -> Bytes] /\ frame \in [Ends -> FramesIn] /\ state \in [Ends -> States]
      /\ \A d \in Ends : Size(frame[d].data) <= frame[d].len
  BY DEF SocketInv, SocketTypes
<1>10. /\ buf'[e] = Remaining(q) /\ frame'[e] = FrameIn(q) /\ state'[e] = x
       /\ buf' \in [Ends -> Bytes] /\ frame' \in [Ends -> FramesIn] /\ state' \in [Ends -> States]
       /\ \A d \in Ends : d # e => buf'[d] = buf[d] /\ frame'[d] = frame[d] /\ state'[d] = state[d]
  <2>1. Remaining(q) \in Bytes /\ FrameIn(q) \in FramesIn /\ x \in States
    BY <1>4, <1>5, <1>8 DEF States
  <2>. QED BY <1>2, <1>9, <2>1
<1>11. SocketTypes'
  <2>1. \A d \in Ends : Size(frame'[d].data) <= frame'[d].len
    BY <1>6, <1>7, <1>9, <1>10
  <2>. QED BY <1>1, <1>10, <2>1 DEF SocketInv, SocketTypes
<1>12. e \notin short => Reads(state'[e], buf'[e], Cat(Cat(buf'[e], net'[e]), Pending(e)), frame'[e],
                               got'[e], sent[Other(e)])
  <2>1. Cat(Cat(Remaining(q), net[e]), Pending(e)) = Cat(Remaining(q), y)
    BY <1>3, <1>4, <1>5, CatIsAssociative DEF y
  <2>2. SUFFICES ASSUME e \notin short
                 PROVE  Reads(x, Remaining(q), Cat(Remaining(q), y), FrameIn(q), got[e], sent[Other(e)])
    BY <1>1, <1>10, <2>1
  <2>3. Handed(got[e], sent[Other(e)]) /\ Framed(Cat(q, y), sent[Other(e)], Len(got[e]), 0)
    BY <1>1, <1>3, <2>2 DEF StreamAt, Reads
  <2>4. PartlyRead(Cat(Remaining(q), y), sent[Other(e)], Len(got[e]), FrameIn(q))
    BY <1>1, <1>3, <2>3, TakeKeeps
  <2>. QED BY <1>6, <1>8, <2>3, <2>4 DEF Reads
<1>13. \A t \in Writers : write[t].at # "idle" => todo'[t] # <<>> /\ Head(todo'[t]) = Head(todo[t])
  BY <1>1 DEF SocketInv, HoldersInv
<1>14. Open(e)' => Open(e)
  BY <1>1 DEF Open
<1>15. state'[e] # "opening"
  BY <1>8, <1>10
<1>. QED BY <1>1, <1>10, <1>11, <1>12, <1>13, <1>14, <1>15, ReadKeeps

LEMMA PullDataIs ==
  ASSUME SocketInv, NEW e \in Ends, PullData(e)
  PROVE  SocketInv'
<1> DEFINE f == frame[e]
           z == net[e]
           p == Pending(e)
           g == got[e]
           s == sent[Other(e)]
<1>1. PICK n \in ReadSizes :
        /\ n <= Len(z) /\ n <= f.len - Len(f.data)
        /\ frame' = [frame EXCEPT ![e].data = @ \o SubSeq(z, 1, n)]
        /\ net' = [net EXCEPT ![e] = SubSeq(@, n + 1, Len(@))]
        /\ state' = [state EXCEPT ![e] = IF n = f.len - Len(f.data) THEN "calling" ELSE "pulling"]
  BY DEF PullData, Goto
<1>2. /\ state[e] = "pulling" /\ UNCHANGED <<request, buf, got, todo, write, lock, sent, short>>
  BY DEF PullData, opening, writing
<1>3. /\ buf[e] \in Bytes /\ z \in Bytes /\ p \in Bytes /\ StreamAt(e) /\ Coming(e) \in Bytes
      /\ Coming(e) = Cat(buf[e], Cat(z, p)) /\ f \in FramesIn /\ Size(f.data) <= f.len
      /\ g \in Seq(Messages) /\ s \in Seq(Messages)
  BY <1>2, ComingIs
<1>4. f.data \in Bytes /\ f.len \in 0..255
  BY <1>3, FrameTypes
<1>5. f.len \in Nat /\ Size(f.data) \in Nat
  BY <1>4, Sizes
<1> DEFINE h == [f EXCEPT !.data = Cat(f.data, First(z, n))]
           x == IF n = f.len - Size(f.data) THEN "calling" ELSE "pulling"
<1>6. /\ n \in 0..Size(z) /\ First(z, n) \in Bytes /\ Rest(z, n) \in Bytes /\ n \in Nat
      /\ SubSeq(z, 1, n) = First(z, n) /\ SubSeq(z, n + 1, Len(z)) = Rest(z, n)
      /\ Size(First(z, n)) = n /\ Begins(First(z, n), z)
  BY <1>1, <1>3, RecvIs
<1>7. /\ Cat(f.data, First(z, n)) \in Bytes /\ Size(Cat(f.data, First(z, n))) = Size(f.data) + n
  BY <1>4, <1>6, Behind
<1>8. /\ h.op = f.op /\ h.mask = f.mask /\ h.len = f.len /\ h.data = Cat(f.data, First(z, n))
      /\ h \in FramesIn
  BY <1>3, <1>7 DEF FramesIn
<1>9. /\ frame' = [frame EXCEPT ![e] = h] /\ net' = [net EXCEPT ![e] = Rest(z, n)]
      /\ state' = [state EXCEPT ![e] = x]
  <2>1. frame' = [frame EXCEPT ![e].data = Cat(f.data, First(z, n))]
    BY <1>1, <1>6 DEF Cat
  <2>2. net' = [net EXCEPT ![e] = Rest(z, n)]
    BY <1>1, <1>6
  <2>3. state' = [state EXCEPT ![e] = x]
    BY <1>1 DEF Size
  <2>. QED BY <2>1, <2>2, <2>3
<1>10. n \in 0 .. f.len - Size(f.data)
  <2>1. n <= f.len - Size(f.data)
    BY <1>1 DEF Size
  <2>. QED BY <1>5, <1>6, <2>1
<1> HIDE DEF h, x, f, z, p, g, s
<1>11. net \in [Ends -> Bytes] /\ frame \in [Ends -> FramesIn] /\ state \in [Ends -> States]
       /\ \A d \in Ends : Size(frame[d].data) <= frame[d].len
  BY DEF SocketInv, SocketTypes
<1>12. x \in {"pulling", "calling"} /\ (x = "calling" => Size(h.data) = h.len) /\ Size(h.data) <= h.len
  <2>1. x = "calling" => n = f.len - Size(f.data)
    BY DEF x
  <2>2. x \in {"pulling", "calling"}
    BY DEF x
  <2>3. Size(h.data) = Size(f.data) + n /\ h.len = f.len
    BY <1>7, <1>8
  <2>4. n = f.len - Size(f.data) => Size(f.data) + n = f.len
    BY <1>5, <1>10
  <2>5. Size(f.data) + n <= f.len
    BY <1>5, <1>10
  <2>. QED BY <2>1, <2>2, <2>3, <2>4, <2>5
<1>13. /\ net'[e] = Rest(z, n) /\ frame'[e] = h /\ state'[e] = x
       /\ net' \in [Ends -> Bytes] /\ frame' \in [Ends -> FramesIn] /\ state' \in [Ends -> States]
       /\ \A d \in Ends : d # e => net'[d] = net[d] /\ frame'[d] = frame[d] /\ state'[d] = state[d]
  <2>1. x \in States
    BY <1>12 DEF States
  <2>. QED BY <1>6, <1>8, <1>9, <1>11, <2>1
<1>14. SocketTypes'
  <2>1. \A d \in Ends : Size(frame'[d].data) <= frame'[d].len
    BY <1>11, <1>12, <1>13
  <2>. QED BY <1>2, <1>13, <2>1 DEF SocketInv, SocketTypes
<1>15. e \notin short => Reads(state'[e], buf'[e], Cat(Cat(buf'[e], net'[e]), Pending(e)), frame'[e],
                               got'[e], sent[Other(e)])
  <2>1. SUFFICES ASSUME e \notin short
                 PROVE  Reads(x, buf[e], Cat(Cat(buf[e], Rest(z, n)), p), h, g, s)
    BY <1>2, <1>13 DEF p, g, s
  <2>2. Reads("pulling", buf[e], Cat(buf[e], Cat(z, p)), f, g, s)
    BY <1>2, <1>3, <2>1 DEF StreamAt, f, g, s
  <2>3. Size(buf[e]) = 0 /\ PartlyRead(Cat(buf[e], Cat(z, p)), s, Len(g), f) /\ Handed(g, s)
    BY <2>2 DEF Reads
  <2>4. buf[e] = <<>>
    BY <1>3, <2>3, SizeNothing
  <2>5. Cat(z, p) \in Bytes /\ Cat(Rest(z, n), p) = Rest(Cat(z, p), n)
    BY <1>3, <1>6, Behind, RestOfCat
  <2>6. Cat(buf[e], Cat(z, p)) = Cat(z, p) /\ Cat(Cat(buf[e], Rest(z, n)), p) = Rest(Cat(z, p), n)
    BY <1>6, <2>4, <2>5, CatNothing
  <2>7. Begins(First(z, n), Cat(z, p))
    <3>1. /\ \A i \in 1..Size(z) : Cat(z, p)[i] = z[i]
          /\ Size(z) \in Nat
      BY <1>3, Behind, Sizes
    <3>2. \A i \in 1..n : First(z, n)[i] = z[i]
      <4> TAKE i \in 1..n
      <4>1. i <= Size(z)
        BY <1>6, <3>1
      <4>. QED BY <1>6, <4>1 DEF Begins
    <3>3. \A i \in 1..n : i \in 1..Size(z)
      BY <1>6, <3>1
    <3>. QED BY <1>6, <3>1, <3>2, <3>3 DEF Begins
  <2>8. PartlyRead(Cat(z, p), s, Len(g), f)
    BY <2>3, <2>6
  <2>9. PartlyRead(Rest(Cat(z, p), n), s, Len(g), h)
    <3>1. f.len \in Nat /\ f.data \in Bytes /\ Size(f.data) <= f.len
      BY <1>3, <1>4, <1>5
    <3>. QED BY <1>3, <1>6, <1>8, <1>10, <2>5, <2>7, <2>8, <3>1, PullDataKeeps
  <2>. QED BY <1>12, <2>3, <2>6, <2>9 DEF Reads
<1>16. \A t \in Writers : write[t].at # "idle" => todo'[t] # <<>> /\ Head(todo'[t]) = Head(todo[t])
  BY <1>2 DEF SocketInv, HoldersInv
<1>17. Open(e)' => Open(e)
  BY <1>2 DEF Open
<1>18. state'[e] # "opening"
  BY <1>12, <1>13
<1>. QED BY <1>2, <1>13, <1>14, <1>15, <1>16, <1>17, <1>18, ReadKeeps

LEMMA CallbackIs ==
  ASSUME SocketInv, NEW e \in Ends, Callback(e)
  PROVE  SocketInv'
<1> DEFINE f == frame[e]
           g == got[e]
           s == sent[Other(e)]
           v == Coming(e)
           m == [op |-> f.op, data |-> mask_data(f.data, f.mask)]
           answers == e = "server" /\ m.op = 1
           x == IF answers THEN "answering" ELSE IF m.op = CLOSE THEN "left" ELSE "reading"
<1>1. /\ state[e] = "calling" /\ write[Worker] = Idle
      /\ got' = [got EXCEPT ![e] = Append(@, m)]
      /\ todo' = [todo EXCEPT ![Worker] = IF answers THEN <<m>> ELSE @]
      /\ state' = [state EXCEPT ![e] = x]
      /\ UNCHANGED <<request, net, buf, frame, write, lock, sent, short>>
  BY DEF Callback, Goto, opening
<1>2. /\ v \in Bytes /\ v = Cat(Cat(buf[e], net[e]), Pending(e)) /\ f \in FramesIn
      /\ g \in Seq(Messages) /\ s \in Seq(Messages) /\ StreamAt(e)
  BY <1>1, ComingIs
<1>3. f.data \in Bytes /\ f.len \in 0..255 /\ f.op \in 0..15 /\ f.mask \in [1..4 -> Nat]
  BY <1>2, FrameTypes
<1>4. f.len \in Nat
  BY ONLY <1>3
<1>5. Size(f.data) <= f.len
  BY <1>1, ComingIs
<1> HIDE DEF f, g, s, v
\* Whatever has been read, it is a message.
<1>6. m \in Messages
  <2>1. mask_data(f.data, f.mask) \in Seq(Bits) /\ Size(mask_data(f.data, f.mask)) = Size(f.data)
    BY <1>3, MaskedIs
  <2>2. Size(f.data) < 256
    BY <1>3, <1>5, Sizes
  <2>3. Len(m.data) < 256 /\ m \in [op : 0..15, data : Seq(Bits)]
    BY <1>3, <2>1, <2>2 DEF Size
  <2> HIDE DEF m
  <2>. QED BY <2>3, PlaceValues DEF Messages, Bits
<1> HIDE DEF m
<1>7. x \in {"answering", "left", "reading"}
  OBVIOUS
<1> HIDE DEF x
<1>8. todo' \in [Writers -> Seq(Messages)] /\ \A t \in Writers : t # Worker => todo'[t] = todo[t]
  <2>1. todo \in [Writers -> Seq(Messages)]
    BY DEF SocketInv, SocketTypes
  <2>2. <<m>> \in Seq(Messages)
    BY <1>6
  <2> HIDE DEF answers
  <2>. QED BY <1>1, <2>1, <2>2
<1>9. \A t \in Writers : write[t].at # "idle" => todo'[t] # <<>> /\ Head(todo'[t]) = Head(todo[t])
  <2>1. write[Worker].at = "idle"
    BY <1>1 DEF Idle
  <2>. QED BY <1>8, <2>1 DEF SocketInv, HoldersInv
<1>10. /\ got'[e] = Append(g, m) /\ state'[e] = x
       /\ got' \in [Ends -> Seq(Messages)] /\ state' \in [Ends -> States]
       /\ \A d \in Ends : d # e => got'[d] = got[d] /\ state'[d] = state[d]
  <2>1. got \in [Ends -> Seq(Messages)] /\ state \in [Ends -> States]
    BY DEF SocketInv, SocketTypes
  <2>2. Append(g, m) \in Seq(Messages) /\ x \in States
    BY <1>2, <1>6, <1>7 DEF States
  <2>3. got' = [got EXCEPT ![e] = Append(g, m)]
    BY <1>1 DEF g
  <2>. QED BY <1>1, <2>1, <2>2, <2>3
<1>11. SocketTypes'
  BY <1>1, <1>8, <1>10 DEF SocketInv, SocketTypes
<1>12. e \notin short => Reads(state'[e], buf'[e], Cat(Cat(buf'[e], net'[e]), Pending(e)), frame'[e],
                               got'[e], sent[Other(e)])
  <2>1. SUFFICES ASSUME e \notin short PROVE Reads(x, buf[e], v, f, Append(g, m), s)
    BY <1>1, <1>2, <1>10 DEF f, s
  <2>2. Reads("calling", buf[e], v, f, g, s)
    BY <1>1, <1>2, <2>1 DEF StreamAt, v, f, g, s
  <2>3. Handed(g, s) /\ PartlyRead(v, s, Len(g), f) /\ Size(f.data) = f.len
    BY <2>2 DEF Reads
  <2>4. Handed(Append(g, m), s) /\ Framed(v, s, Len(Append(g, m)), 0)
    BY <1>2, <1>3, <1>4, <2>3, CallbackKeeps DEF m
  <2>. QED BY <1>7, <2>4 DEF Reads
<1>13. Open(e)' => Open(e)
  BY <1>1 DEF Open
<1>14. state'[e] # "opening"
  BY <1>7, <1>10
<1>. QED BY <1>1, <1>9, <1>10, <1>11, <1>12, <1>13, <1>14, ReadKeeps

-----------------------------------------------------------------------------
(* The upgrade.                                                            *)

LEMMA AnswerIsNumber ==
  ASSUME NEW q \in Requests
  PROVE  (IF is_websocket_protocol(q) THEN handle_websocket_request(q) ELSE 200) \in Nat
<1>1. q \in [upgrade : BOOLEAN, connection : BOOLEAN, version13 : BOOLEAN,
             key : {"none", "hixie", "rfc", "long"}, resource : BOOLEAN, refused : BOOLEAN]
  BY SocketAssumption
<1>2. q.key \in {"none", "hixie", "rfc", "long"} /\ q.version13 \in BOOLEAN /\ q.resource \in BOOLEAN
      /\ q.refused \in BOOLEAN
  BY <1>1
<1>3. handle_websocket_request(q) \in Nat
  BY <1>2 DEF handle_websocket_request, NoAnswer
<1>. QED BY <1>3

LEMMA UpgradeIs ==
  ASSUME SocketInv, Upgrade
  PROVE  SocketInv'
<1> DEFINE answer == IF is_websocket_protocol(request) THEN handle_websocket_request(request) ELSE 200
           z == IF answer = NoAnswer THEN net["client"] ELSE Append(net["client"], answer)
           x == IF answer = 101 THEN "reading" ELSE "closing"
<1>1. /\ state["server"] = "opening" /\ net' = [net EXCEPT !["client"] = z]
      /\ state' = [state EXCEPT !["server"] = x]
      /\ UNCHANGED <<request, buf, frame, got, todo, write, lock, sent, short>>
  BY DEF Upgrade, Goto, opening, reading, writing
<1>2. answer \in Nat
  BY AnswerIsNumber DEF SocketInv, SocketTypes
<1>3. /\ net["client"] = <<>> /\ state["client"] \in {"opening", "gone"}
      /\ \A t \in Writers : EndOf(t) = "server" => write[t].at = "idle"
  <2>1. net["client"] \in Bytes /\ Size(net["client"]) = 0
    BY <1>1 DEF SocketInv, SocketTypes, OpeningInv, Ends
  <2>. QED BY <1>1, <2>1, SizeNothing DEF SocketInv, OpeningInv
<1>4. z \in Bytes /\ (answer = 101 => Size(z) > 0) /\ (Size(z) > 0 => Rest(z, 1) = <<>>)
  <2>1. CASE answer = NoAnswer
    <3>1. z = <<>> /\ answer # 101
      BY <1>3, <2>1 DEF NoAnswer
    <3>2. ~(Size(<<>>) > 0)
      BY NoBytes
    <3> HIDE DEF z
    <3>. QED BY <3>1, <3>2, NoBytes
  <2>2. CASE answer # NoAnswer
    <3> HIDE DEF answer
    <3>1. z = <<answer>>
      BY <1>3, <2>2
    <3> HIDE DEF z
    <3>2. z \in Bytes /\ Size(z) = 1
      BY <1>2, <3>1, OneByte
    <3>3. 1 \in 0..Size(z)
      BY <3>2
    <3>4. Rest(z, 1) \in Bytes /\ Size(Rest(z, 1)) = Size(z) - 1
      BY <3>2, <3>3, RestBytes
    <3>5. Rest(z, 1) = <<>>
      BY <3>2, <3>4, SizeNothing
    <3>. QED BY <3>2, <3>5
  <2>. QED BY <2>1, <2>2
<1>5. x \in {"reading", "closing"} /\ (x = "reading" => Size(z) > 0)
  BY <1>4
<1> HIDE DEF x, z, answer
<1>6. /\ net'["client"] = z /\ net'["server"] = net["server"]
      /\ state'["server"] = x /\ state'["client"] = state["client"]
      /\ net' \in [Ends -> Bytes] /\ state' \in [Ends -> States]
  <2>1. net \in [Ends -> Bytes] /\ state \in [Ends -> States] /\ x \in States
    BY <1>5 DEF SocketInv, SocketTypes, States
  <2>. QED BY <1>1, <1>4, <2>1 DEF Ends
<1>7. SocketTypes'
  BY <1>1, <1>6 DEF SocketInv, SocketTypes
<1>8. HoldersInv'
  BY <1>1 DEF SocketInv, HoldersInv
<1>9. OpeningInv'
  <2>1. Open("server")' => Size(z) > 0
    BY <1>5, <1>6 DEF Open
  <2>2. \A t \in Writers : EndOf(t) = "server" => write'[t].at = "idle"
    BY <1>1, <1>3
  <2>3. state'["server"] # "opening"
    BY <1>5, <1>6
  <2>. QED BY <1>1, <1>6, <2>1, <2>2, <2>3 DEF SocketInv, OpeningInv
<1>10. StreamAt("server")'
  <2>1. Pending("server")' = Pending("server")
    BY <1>1, PendingKept DEF Ends
  <2>2. Coming("server")' = Coming("server")
    BY <1>1, <1>6, <2>1 DEF Coming, Arriving
  <2>3. StreamAt("server")
    BY DEF SocketInv, StreamInv, Ends
  <2>4. SUFFICES ASSUME "server" \notin short
                 PROVE  Reads(x, buf["server"], Coming("server"), frame["server"], got["server"],
                              sent[Other("server")])
    BY <1>1, <1>6, <2>2 DEF StreamAt
  <2>5. Reads("opening", buf["server"], Coming("server"), frame["server"], got["server"],
              sent[Other("server")])
    BY <1>1, <2>3, <2>4 DEF StreamAt
  <2>. QED BY <1>5, <2>5 DEF Reads
<1>11. StreamAt("client")'
  <2>0. StreamAt("client") /\ "client" \in Ends
    BY DEF SocketInv, StreamInv, Ends
  <2>1. Pending("client")' = Pending("client")
    BY <1>1, <2>0, PendingKept
  <2>2. CASE state["client"] = "opening"
    <3>1. Arriving("client") = <<>>
      BY <1>3, NoBytes DEF Arriving
    <3>2. Arriving("client")' = <<>>
      <4>1. CASE Size(z) > 0
        BY <1>4, <1>6, <2>2, <4>1 DEF Arriving
      <4>2. CASE ~(Size(z) > 0)
        <5>1. Size(z) = 0
          BY <1>4, <4>2, Sizes
        <5>. QED BY <1>4, <1>6, <4>2, <5>1, SizeNothing DEF Arriving
      <4>. QED BY <4>1, <4>2
    <3>3. Coming("client")' = Coming("client")
      BY <1>1, <2>1, <3>1, <3>2 DEF Coming
    <3>. QED BY <1>1, <1>6, <2>0, <3>3, StreamKept
  <2>3. CASE state["client"] = "gone"
    <3>1. SUFFICES ASSUME "client" \notin short
                   PROVE  Handed(got["client"], sent[Other("client")])
      BY <1>1, <1>6, <2>3 DEF StreamAt, Reads
    <3>. QED BY <2>0, <3>1 DEF StreamAt, Reads
  <2>. QED BY <1>3, <2>2, <2>3
<1>. QED BY <1>7, <1>8, <1>9, <1>10, <1>11 DEF SocketInv, StreamInv, Ends

\* What is behind the answer.
LEMMA BehindAnswer ==
  ASSUME NEW z \in Bytes, NEW n \in Nat, n < Size(z)
  PROVE  /\ SubSeq(z, 2, 1 + n) = First(Rest(z, 1), n)
         /\ SubSeq(z, 2 + n, Len(z)) = Rest(Rest(z, 1), n)
         /\ Rest(z, 1) \in Bytes /\ n \in 0..Size(Rest(z, 1))
<1> DEFINE l == Size(z)
           y == Rest(z, 1)
<1>1. l \in Nat /\ 1 \in 0..l /\ (\A i \in 1..l : z[i] \in Nat) /\ n < l
  BY Sizes
<1>2. y \in Bytes /\ Size(y) = l - 1 /\ \A i \in 1 .. l - 1 : y[i] = z[1 + i]
  BY <1>1, RestBytes
<1>3. n \in 0..Size(y) /\ n + 1 \in 0..l
  BY <1>1, <1>2
<1>4. First(y, n) \in Bytes /\ Size(First(y, n)) = n /\ \A i \in 1..n : First(y, n)[i] = y[i]
  BY <1>2, <1>3, FirstBytes
<1>5. /\ Rest(y, n) \in Bytes /\ Size(Rest(y, n)) = Size(y) - n
      /\ \A i \in 1 .. Size(y) - n : Rest(y, n)[i] = y[n + i]
  BY <1>2, <1>3, RestBytes
<1>6. /\ Rest(z, n + 1) \in Bytes /\ Size(Rest(z, n + 1)) = l - (n + 1)
      /\ \A i \in 1 .. l - (n + 1) : Rest(z, n + 1)[i] = z[n + 1 + i]
  BY <1>3, RestBytes
<1>7. SubSeq(z, 2 + n, Len(z)) = Rest(z, n + 1)
  <2>1. n + 1 + 1 = 2 + n
    OBVIOUS
  <2>. QED BY <2>1 DEF Rest
<1> DEFINE x == SubSeq(z, 2, 1 + n)
<1>8. x \in Bytes /\ Size(x) = n /\ \A i \in 1..n : x[i] = z[1 + i]
  <2>1. \A i \in 2 .. 1 + n : z[i] \in Nat
    <3>1. \A i \in 2 .. 1 + n : i \in 1..l
      BY <1>1
    <3>. QED BY <1>1, <3>1
  <2>2. /\ x \in Seq(Nat) /\ Len(x) = IF 2 <= 1 + n THEN 1 + n - 2 + 1 ELSE 0
        /\ \A i \in 1 .. 1 + n - 2 + 1 : x[i] = z[2 + i - 1]
    <3>1. 2 \in Int /\ 1 + n \in Int
      OBVIOUS
    <3>. QED BY <2>1, <3>1, SubSeqProperties
  <2>3. /\ (IF 2 <= 1 + n THEN 1 + n - 2 + 1 ELSE 0) = n /\ 1 + n - 2 + 1 = n
        /\ \A i \in 1..n : 2 + i - 1 = 1 + i
    OBVIOUS
  <2> HIDE DEF x
  <2>. QED BY <2>2, <2>3 DEF Bytes, Size
<1> HIDE DEF l, y, x
<1>9. x = First(y, n)
  <2>1. \A i \in 1..n : x[i] = First(y, n)[i]
    <3> TAKE i \in 1..n
    <3>1. i \in 1 .. l - 1
      BY <1>1
    <3>. QED BY <1>2, <1>4, <1>8, <3>1
  <2>. QED BY <1>4, <1>8, <2>1, SameBytes
<1>10. Rest(z, n + 1) = Rest(y, n)
  <2>1. Size(Rest(z, n + 1)) = Size(Rest(y, n)) /\ Size(y) - n = l - (n + 1)
    BY <1>1, <1>2, <1>5, <1>6
  <2>2. \A i \in 1 .. l - (n + 1) : Rest(z, n + 1)[i] = Rest(y, n)[i]
    <3> TAKE i \in 1 .. l - (n + 1)
    <3>1. n + i \in 1 .. l - 1 /\ 1 + (n + i) = n + 1 + i
      BY <1>1
    <3>. QED BY <1>2, <1>5, <1>6, <2>1, <3>1
  <2>. QED BY <1>5, <1>6, <2>1, <2>2, SameBytes
<1>. QED BY <1>2, <1>3, <1>7, <1>9, <1>10 DEF x, y

LEMMA ConnectedIs ==
  ASSUME SocketInv, Connected
  PROVE  SocketInv'
<1> DEFINE z == net["client"]
           p == Pending("client")
<1>1. /\ state["client"] = "opening" /\ UNCHANGED <<request, frame, got, todo, write, lock, sent, short>>
  BY DEF Connected, opening, writing
<1>2. /\ net \in [Ends -> Bytes] /\ buf \in [Ends -> Bytes] /\ state \in [Ends -> States]
      /\ z \in Bytes /\ buf["client"] = <<>> /\ "client" \in Ends /\ p \in Bytes
      /\ StreamAt("client") /\ StreamAt("server")
  <2>1. Size(buf["client"]) = 0 /\ buf \in [Ends -> Bytes] /\ "client" \in Ends
    BY <1>1 DEF SocketInv, OpeningInv, SocketTypes, Ends
  <2>2. buf["client"] = <<>>
    BY <2>1, SizeNothing
  <2>3. p \in Bytes
    BY <2>1, ComingIsBytes DEF SocketInv
  <2>. QED BY <2>1, <2>2, <2>3 DEF SocketInv, SocketTypes, StreamInv, Ends
\* The client goes on or is gone, with what it reads as it was.
<1>3. ASSUME buf' \in [Ends -> Bytes], net' \in [Ends -> Bytes],
             buf'["server"] = buf["server"], net'["server"] = net["server"],
             \/ state' = [state EXCEPT !["client"] = "gone"]
             \/ /\ state' = [state EXCEPT !["client"] = "reading"] /\ Size(z) > 0
                /\ Cat(Cat(buf'["client"], net'["client"]), p) = Coming("client"),
             state["server"] = "opening" => net' = net /\ state'["client"] = "gone"
      PROVE  SocketInv'
  <2>1. /\ state'["client"] \in {"gone", "reading"} /\ state'["server"] = state["server"]
        /\ state' \in [Ends -> States]
    BY <1>2, <1>3 DEF Ends, States
  <2>2. SocketTypes'
    BY <1>1, <1>3, <2>1 DEF SocketInv, SocketTypes
  <2>3. HoldersInv'
    BY <1>1 DEF SocketInv, HoldersInv
  <2>4. OpeningInv'
    BY <1>1, <1>3, <2>1 DEF SocketInv, OpeningInv
  <2>5. \A e \in Ends : Pending(e)' = Pending(e)
    BY <1>1, PendingKept
  <2>6. StreamAt("server")'
    <3>1. Coming("server")' = Coming("server")
      BY <1>3, <2>1, <2>5, ComingKept DEF Ends
    <3>. QED BY <1>1, <1>2, <1>3, <2>1, <3>1, StreamKept
  <2>7. StreamAt("client")'
    <3>1. SUFFICES ASSUME "client" \notin short
                   PROVE  Reads(state'["client"], buf'["client"], Coming("client")', frame["client"],
                                got["client"], sent[Other("client")])
      BY <1>1 DEF StreamAt
    <3>2. /\ Handed(got["client"], sent[Other("client")])
          /\ Framed(Coming("client"), sent[Other("client")], Len(got["client"]), 0)
      BY <1>1, <1>2, <3>1 DEF StreamAt, Reads
    <3>3. CASE state'["client"] = "gone"
      BY <3>2, <3>3 DEF Reads
    <3>4. CASE state'["client"] = "reading"
      <4>1. Cat(Cat(buf'["client"], net'["client"]), p) = Coming("client")
        BY <1>2, <1>3, <3>4
      <4>2. Coming("client")' = Cat(Cat(buf'["client"], net'["client"]), p)
        BY <1>2, <2>5, <3>4 DEF Coming, Arriving
      <4>. QED BY <3>2, <3>4, <4>1, <4>2 DEF Reads
    <3>. QED BY <2>1, <3>3, <3>4
  <2>. QED BY <2>2, <2>3, <2>4, <2>6, <2>7 DEF SocketInv, StreamInv, Ends
<1>4. CASE net["client"] = <<>> /\ state' = [state EXCEPT !["client"] = "gone"] /\ UNCHANGED <<buf, net>>
  <2>1. state'["client"] = "gone"
    BY <1>2, <1>4
  <2>. QED BY <1>2, <1>3, <1>4, <2>1
<1>5. ASSUME NEW n \in {0} \cup ReadSizes, n < Len(z),
             net' = [net EXCEPT !["client"] = SubSeq(@, 2 + n, Len(@))],
             \/ /\ buf' = [buf EXCEPT !["client"] = SubSeq(z, 2, 1 + n)]
                /\ state' = [state EXCEPT !["client"] = "reading"]
             \/ state' = [state EXCEPT !["client"] = "gone"] /\ buf' = buf
      PROVE  SocketInv'
  <2>0. n \in Nat /\ n < Size(z)
    BY <1>5, SocketAssumption DEF Size
  <2>1. Size(z) > 0 /\ state["server"] # "opening"
    <3>1. Size(z) > 0
      BY <1>2, <2>0, Sizes
    <3>. QED BY <3>1 DEF SocketInv, OpeningInv
  <2> DEFINE y == Rest(z, 1)
  <2>2. /\ SubSeq(z, 2, 1 + n) = First(y, n) /\ SubSeq(z, 2 + n, Len(z)) = Rest(y, n)
        /\ y \in Bytes /\ n \in 0..Size(y)
    BY <1>2, <2>0, BehindAnswer
  <2>3. First(y, n) \in Bytes /\ Rest(y, n) \in Bytes
    BY <2>2, FirstBytes, RestBytes
  <2>4. Coming("client") = Cat(Cat(<<>>, y), p)
    BY <1>1, <1>2, <2>1 DEF Coming, Arriving
  <2>5. Cat(Cat(First(y, n), Rest(y, n)), p) = Cat(Cat(<<>>, y), p)
    <3>1. Cat(Cat(<<>>, First(y, n)), Rest(y, n)) = Cat(<<>>, y)
      BY <2>2, NoBytes, Passed
    <3>2. Cat(<<>>, First(y, n)) = First(y, n)
      BY <2>3, CatNothing
    <3>. QED BY <3>1, <3>2
  <2> HIDE DEF y, p
  <2>6. net' = [net EXCEPT !["client"] = Rest(y, n)]
    BY <1>5, <2>2
  <2>7. net' \in [Ends -> Bytes] /\ net'["server"] = net["server"] /\ net'["client"] = Rest(y, n)
    BY <1>2, <2>3, <2>6 DEF Ends
  <2>8. CASE state' = [state EXCEPT !["client"] = "gone"] /\ buf' = buf
    BY <1>2, <1>3, <2>1, <2>7, <2>8
  <2>9. CASE /\ buf' = [buf EXCEPT !["client"] = SubSeq(z, 2, 1 + n)]
             /\ state' = [state EXCEPT !["client"] = "reading"]
    <3>1. buf' \in [Ends -> Bytes] /\ buf'["server"] = buf["server"] /\ buf'["client"] = First(y, n)
      BY <1>2, <2>2, <2>3, <2>9 DEF Ends
    <3>2. Cat(Cat(buf'["client"], net'["client"]), p) = Coming("client")
      BY <2>4, <2>5, <2>7, <3>1
    <3>. QED BY <1>3, <2>1, <2>7, <2>9, <3>1, <3>2 DEF p
  <2>. QED BY <1>5, <2>8, <2>9
<1> HIDE DEF p
<1>6. \/ net["client"] = <<>> /\ state' = [state EXCEPT !["client"] = "gone"] /\ UNCHANGED <<buf, net>>
      \/ \E n \in {0} \cup ReadSizes :
           /\ n < Len(z) /\ net' = [net EXCEPT !["client"] = SubSeq(@, 2 + n, Len(@))]
           /\ \/ /\ buf' = [buf EXCEPT !["client"] = SubSeq(z, 2, 1 + n)]
                 /\ state' = [state EXCEPT !["client"] = "reading"]
              \/ state' = [state EXCEPT !["client"] = "gone"] /\ buf' = buf
  BY DEF Connected, Goto
<1>. QED BY <1>4, <1>5, <1>6

-----------------------------------------------------------------------------
(* Writing.                                                                *)

\* A write puts the first of its bytes on the net, and all of them if it was not cut short.
LEMMA PutIs ==
  ASSUME SocketTypes, NEW t \in Writers, NEW e \in Ends, e = EndOf(t), NEW bytes \in Bytes,
         NEW n \in Part(bytes), Put(t, bytes, n)
  PROVE  /\ First(bytes, n) \in Bytes /\ short \subseteq short'
         /\ net' = [net EXCEPT ![Other(e)] = Cat(net[Other(e)], First(bytes, n))]
         /\ net' \in [Ends -> Bytes] /\ net'[Other(e)] = Cat(net[Other(e)], First(bytes, n))
         /\ \A d \in Ends : d # Other(e) => net'[d] = net[d]
         /\ Other(e) \notin short' => First(bytes, n) = bytes
<1> DEFINE l == Size(bytes)
           d == Other(e)
<1>1. l \in Nat /\ l = Len(bytes)
  BY Sizes DEF Size
<1> HIDE DEF l
<1>2. n \in 0..l
  <2>1. n \in {0, l \div 2, l}
    BY <1>1 DEF Part
  <2>2. l \div 2 \in 0..l
    BY <1>1
  <2>. QED BY <1>1, <2>1, <2>2
<1>3. First(bytes, n) \in Bytes /\ Size(First(bytes, n)) = n /\ \A i \in 1..n : First(bytes, n)[i] = bytes[i]
  BY <1>2, FirstBytes DEF l
<1>4. net' = [net EXCEPT ![d] = Cat(net[d], First(bytes, n))]
  BY DEF Put, Cat, First
<1>5. d \in Ends /\ net \in [Ends -> Bytes]
  BY OtherEnd DEF SocketTypes
<1>6. Cat(net[d], First(bytes, n)) \in Bytes
  BY <1>3, <1>5, Behind
<1>7. short \subseteq short' /\ (d \notin short' => ~(n < l))
  BY <1>1 DEF Put
<1>8. ASSUME d \notin short' PROVE First(bytes, n) = bytes
  <2>1. n = l
    BY <1>1, <1>2, <1>7, <1>8
  <2>. QED BY <1>3, <2>1, SameBytes DEF l
<1> HIDE DEF d
<1>9. net' \in [Ends -> Bytes] /\ net'[d] = Cat(net[d], First(bytes, n)) /\ \A c \in Ends : c # d => net'[c] = net[c]
  BY <1>4, <1>5, <1>6
<1>. QED BY <1>3, <1>4, <1>7, <1>8, <1>9 DEF d

\* Who writes has the lock to itself.
LEMMA OneHolder ==
  ASSUME SocketInv, NEW t \in Writers, write[t].at # "idle"
  PROVE  /\ EndOf(t) \in Ends /\ lock[EndOf(t)] = t /\ todo[t] # <<>> /\ Head(todo[t]) \in Messages
         /\ Tail(todo[t]) \in Seq(Messages)
         /\ \A u \in Writers : write[u].at # "idle" /\ EndOf(u) = EndOf(t) => u = t
         /\ lock[Other(EndOf(t))] # t
<1>1. EndOf(t) \in Ends /\ lock[EndOf(t)] = t /\ todo[t] # <<>> /\ todo[t] \in Seq(Messages)
  BY SocketAssumption DEF SocketInv, HoldersInv, SocketTypes
<1>2. Head(todo[t]) \in Messages /\ Tail(todo[t]) \in Seq(Messages)
  BY <1>1, HeadOfTodo
<1>3. \A u \in Writers : write[u].at # "idle" /\ EndOf(u) = EndOf(t) => u = t
  BY <1>1 DEF SocketInv, HoldersInv
<1>4. lock[Other(EndOf(t))] # t
  BY <1>1, OtherEnd DEF SocketInv, HoldersInv
<1>. QED BY <1>1, <1>2, <1>3, <1>4

LEMMA WriteLockIs ==
  ASSUME SocketInv, NEW t \in Writers, WriteLock(t)
  PROVE  SocketInv'
<1> DEFINE e == EndOf(t)
<1>1. /\ write[t] = Idle /\ todo[t] # <<>> /\ Open(e) /\ lock[e] = Nobody
      /\ lock' = [lock EXCEPT ![e] = t] /\ write' = [write EXCEPT ![t].at = "header"]
      /\ UNCHANGED <<request, state, net, buf, frame, got, todo, sent, short>>
  BY DEF WriteLock, opening, reading
<1>2. /\ e \in Ends /\ Nobody \notin Writers /\ lock \in [Ends -> Writers \cup {Nobody}]
      /\ write \in [Writers -> [at : {"idle", "header", "data"}, key : Masks]]
  BY SocketAssumption DEF SocketInv, SocketTypes
<1> HIDE DEF e
<1>3. /\ lock'[e] = t /\ (\A d \in Ends : d # e => lock'[d] = lock[d])
      /\ lock' \in [Ends -> Writers \cup {Nobody}]
      /\ write'[t].at = "header" /\ (\A u \in Writers : u # t => write'[u] = write[u])
      /\ write' \in [Writers -> [at : {"idle", "header", "data"}, key : Masks]]
  BY <1>1, <1>2
<1>4. SocketTypes'
  BY <1>1, <1>3 DEF SocketInv, SocketTypes
<1>5. HoldersInv'
  <2>1. \A d \in Ends : lock'[d] \in Writers => EndOf(lock'[d]) = d
    BY <1>3 DEF e, SocketInv, HoldersInv
  <2>2. ASSUME NEW u \in Writers, u # t
        PROVE  IF write[u].at = "idle" THEN write[u] = Idle ELSE lock'[EndOf(u)] = u /\ todo[u] # <<>>
    <3>1. IF write[u].at = "idle" THEN write[u] = Idle ELSE lock[EndOf(u)] = u /\ todo[u] # <<>>
      BY DEF SocketInv, HoldersInv
    <3>2. lock[EndOf(u)] = u => EndOf(u) # e
      BY <1>1, <1>2
    <3>3. EndOf(u) \in Ends
      BY SocketAssumption
    <3>. QED BY <1>3, <3>1, <3>2, <3>3
  <2>3. lock'[EndOf(t)] = t /\ todo[t] # <<>> /\ write'[t].at # "idle"
    BY <1>1, <1>3 DEF e
  <2>. QED BY <1>1, <1>3, <2>1, <2>2, <2>3 DEF HoldersInv
<1>6. OpeningInv'
  <2>1. e = "server" => Open("server") /\ state["server"] # "opening"
    BY <1>1 DEF Open
  <2>2. OpeningInv
    BY DEF SocketInv
  <2>3. \A u \in Writers : EndOf(u) = "server" /\ write'[u].at # "idle" => write[u].at # "idle" \/ e = "server"
    BY <1>3 DEF e
  <2>4. Open("server")' <=> Open("server")
    BY <1>1 DEF Open
  <2>. QED BY <1>1, <2>1, <2>2, <2>3, <2>4 DEF OpeningInv
<1>7. StreamInv'
  <2> SUFFICES ASSUME NEW d \in Ends PROVE StreamAt(d)'
    BY DEF StreamInv
  <2>1. Pending(d)' = Pending(d)
    <3>1. CASE Other(d) = e
      <4>1. Pending(d) = <<>>
        BY <1>1, <1>2, <3>1 DEF Pending
      <4>2. Pending(d)' = <<>>
        BY <1>3, <3>1 DEF Pending
      <4>. QED BY <4>1, <4>2
    <3>2. CASE Other(d) # e
      <4>1. lock'[Other(d)] = lock[Other(d)]
        BY <1>3, <3>2, OtherEnd
      <4>2. lock[Other(d)] # t
        BY <3>2, OtherEnd DEF SocketInv, HoldersInv, e
      <4>3. lock[Other(d)] \in Writers => write'[lock[Other(d)]] = write[lock[Other(d)]]
        BY <1>3, <4>2
      <4> DEFINE h == lock[Other(d)]
      <4>4. lock'[Other(d)] = h /\ (h \in Writers => write'[h] = write[h]) /\ todo'[h] = todo[h]
        BY <1>1, <4>1, <4>3
      <4> HIDE DEF h
      <4>. QED BY <4>4 DEF Pending, h
    <3>. QED BY <3>1, <3>2
  <2>2. Coming(d)' = Coming(d)
    BY <1>1, <2>1, ComingKept
  <2>. QED BY <1>1, <2>2, StreamKept DEF SocketInv, StreamInv
<1>. QED BY <1>4, <1>5, <1>6, <1>7 DEF SocketInv

\* What t does to its write, its lock and its frame is nothing to the others.
LEMMA OthersKept ==
  ASSUME SocketInv, NEW t \in Writers, write[t].at # "idle",
         \A u \in Writers : u # t => write'[u] = write[u] /\ todo'[u] = todo[u],
         \A d \in Ends : d # EndOf(t) => lock'[d] = lock[d]
  PROVE  /\ Pending(EndOf(t))' = Pending(EndOf(t))
         /\ \A u \in Writers : u # t => IF write'[u].at = "idle" THEN write'[u] = Idle
                                        ELSE lock'[EndOf(u)] = u /\ todo'[u] # <<>>
<1> DEFINE e == EndOf(t)
           h == lock[Other(e)]
<1>1. e \in Ends /\ Other(e) \in Ends /\ Other(e) # e /\ h # t
  BY OneHolder, OtherEnd
<1>2. lock'[Other(e)] = h
  BY <1>1
<1>3. h \in Writers => write'[h] = write[h] /\ todo'[h] = todo[h]
  BY <1>1
<1> HIDE DEF e, h
<1>4. Pending(e)' = Pending(e)
  BY <1>2, <1>3 DEF Pending, h
<1>5. ASSUME NEW u \in Writers, u # t
      PROVE  IF write'[u].at = "idle" THEN write'[u] = Idle ELSE lock'[EndOf(u)] = u /\ todo'[u] # <<>>
  <2>1. IF write[u].at = "idle" THEN write[u] = Idle ELSE lock[EndOf(u)] = u /\ todo[u] # <<>>
    BY DEF SocketInv, HoldersInv
  <2>2. write[u].at # "idle" => EndOf(u) # EndOf(t)
    BY <1>5, OneHolder
  <2>3. EndOf(u) \in Ends
    BY SocketAssumption
  <2>. QED BY <1>5, <2>1, <2>2, <2>3
<1>. QED BY <1>4, <1>5 DEF e

\* What is put on the net of an end that has an answer, if it waits for one, arrives behind the rest.
LEMMA ArrivingIs ==
  ASSUME SocketInv, NEW t \in Writers, write[t].at # "idle", NEW d \in Ends, d = Other(EndOf(t)),
         NEW x \in Bytes, net'[d] = Cat(net[d], x), state'[d] = state[d]
  PROVE  Arriving(d)' = Cat(Arriving(d), x)
<1>1. net[d] \in Bytes /\ Size(net[d]) \in Nat /\ Size(x) \in Nat /\ Size(Cat(net[d], x)) = Size(net[d]) + Size(x)
  BY Behind, Sizes DEF SocketInv, SocketTypes
<1>2. CASE d = "client" /\ state[d] = "opening"
  <2>1. EndOf(t) = "server"
    BY <1>2, SocketAssumption DEF Ends, Other
  <2>2. Size(net[d]) > 0
    BY <1>2, <2>1 DEF SocketInv, OpeningInv
  <2>3. Size(Cat(net[d], x)) > 0 /\ 1 \in 0..Size(net[d])
    BY <1>1, <2>2
  <2>4. Arriving(d) = Rest(net[d], 1) /\ Arriving(d)' = Rest(Cat(net[d], x), 1)
    BY <1>2, <2>2, <2>3 DEF Arriving
  <2>5. Cat(Rest(net[d], 1), x) = Rest(Cat(net[d], x), 1)
    BY <1>1, <2>3, RestOfCat
  <2>. QED BY <2>4, <2>5
<1>3. CASE ~(d = "client" /\ state[d] = "opening")
  BY <1>3 DEF Arriving
<1>. QED BY <1>2, <1>3

\* The queue and the net only grow, and who did not write does not.
LEMMA OpeningStays ==
  ASSUME SocketInv, NEW t \in Writers, write[t].at # "idle", UNCHANGED <<state, buf>>,
         \A u \in Writers : u # t => write'[u] = write[u],
         NEW x \in Bytes, net'[Other(EndOf(t))] = Cat(net[Other(EndOf(t))], x),
         \A d \in Ends : d # Other(EndOf(t)) => net'[d] = net[d]
  PROVE  OpeningInv'
<1>0. OpeningInv /\ (Open("server")' <=> Open("server")) /\ EndOf(t) \in {"server", "client"}
      /\ Other("server") = "client" /\ Other("client") = "server"
  BY SocketAssumption DEF SocketInv, Open, Ends, Other
<1>1. CASE EndOf(t) = "client"
  <2>1. net'["client"] = net["client"]
    BY <1>0, <1>1 DEF Ends
  <2>2. \A u \in Writers : EndOf(u) = "server" => write'[u] = write[u]
    BY <1>1
  <2>. QED BY <1>0, <2>1, <2>2 DEF OpeningInv
<1>2. CASE EndOf(t) = "server"
  <2>1. state["server"] # "opening"
    BY <1>0, <1>2 DEF OpeningInv
  <2>2. net["client"] \in Bytes
    BY DEF SocketInv, SocketTypes, Ends
  <2>3. net'["client"] = Cat(net["client"], x)
    BY <1>0, <1>2
  <2>4. Size(net["client"]) > 0 => Size(net'["client"]) > 0
    <3>1. /\ Size(Cat(net["client"], x)) = Size(net["client"]) + Size(x)
          /\ Size(net["client"]) \in Nat /\ Size(x) \in Nat
      BY <2>2, Behind, Sizes
    <3>. QED BY <2>3, <3>1
  <2>5. state["client"] = "opening" => Size(net["client"]) > 0 /\ Size(buf["client"]) = 0
    BY <1>0, <1>2 DEF OpeningInv
  <2>. QED BY <2>1, <2>4, <2>5 DEF OpeningInv
<1>. QED BY <1>0, <1>1, <1>2

LEMMA WriteHeaderIs ==
  ASSUME SocketInv, NEW t \in Writers, WriteHeader(t)
  PROVE  SocketInv'
<1> DEFINE e == EndOf(t)
           d == Other(e)
           m == Head(todo[t])
<1>1. /\ write[t].at = "header"
      /\ sent' = [sent EXCEPT ![e] = Append(sent[e], m)]
      /\ UNCHANGED <<request, state, buf, frame, got, todo, lock>>
  BY DEF WriteHeader, opening, reading
<1>2. PICK key \in IF e = "client" THEN Keys ELSE {NoKey} :
        /\ \E n \in Part(Header(m.op, Len(m.data), key)) : Put(t, Header(m.op, Len(m.data), key), n)
        /\ write' = [write EXCEPT ![t] = [at |-> "data", key |-> key]]
  BY DEF WriteHeader
<1>3. key \in Masks
  BY SocketAssumption, NoKeyIsMask, PlaceValues DEF Masks, Bits
<1> DEFINE bytes == Header(m.op, Size(m.data), key)
           md == mask_data(m.data, key)
<1>4. PICK n \in Part(bytes) : Put(t, bytes, n)
  BY <1>2 DEF Size
<1>5. /\ e \in Ends /\ lock[e] = t /\ todo[t] # <<>> /\ m \in Messages
      /\ \A u \in Writers : write[u].at # "idle" /\ EndOf(u) = e => u = t
  BY <1>1, OneHolder
<1>6. d \in Ends /\ d # e /\ Other(d) = e /\ \A c \in Ends : c = e \/ c = d
  BY <1>5, OtherEnd
<1> HIDE DEF m
<1>7. bytes \in Bytes /\ md \in Bytes /\ Frame(m, key) = Cat(bytes, md)
  BY <1>3, <1>5, FrameIs DEF Frame
<1> HIDE DEF bytes, md
<1> DEFINE x == First(bytes, n)
<1>8. /\ x \in Bytes /\ short \subseteq short' /\ net' \in [Ends -> Bytes]
      /\ net'[d] = Cat(net[d], x) /\ (\A c \in Ends : c # d => net'[c] = net[c])
      /\ (d \notin short' => x = bytes)
  BY <1>4, <1>5, <1>7, PutIs DEF SocketInv
<1> HIDE DEF e, d, x
<1>9. /\ write'[t] = [at |-> "data", key |-> key] /\ (\A u \in Writers : u # t => write'[u] = write[u])
      /\ write' \in [Writers -> [at : {"idle", "header", "data"}, key : Masks]]
      /\ sent'[e] = Append(sent[e], m) /\ (\A c \in Ends : c # e => sent'[c] = sent[c])
      /\ sent' \in [Ends -> Seq(Messages)] /\ sent[e] \in Seq(Messages)
  <2>1. /\ write \in [Writers -> [at : {"idle", "header", "data"}, key : Masks]]
        /\ sent \in [Ends -> Seq(Messages)]
    BY DEF SocketInv, SocketTypes
  <2>2. Append(sent[e], m) \in Seq(Messages)
    BY <1>5, <2>1
  <2>3. [at |-> "data", key |-> key] \in [at : {"idle", "header", "data"}, key : Masks]
    BY <1>3
  <2>. QED BY <1>1, <1>2, <1>5, <2>1, <2>2, <2>3
<1>10. SocketTypes'
  BY <1>1, <1>8, <1>9 DEF SocketInv, SocketTypes
<1>11. /\ Pending(e)' = Pending(e)
       /\ \A u \in Writers : u # t => IF write'[u].at = "idle" THEN write'[u] = Idle
                                      ELSE lock'[EndOf(u)] = u /\ todo'[u] # <<>>
  BY <1>1, <1>9, OthersKept DEF e
<1>12. HoldersInv'
  <2>1. write'[t].at # "idle" /\ lock'[EndOf(t)] = t /\ todo'[t] # <<>>
    BY <1>1, <1>5, <1>9 DEF e
  <2>2. \A c \in Ends : lock'[c] \in Writers => EndOf(lock'[c]) = c
    BY <1>1 DEF SocketInv, HoldersInv
  <2>. QED BY <1>11, <2>1, <2>2 DEF HoldersInv
<1>13. OpeningInv'
  BY <1>1, <1>8, <1>9, OpeningStays DEF e, d
<1>14. StreamAt(e)'
  <2>1. Coming(e)' = Coming(e)
    BY <1>1, <1>5, <1>6, <1>8, <1>11, ComingKept
  <2>2. sent'[Other(e)] = sent[Other(e)] /\ StreamAt(e)
    BY <1>5, <1>6, <1>9 DEF d, SocketInv, StreamInv
  <2>. QED BY <1>1, <1>8, <2>1, <2>2, StreamKept
<1>15. StreamAt(d)'
  <2>1. SUFFICES ASSUME d \notin short'
                 PROVE  Reads(state[d], buf[d], Coming(d)', frame[d], got[d], Append(sent[e], m))
    BY <1>1, <1>6, <1>9 DEF StreamAt
  <2>2. x = bytes /\ d \notin short
    BY <1>8, <2>1
  <2>3. Reads(state[d], buf[d], Coming(d), frame[d], got[d], sent[e])
    BY <1>6, <2>2 DEF SocketInv, StreamInv, StreamAt
  <2>4. /\ buf[d] \in Bytes /\ Arriving(d) \in Bytes /\ Coming(d) \in Bytes
        /\ frame[d] \in FramesIn /\ Size(frame[d].data) <= frame[d].len /\ got[d] \in Seq(Messages)
    BY <1>6, ComingIsBytes DEF SocketInv, SocketTypes
  <2>5. Arriving(d)' = Cat(Arriving(d), bytes)
    BY <1>1, <1>6, <1>7, <1>8, <2>2, ArrivingIs DEF d, e
  <2>6. Pending(d) = <<>>
    BY <1>1, <1>5, <1>6 DEF Pending
  <2>7. Pending(d)' = md
    <3>1. lock'[Other(d)] = t /\ write'[t].at = "data" /\ write'[t].key = key /\ todo'[t] = todo[t]
      BY <1>1, <1>5, <1>6, <1>9
    <3>. QED BY <3>1 DEF Pending, md, m
  <2> DEFINE a == Cat(buf[d], Arriving(d))
  <2>8. a \in Bytes /\ Coming(d) = a
    BY <2>4, <2>6, Behind, CatNothing DEF Coming
  <2>9. Coming(d)' = Cat(Cat(buf[d], Cat(Arriving(d), bytes)), md)
    BY <1>1, <2>5, <2>7 DEF Coming
  <2>10. Cat(buf[d], Cat(Arriving(d), bytes)) = Cat(a, bytes)
    BY <1>7, <2>4, CatIsAssociative
  <2> HIDE DEF a
  <2>11. Cat(Cat(a, bytes), md) = Cat(a, Cat(bytes, md))
    BY <1>7, <2>8, CatIsAssociative
  <2>12. Coming(d)' = Cat(Coming(d), Frame(m, key))
    BY <1>7, <2>8, <2>9, <2>10, <2>11
  <2>13. frame[d].len \in 0..255 /\ frame[d].data \in Bytes
    BY <2>4, FrameTypes
  <2>14. Reads(state[d], buf[d], Cat(Coming(d), Frame(m, key)), frame[d], got[d], Append(sent[e], m))
    BY <1>3, <1>5, <1>9, <2>3, <2>4, <2>13, SendKeeps
  <2>. QED BY <2>12, <2>14
<1>. QED BY <1>6, <1>10, <1>12, <1>13, <1>14, <1>15 DEF SocketInv, StreamInv

LEMMA WriteDataIs ==
  ASSUME SocketInv, NEW t \in Writers, WriteData(t)
  PROVE  SocketInv'
<1> DEFINE e == EndOf(t)
           d == Other(e)
           bytes == mask_data(Head(todo[t]).data, write[t].key)
<1>1. /\ write[t].at = "data"
      /\ write' = [write EXCEPT ![t] = Idle]
      /\ todo' = [todo EXCEPT ![t] = Tail(todo[t])]
      /\ lock' = [lock EXCEPT ![e] = Nobody]
      /\ UNCHANGED <<request, state, buf, frame, got, sent>>
  BY DEF WriteData, opening, reading
<1>2. PICK n \in Part(bytes) : Put(t, bytes, n)
  BY DEF WriteData
<1>3. /\ e \in Ends /\ lock[e] = t /\ Head(todo[t]) \in Messages /\ Tail(todo[t]) \in Seq(Messages)
      /\ \A u \in Writers : write[u].at # "idle" /\ EndOf(u) = e => u = t
  BY <1>1, OneHolder
<1>4. d \in Ends /\ d # e /\ Other(d) = e /\ \A c \in Ends : c = e \/ c = d
  BY <1>3, OtherEnd
<1>5. bytes \in Bytes /\ Pending(d) = bytes
  <2>1. write[t].key \in Masks
    BY DEF SocketInv, SocketTypes
  <2>2. bytes \in Bytes
    BY <1>3, <2>1, BitsAreBytes
  <2>. QED BY <1>1, <1>3, <1>4, <2>2 DEF Pending
<1> HIDE DEF bytes
<1> DEFINE x == First(bytes, n)
<1>6. /\ x \in Bytes /\ short \subseteq short' /\ net' \in [Ends -> Bytes]
      /\ net'[d] = Cat(net[d], x) /\ (\A c \in Ends : c # d => net'[c] = net[c])
      /\ (d \notin short' => x = bytes)
  BY <1>2, <1>3, <1>5, PutIs DEF SocketInv
<1> HIDE DEF e, d, x
<1>7. /\ write'[t] = Idle /\ todo'[t] = Tail(todo[t]) /\ lock'[e] = Nobody
      /\ (\A u \in Writers : u # t => write'[u] = write[u] /\ todo'[u] = todo[u])
      /\ (\A c \in Ends : c # e => lock'[c] = lock[c])
      /\ write' \in [Writers -> [at : {"idle", "header", "data"}, key : Masks]]
      /\ todo' \in [Writers -> Seq(Messages)] /\ lock' \in [Ends -> Writers \cup {Nobody}]
  <2>1. /\ write \in [Writers -> [at : {"idle", "header", "data"}, key : Masks]]
        /\ todo \in [Writers -> Seq(Messages)] /\ lock \in [Ends -> Writers \cup {Nobody}]
    BY DEF SocketInv, SocketTypes
  <2>2. Idle \in [at : {"idle", "header", "data"}, key : Masks]
    BY NoKeyIsMask DEF Idle
  <2>. QED BY <1>1, <1>3, <2>1, <2>2
<1>8. SocketTypes'
  BY <1>1, <1>6, <1>7 DEF SocketInv, SocketTypes
<1>9. /\ Pending(e)' = Pending(e)
      /\ \A u \in Writers : u # t => IF write'[u].at = "idle" THEN write'[u] = Idle
                                     ELSE lock'[EndOf(u)] = u /\ todo'[u] # <<>>
  BY <1>1, <1>7, OthersKept DEF e
<1>10. HoldersInv'
  <2>1. write'[t].at = "idle" /\ write'[t] = Idle
    BY <1>7 DEF Idle
  <2>2. \A c \in Ends : lock'[c] \in Writers => EndOf(lock'[c]) = c
    BY <1>7, SocketAssumption DEF SocketInv, HoldersInv
  <2>. QED BY <1>9, <2>1, <2>2 DEF HoldersInv
<1>11. OpeningInv'
  BY <1>1, <1>6, <1>7, OpeningStays DEF e, d
<1>12. StreamAt(e)'
  <2>1. Coming(e)' = Coming(e)
    BY <1>1, <1>3, <1>4, <1>6, <1>9, ComingKept
  <2>2. StreamAt(e)
    BY <1>3 DEF SocketInv, StreamInv
  <2>. QED BY <1>1, <1>6, <2>1, <2>2, StreamKept
<1>13. StreamAt(d)'
  <2>1. SUFFICES ASSUME d \notin short'
                 PROVE  StreamAt(d)'
    BY DEF StreamAt
  <2>2. x = bytes
    BY <1>6, <2>1
  <2>3. buf[d] \in Bytes /\ Arriving(d) \in Bytes
    BY <1>4, ComingIsBytes DEF SocketInv, SocketTypes
  <2>4. Arriving(d)' = Cat(Arriving(d), bytes)
    BY <1>1, <1>4, <1>5, <1>6, <2>2, ArrivingIs DEF d, e
  <2>5. Pending(d)' = <<>>
    BY <1>4, <1>7, SocketAssumption DEF Pending
  <2>6. Cat(Arriving(d), bytes) \in Bytes
    BY <1>5, <2>3, Behind
  <2>7. Cat(buf[d], Cat(Arriving(d), bytes)) = Cat(Cat(buf[d], Arriving(d)), bytes)
    BY <1>5, <2>3, CatIsAssociative
  <2>8. Cat(buf[d], Cat(Arriving(d), bytes)) \in Bytes
    BY <2>3, <2>6, Behind
  <2>9. Coming(d)' = Cat(Cat(buf[d], Cat(Arriving(d), bytes)), <<>>)
    BY <1>1, <2>4, <2>5 DEF Coming
  <2>10. Coming(d)' = Cat(Cat(buf[d], Arriving(d)), bytes)
    BY <2>7, <2>8, <2>9, CatNothing
  <2>11. Coming(d)' = Coming(d)
    BY <1>5, <2>10 DEF Coming
  <2>. QED BY <1>1, <1>4, <1>6, <2>11, StreamKept DEF SocketInv, StreamInv
<1>. QED BY <1>4, <1>8, <1>10, <1>11, <1>12, <1>13 DEF SocketInv, StreamInv

-----------------------------------------------------------------------------
LEMMA SocketKeeps == SocketInv /\ [Next]_vars => SocketInv'
<1> SUFFICES ASSUME SocketInv, [Next]_vars
             PROVE  SocketInv'
  OBVIOUS
<1>0. "server" \in Ends /\ "client" \in Ends
  BY DEF Ends
<1>1. CASE Upgrade
  BY <1>1, UpgradeIs
<1>2. CASE Connected
  BY <1>2, ConnectedIs
<1>3. CASE ClientStartFails \/ HandlerReturns \/ ClientCloses \/ ClientShuts \/ ClientJoins \/ ServerStops
  BY <1>3, MovesKeep
<1>4. ASSUME NEW e \in Ends, Reader(e)
      PROVE  SocketInv'
  <2>1. CASE OutOfMemory(e) \/ PullFails(e) \/ CloseHandler(e) \/ Closes(e)
    BY <2>1, MovesKeep
  <2>2. CASE Pull(e)
    BY <2>2, PullIs
  <2>3. CASE Take(e)
    BY <2>3, TakeIs
  <2>4. CASE PullData(e)
    BY <2>4, PullDataIs
  <2>5. CASE Callback(e)
    BY <2>5, CallbackIs
  <2>. QED BY <1>4, <2>1, <2>2, <2>3, <2>4, <2>5 DEF Reader
<1>5. ASSUME NEW t \in Writers, Writer(t)
      PROVE  SocketInv'
  BY <1>5, WriteLockIs, WriteHeaderIs, WriteDataIs DEF Writer
<1>6. CASE UNCHANGED vars
  <2>1. UNCHANGED <<opening, state, net, reading, writing>>
    BY <1>6 DEF vars, opening, reading, writing
  <2>. QED BY <2>1, StillKeeps
<1>. QED BY <1>0, <1>1, <1>2, <1>3, <1>4, <1>5, <1>6 DEF Next, ServerThread, Closing

LEMMA SocketIsRight == SocketInv => MessagesAsSent
<1> SUFFICES ASSUME SocketInv, NEW e \in Ends, e \notin short
             PROVE  IsPrefix(got[e], sent[Other(e)])
  BY DEF MessagesAsSent
<1> DEFINE g == got[e]
           s == sent[Other(e)]
<1>1. g \in Seq(Messages) /\ s \in Seq(Messages)
  BY OtherEnd DEF SocketInv, SocketTypes
<1>2. Len(g) <= Len(s) /\ \A i \in 1..Len(g) : g[i] = s[i]
  BY DEF SocketInv, StreamInv, StreamAt, Reads, Handed
<1> HIDE DEF g, s
<1>3. Len(g) \in Nat /\ Len(s) \in Nat /\ 1 \in Int
  BY <1>1
<1>4. (\A i \in 1..Len(g) : g[i] \in Messages) /\ (\A i \in 1..Len(g) : s[i] \in Messages)
  BY <1>1, <1>2, <1>3
<1>5. /\ SubSeq(g, 1, Len(g)) \in Seq(Messages)
      /\ Len(SubSeq(g, 1, Len(g))) = IF 1 <= Len(g) THEN Len(g) - 1 + 1 ELSE 0
      /\ \A i \in 1 .. Len(g) - 1 + 1 : SubSeq(g, 1, Len(g))[i] = g[1 + i - 1]
  BY <1>3, <1>4, SubSeqProperties
<1>6. /\ SubSeq(s, 1, Len(g)) \in Seq(Messages)
      /\ Len(SubSeq(s, 1, Len(g))) = IF 1 <= Len(g) THEN Len(g) - 1 + 1 ELSE 0
      /\ \A i \in 1 .. Len(g) - 1 + 1 : SubSeq(s, 1, Len(g))[i] = s[1 + i - 1]
  BY <1>3, <1>4, SubSeqProperties
<1>7. /\ (IF 1 <= Len(g) THEN Len(g) - 1 + 1 ELSE 0) = Len(g) /\ Len(g) - 1 + 1 = Len(g)
      /\ \A i \in 1..Len(g) : 1 + i - 1 = i
  BY <1>3
<1>8. SubSeq(g, 1, Len(g)) = SubSeq(s, 1, Len(g))
  <2> DEFINE a == SubSeq(g, 1, Len(g))
             b == SubSeq(s, 1, Len(g))
  <2>1. Len(a) = Len(b) /\ \A i \in 1..Len(a) : a[i] = b[i]
    BY <1>2, <1>5, <1>6, <1>7
  <2>2. a \in Seq(Messages) /\ b \in Seq(Messages)
    BY <1>5, <1>6
  <2> HIDE DEF a, b
  <2>3. a = b
    BY <2>1, <2>2, SeqEqual
  <2>. QED BY <2>3 DEF a, b
<1>. QED BY <1>2, <1>8 DEF IsPrefix, g, s

LEMMA SocketAlone == PartsSpec => Init /\ [][Next]_vars
<1>1. PartsInit => Init
  BY DEF PartsInit
<1>2. [PartsNext]_partsVars => [Next]_vars
  <2>. SUFFICES ASSUME [PartsNext]_partsVars
                PROVE  Next \/ UNCHANGED vars
    OBVIOUS
  <2>1. CASE Websockets(Next)
    BY <2>1 DEF Websockets, In
  <2>2. CASE Forms(F!Next) \/ Ssl \/ ClientCalls \/ Writes \/ UNCHANGED partsVars
    BY <2>2 DEF Forms, Ssl, ClientCalls, Writes, In, partsVars
  <2>. QED BY <2>1, <2>2 DEF PartsNext
<1>. QED BY <1>1, <1>2, PTL DEF PartsSpec

\* However many threads write at once, whatever they write, under whichever keys, and however recv
\* cuts the bytes: what an end has handed to its data handler is what its peer has written, message
\* by message, as long as no write to it was cut short.
THEOREM MessagesArrive == PartsSpec => []MessagesAsSent
BY SocketAlone, SocketStart, SocketKeeps, SocketIsRight, PTL

=============================================================================
