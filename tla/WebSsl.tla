------------------------------- MODULE WebSsl -------------------------------
(***************************************************************************)
(* TLS in the embedded server (civetweb.c, without NO_SSL): the library    *)
(* that the contexts of a process share, the certificate a context is      *)
(* started with, and, with ssl_short_trust, its reload when the file       *)
(* changes, by whichever worker meets the change first.                    *)
(*                                                                         *)
(* One application thread starts and stops the contexts; all have the same *)
(* ssl_certificate.                                                        *)
(***************************************************************************)
EXTENDS Integers, FiniteSets

CONSTANTS
  Contexts,      \* mg_context's
  Workers,       \* worker threads
  ContextOf(_),  \* the context of a worker
  Rotations,     \* how often the file is replaced
  Handshakes,    \* how many TLS connections a worker takes
  Bad            \* the versions of the file in which key and certificate do not match

NoCert == -1

VARIABLES
  cryptolib_users,  \* the reference counter of the library
  ssl_mutexes,      \* the library's mutexes are there
  phase,            \* of each context: where mg_start and mg_stop are
  ssl_ctx,          \* of each context: the versions of the certificate and of the key it holds,
                    \* and, a history, whether the file was new again when its chain was read
  file,             \* the version of the certificate file, which is also its st_mtime
  data_check,       \* the st_mtime last seen, one for the process
  reload_lock,      \* one for the process
  worker,           \* where each worker is in sslize and refresh_trust
  t,                \* refresh_trust's t, of each worker
  left,             \* the connections still to come to each worker
  served            \* what the last handshake of each worker was made with

library == <<cryptolib_users, ssl_mutexes>>
vars == <<library, phase, ssl_ctx, file, data_check, reload_lock, worker, t, left, served>>

None == [cert |-> NoCert, key |-> NoCert, late |-> FALSE]

Init ==
  /\ cryptolib_users = 0 /\ ssl_mutexes = FALSE
  /\ phase = [c \in Contexts |-> "none"]
  /\ ssl_ctx = [c \in Contexts |-> None]
  /\ file = 1
  /\ data_check = 0
  /\ reload_lock = FALSE
  /\ worker = [w \in Workers |-> "idle"]
  /\ t = [w \in Workers |-> 0]
  /\ left = [w \in Workers |-> Handshakes]
  /\ served = [w \in Workers |-> None]

Crew(c) == {w \in Workers : ContextOf(w) = c}
Goto(w, s) == worker' = [worker EXCEPT ![w] = s]
Phase(c, s) == phase' = [phase EXCEPT ![c] = s]

-----------------------------------------------------------------------------
(* The application: mg_start and mg_stop, one at a time.                   *)

AppIsFree == \A c \in Contexts : phase[c] \in {"none", "running", "failed", "no memory", "stopped"}

\* Only the first user sets the mutexes up; a start that fails here or later has been counted.
initialize_ssl(c) ==
  /\ phase[c] = "none" /\ AppIsFree
  /\ cryptolib_users' = cryptolib_users + 1
  /\ IF cryptolib_users' > 1
       THEN Phase(c, "library") /\ UNCHANGED ssl_mutexes
       ELSE \/ Phase(c, "library") /\ ssl_mutexes' = TRUE
            \/ Phase(c, "no memory") /\ UNCHANGED ssl_mutexes
  /\ UNCHANGED <<ssl_ctx, file, data_check, reload_lock, worker, t, left, served>>

\* ssl_use_pem_file reads the file three times, for its certificate, its key, which is then
\* checked, and its chain, which begins with the certificate.  The library drops a key that does
\* not belong to a new certificate, and the certificate to which a new key does not belong;
\* only the latter is an error.
Belong(version) == version = file /\ file \notin Bad
Certified(pair, chain) ==
  [cert |-> file, key |-> IF Belong(pair.key) THEN pair.key ELSE NoCert,
   late |-> chain /\ file # pair.key]

\* The SSL context, its certificate and its options; any of it may fail, and mg_start then frees
\* the context.
set_ssl_option(c) ==
  /\ \/ /\ phase[c] = "library"
        /\ ssl_ctx' = [ssl_ctx EXCEPT ![c] = Certified(@, FALSE)]
        /\ Phase(c, "key")
     \/ /\ phase[c] = "key" /\ Belong(ssl_ctx[c].cert)
        /\ ssl_ctx' = [ssl_ctx EXCEPT ![c].key = file]
        /\ Phase(c, "chain")
     \/ /\ phase[c] = "chain"
        /\ ssl_ctx' = [ssl_ctx EXCEPT ![c] = Certified(@, TRUE)]
        /\ Phase(c, "running")
     \/ /\ phase[c] \in {"library", "key", "chain"}
        /\ ssl_ctx' = [ssl_ctx EXCEPT ![c] = None]
        /\ Phase(c, "failed")
  /\ UNCHANGED <<library, file, data_check, reload_lock, worker, t, left, served>>

\* mg_stop: the workers take no more connections; the master joins them.
Stop(c) ==
  /\ phase[c] = "running" /\ AppIsFree
  /\ Phase(c, "stopping")
  /\ UNCHANGED <<library, ssl_ctx, file, data_check, reload_lock, worker, t, left, served>>

\* Slip: the library's mutexes go with the first context that stops.
uninitialize_ssl_AtOnce(c) ==
  /\ phase[c] = "stopping" /\ \A w \in Crew(c) : worker[w] = "idle"
  /\ cryptolib_users' = cryptolib_users - 1
  /\ ssl_mutexes' = FALSE
  /\ ssl_ctx' = [ssl_ctx EXCEPT ![c] = None]
  /\ Phase(c, "stopped")
  /\ UNCHANGED <<file, data_check, reload_lock, worker, t, left, served>>

\* uninitialize_ssl, by the master, and free_context: the last user takes the mutexes away.
uninitialize_ssl(c) ==
  /\ phase[c] = "stopping" /\ \A w \in Crew(c) : worker[w] = "idle"
  /\ cryptolib_users' = cryptolib_users - 1
  /\ ssl_mutexes' = (ssl_mutexes /\ cryptolib_users' # 0)
  /\ ssl_ctx' = [ssl_ctx EXCEPT ![c] = None]
  /\ Phase(c, "stopped")
  /\ UNCHANGED <<file, data_check, reload_lock, worker, t, left, served>>

\* Somebody replaces the certificate file, in one step.
Rotate ==
  /\ file <= Rotations
  /\ file' = file + 1
  /\ UNCHANGED <<library, phase, ssl_ctx, data_check, reload_lock, worker, t, left, served>>

-----------------------------------------------------------------------------
(* A worker: sslize.                                                       *)

Accept(w) ==
  /\ worker[w] = "idle" /\ left[w] > 0 /\ phase[ContextOf(w)] = "running"
  /\ left' = [left EXCEPT ![w] = @ - 1]
  /\ Goto(w, "stat")
  /\ UNCHANGED <<library, phase, ssl_ctx, file, data_check, reload_lock, t, served>>

\* refresh_trust: the time of the file, or what was seen last when there is no such file.
Stat(w) ==
  /\ worker[w] = "stat"
  /\ t' = [t EXCEPT ![w] = file]
  /\ Goto(w, "compare")
  /\ UNCHANGED <<library, phase, ssl_ctx, file, data_check, reload_lock, left, served>>

\* A change is noted before the reload; the locations of ssl_verify_peer may fail to load.
Compare(w) ==
  /\ worker[w] = "compare"
  /\ IF data_check = t[w] THEN Goto(w, "wait") ELSE \E s \in {"test", "idle"} : Goto(w, s)
  /\ data_check' = t[w]
  /\ UNCHANGED <<library, phase, ssl_ctx, file, reload_lock, t, left, served>>

\* reload_lock is an int, tested and then set.
Test(w) ==
  /\ worker[w] = "test"
  /\ Goto(w, IF reload_lock THEN "wait" ELSE "set")
  /\ UNCHANGED <<library, phase, ssl_ctx, file, data_check, reload_lock, t, left, served>>

Set(w) ==
  /\ worker[w] = "set"
  /\ reload_lock' = TRUE
  /\ Goto(w, "certificate")
  /\ UNCHANGED <<library, phase, ssl_ctx, file, data_check, t, left, served>>

\* ssl_use_pem_file again, in the context that is in use.
UseCertificate(w) ==
  /\ worker[w] = "certificate"
  /\ ssl_ctx' = [ssl_ctx EXCEPT ![ContextOf(w)] = Certified(@, FALSE)]
  /\ Goto(w, "key")
  /\ UNCHANGED <<library, phase, file, data_check, reload_lock, t, left, served>>

\* Slip: the lock is given back when the key is refused.
UseKey_Unlocks(w) ==
  LET c == ContextOf(w) IN
  /\ worker[w] = "key"
  /\ IF Belong(ssl_ctx[c].cert)
       THEN /\ ssl_ctx' = [ssl_ctx EXCEPT ![c].key = file] /\ Goto(w, "chain")
            /\ UNCHANGED reload_lock
       ELSE /\ ssl_ctx' = [ssl_ctx EXCEPT ![c].cert = NoCert] /\ Goto(w, "idle")
            /\ reload_lock' = FALSE
  /\ UNCHANGED <<library, phase, file, data_check, t, left, served>>

\* A key that does not match is refused, and refresh_trust returns without giving the lock back.
UseKey(w) ==
  LET c == ContextOf(w) IN
  /\ worker[w] = "key"
  /\ IF Belong(ssl_ctx[c].cert)
       THEN ssl_ctx' = [ssl_ctx EXCEPT ![c].key = file] /\ Goto(w, "chain")
       ELSE ssl_ctx' = [ssl_ctx EXCEPT ![c].cert = NoCert] /\ Goto(w, "idle")
  /\ UNCHANGED <<library, phase, file, data_check, reload_lock, t, left, served>>

\* The file may be another one by now, and its certificate replaces the one that was checked.
UseChain(w) ==
  /\ worker[w] = "chain"
  /\ ssl_ctx' = [ssl_ctx EXCEPT ![ContextOf(w)] = Certified(@, TRUE)]
  /\ reload_lock' = FALSE
  /\ Goto(w, "wait")
  /\ UNCHANGED <<library, phase, file, data_check, t, left, served>>

\* The handshake, once no reload seems to be going on; it may fail.
Handshake(w) ==
  /\ worker[w] = "wait" /\ ~reload_lock
  /\ served' = [served EXCEPT ![w] = ssl_ctx[ContextOf(w)]]
  /\ Goto(w, "shaken")
  /\ UNCHANGED <<library, phase, ssl_ctx, file, data_check, reload_lock, t, left>>

\* The connection is served and closed.
Done(w) ==
  /\ worker[w] = "shaken"
  /\ Goto(w, "idle")
  /\ served' = [served EXCEPT ![w] = None]
  /\ UNCHANGED <<library, phase, ssl_ctx, file, data_check, reload_lock, t, left>>

Reload(w) == Test(w) \/ Set(w) \/ UseCertificate(w) \/ UseKey(w) \/ UseChain(w)
refresh_trust(w) == Stat(w) \/ Compare(w) \/ Reload(w)
sslize(w) == refresh_trust(w) \/ Handshake(w)

Next ==
  \/ \E c \in Contexts : initialize_ssl(c) \/ set_ssl_option(c) \/ Stop(c) \/ uninitialize_ssl(c)
  \/ Rotate
  \/ \E w \in Workers : Accept(w) \/ sslize(w) \/ Done(w)

Spec == Init /\ [][Next]_vars

-----------------------------------------------------------------------------
\* While a context runs, so that a worker of it may be inside the library, the library's mutexes
\* are there: whatever other contexts were started, refused or stopped meanwhile. Only when
\* there was no memory for the mutexes, the context is counted all the same, and the next one
\* finds them set up.
LibraryWhileUsed ==
  (\A c \in Contexts : phase[c] # "no memory") =>
    \A c \in Contexts : phase[c] \in {"running", "stopping"} => ssl_mutexes

\* One worker never makes a handshake with a certificate and a key of two different versions of
\* the file, however often the file is replaced during a start or a reload: the reload that met
\* two versions when it checked the key has left the lock behind, and no handshake follows.
\* There is one hole: when the file is replaced between the check and the reading of the chain,
\* the handshake is made with the certificate of the new one, and with no key at all.
MatchingPair ==
  \A w \in Workers :
    IF served[w].late THEN served[w].key = NoCert
    ELSE served[w].cert = served[w].key /\ served[w].cert \notin Bad

\* "lock while cert is reloading" (civetweb.c:10814): the lock is held by somebody who reloads.
LockedWhileReloading ==
  reload_lock => \E w \in Workers : worker[w] \in {"certificate", "key", "chain"}
=============================================================================
