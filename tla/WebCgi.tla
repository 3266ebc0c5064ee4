------------------------------- MODULE WebCgi -------------------------------
(***************************************************************************)
(* How the embedded web server runs scripts, handle_cgi_request of         *)
(* civetweb.c and what it calls: three pipes, a process that inherits what *)
(* the whole server has open at that moment, the body to its input, its    *)
(* output to the client.  Workers do this at the same time, and the        *)
(* close-on-exec flags are set only after the fork.                        *)
(*                                                                         *)
(* An end of a pipe is [w, pipe, side]: whose request it is for, "in",     *)
(* "out" or "err", and "r" or "w".  What is in a pipe is counted only.  A  *)
(* script is a sequence of what it does, one unit at a time: "read" its    *)
(* input to the end, "out" and "err"; its first "out" is its header.       *)
(***************************************************************************)
EXTENDS Integers, Sequences

CONSTANTS
  Workers,
  Requests,   \* what a client may ask for: [body, script, env], see below
  CAP,        \* the capacity of a pipe
  CGI_ENVIRONMENT_SIZE, ESTIMATE,   \* addenv asks for so much, at least
  MAX_CGI_ENVIR_VARS

VARIABLES
  job,        \* job[w]: [pc, q, left, blk] of handle_cgi_request
  server,     \* the ends that the server's process has open
  cloexec,    \* those of them that exec closes
  child,      \* child[w]: [st, ends, cloexec, todo] of the process for w
  filled      \* filled[w][pipe]: how much is in it

vars == <<job, server, cloexec, child, filled>>

CgiAssumption ==
  /\ CAP \in Nat /\ ESTIMATE \in Nat
  /\ CGI_ENVIRONMENT_SIZE \in Nat \ {0} /\ MAX_CGI_ENVIR_VARS \in Nat \ {0}
  /\ \A q \in Requests : q.body \in Nat /\ q.script \in Seq({"read", "out", "err"})
                        /\ q.env \in Seq(Nat)

Pipes == {"in", "out", "err"}
End(w, pipe, side) == [w |-> w, pipe |-> pipe, side |-> side]
EndsOf(w, pipes) == {End(w, p, s) : p \in pipes, s \in {"r", "w"}}
Stdio(w) == {End(w, "in", "r"), End(w, "out", "w"), End(w, "err", "w")}

Open(e) == e \in server \/ \E w \in Workers : e \in child[w].ends

NoEnv ==
  [buflen |-> CGI_ENVIRONMENT_SIZE, bufused |-> 0, top |-> 0, gen |-> 0, var |-> <<>>]
NoJob == [pc |-> "idle", q |-> [body |-> 0, script |-> <<>>, env |-> <<>>],
          left |-> 0, blk |-> NoEnv]
NoChild == [st |-> "none", ends |-> {}, cloexec |-> {}, todo |-> <<>>]

Init ==
  /\ job = [w \in Workers |-> NoJob]
  /\ server = {} /\ cloexec = {}
  /\ child = [w \in Workers |-> NoChild]
  /\ filled = [w \in Workers |-> [p \in Pipes |-> 0]]

Goto(w, from, to) == job[w].pc = from /\ job' = [job EXCEPT ![w].pc = to]

-----------------------------------------------------------------------------
(* The environment: what is before top has been written to.                *)

\* One variable, of s bytes: its string is put behind the others, in a buffer that is
\* first made larger when there may be too little room; then the buffer has moved, and
\* the pointers to the strings before stay as they were.
addenv(env, s) ==
  LET space == env.buflen - env.bufused
      will_do(k) == (space <= ESTIMATE => k > 0) /\ s <= space + k * CGI_ENVIRONMENT_SIZE
      grows == CHOOSE k \in 0..s + 1 : will_do(k) /\ \A i \in 0..k - 1 : ~will_do(i)
  IN [buflen |-> env.buflen + grows * CGI_ENVIRONMENT_SIZE,
      bufused |-> env.bufused + s,
      top |-> env.bufused + s,
      gen |-> env.gen + grows,
      var |-> IF MAX_CGI_ENVIR_VARS - Len(env.var) < 2 THEN env.var
              ELSE Append(env.var, [gen |-> env.gen + grows, from |-> env.bufused, size |-> s])]

\* All of them, and one more '\0' behind the last, for which nobody asks whether there is
\* room.
prepare_cgi_environment(sizes) ==
  LET env[n \in 0..Len(sizes)] == IF n = 0 THEN NoEnv ELSE addenv(env[n - 1], sizes[n])
      all == env[Len(sizes)]
  IN [all EXCEPT !.top = all.bufused + 1]

-----------------------------------------------------------------------------
(* handle_cgi_request                                                      *)

\* A path that is too long is answered with 500.
Begin(w, q) ==
  /\ job[w].pc = "idle"
  /\ \E pc \in {"pipe", "done"} :
       job' = [job EXCEPT ![w] = [NoJob EXCEPT !.pc = pc, !.q = q, !.left = q.body,
                                               !.blk = prepare_cgi_environment(q.env)]]
  /\ filled' = [filled EXCEPT ![w] = [p \in Pipes |-> 0]]
  /\ UNCHANGED <<server, cloexec, child>>

\* Three pipes, or the first of them only.
Pipe(w) ==
  /\ \/ Goto(w, "pipe", "spawn") /\ server' = server \cup EndsOf(w, Pipes)
     \/ Goto(w, "pipe", "done") /\ \E some \in {{}, {"in"}, {"in", "out"}} :
                                      server' = server \cup EndsOf(w, some)
  /\ UNCHANGED <<cloexec, child, filled>>

\* spawn_process: the child has a copy of all that is open; fork may fail.
Spawn(w) ==
  /\ \/ /\ Goto(w, "spawn", "mark")
        /\ child' = [child EXCEPT ![w] = [st |-> "forked", ends |-> server, cloexec |-> cloexec,
                                          todo |-> job[w].q.script]]
     \/ Goto(w, "spawn", "done") /\ UNCHANGED child
  /\ UNCHANGED <<server, cloexec, filled>>

Dies(w) == child' = [child EXCEPT ![w] = [NoChild EXCEPT !.st = "zombie"]]

\* The child's part of it: chdir or dup2 may fail, or exec.
Exec(w) ==
  /\ child[w].st = "forked"
  /\ \/ child' = [child EXCEPT
          ![w].st = "run",
          ![w].ends = Stdio(w) \cup (@ \ (child[w].cloexec \cup EndsOf(w, Pipes)))]
     \/ Dies(w)
  /\ UNCHANGED <<job, server, cloexec, filled>>

\* Slip: the server keeps the script's own ends of the pipes.
Mark_StdioToo(w) ==
  /\ Goto(w, "mark", "fdopen")
  /\ server' = server
  /\ cloexec' = cloexec \cup (EndsOf(w, Pipes) \ Stdio(w))
  /\ UNCHANGED <<child, filled>>

\* set_close_on_exec, and the ends that are the child's are closed.
Mark(w) ==
  /\ Goto(w, "mark", "fdopen")
  /\ server' = server \ Stdio(w)
  /\ cloexec' = cloexec \cup (EndsOf(w, Pipes) \ Stdio(w))
  /\ UNCHANGED <<child, filled>>

\* Three times fdopen, and maybe there is a body to forward.
Fdopen(w) ==
  /\ \/ Goto(w, "fdopen", IF job[w].left > 0 THEN "forward" ELSE "close_in")
     \/ Goto(w, "fdopen", "done")
  /\ UNCHANGED <<server, cloexec, child, filled>>

\* forward_body_data: it blocks while the pipe is full, and fails when nobody reads
\* it any more, or when the client fails.  That the part which came with the request's head
\* could not be written goes unnoticed, and so does a chunked body that has begun to come:
\* none of it is forwarded.
Forward(w) ==
  /\ job[w].pc = "forward"
  /\ \/ /\ job[w].left > 0 /\ filled[w]["in"] < CAP /\ Open(End(w, "in", "r"))
        /\ filled' = [filled EXCEPT ![w]["in"] = @ + 1]
        /\ job' = [job EXCEPT ![w].left = @ - 1]
     \/ job[w].left = 0 /\ Goto(w, "forward", "close_in") /\ UNCHANGED filled
     \/ job[w].left > 0 /\ Goto(w, "forward", "done") /\ UNCHANGED filled
        /\ (Open(End(w, "in", "r")) => filled[w]["in"] < CAP)
     \/ /\ ~Open(End(w, "in", "r")) \/ job[w].left = job[w].q.body
        /\ Goto(w, "forward", "close_in") /\ UNCHANGED filled
  /\ UNCHANGED <<server, cloexec, child>>

\* So the child gets an EOF; then memory for its answer may fail, or the time for the
\* request may be over: nothing is read of the answer then.
CloseIn(w) ==
  /\ \E next \in {"head", "stderr", "done"} : Goto(w, "close_in", next)
  /\ server' = server \ {End(w, "in", "w")}
  /\ UNCHANGED <<cloexec, child, filled>>

Read(w, pipe) == filled[w][pipe] > 0 /\ filled' = [filled EXCEPT ![w][pipe] = @ - 1]
Eof(w, pipe) == filled[w][pipe] = 0 /\ ~Open(End(w, pipe, "w")) /\ UNCHANGED filled

\* read_request from the script, up to the end of its header.  When the output ends before
\* it, or what was read shows that it is malformed, too big or too late, the script's stderr
\* is looked at instead: the script may still be running then.
ReadHead(w) ==
  /\ \/ \E next \in {"head", "copy", "stderr"} : Goto(w, "head", next) /\ Read(w, "out")
     \/ Goto(w, "head", "stderr") /\ Eof(w, "out")
  /\ UNCHANGED <<server, cloexec, child>>

\* Up to its end, or until the buffer for it is full.
Stderr(w) ==
  /\ \/ \E next \in {"stderr", "done"} : Goto(w, "stderr", next) /\ Read(w, "err")
     \/ Goto(w, "stderr", "done") /\ Eof(w, "err")
  /\ UNCHANGED <<server, cloexec, child>>

\* send_file_data, up to the end of the script's output, or as long as the client takes it.
Copy(w) ==
  /\ \/ Goto(w, "copy", "copy") /\ Read(w, "out")
     \/ Goto(w, "copy", "done") /\ Eof(w, "out")
     \/ Goto(w, "copy", "done") /\ Read(w, "out")
  /\ UNCHANGED <<server, cloexec, child>>

\* Slip: a script's input is left open when its output broke off.
Done_KeepsInput(w) ==
  /\ Goto(w, "done", "over")
  /\ child' = [child EXCEPT ![w] = NoChild]
  /\ server' = server \ (EndsOf(w, Pipes) \ {End(w, "err", "w"), End(w, "in", "w")})
  /\ cloexec' = cloexec \ EndsOf(w, Pipes)
  /\ UNCHANGED filled

\* At done: the child is killed and waited for, and what is still open is closed, but
\* for the writing end of stderr, which nobody closes when there was no child.
Done(w) ==
  /\ Goto(w, "done", "over")
  /\ child' = [child EXCEPT ![w] = NoChild]
  /\ server' = server \ (EndsOf(w, Pipes) \ {End(w, "err", "w")})
  /\ cloexec' = cloexec \ EndsOf(w, Pipes)
  /\ UNCHANGED filled

Worker(w) ==
  \/ \E q \in Requests : Begin(w, q)
  \/ Pipe(w) \/ Spawn(w) \/ Mark(w) \/ Fdopen(w) \/ Forward(w) \/ CloseIn(w)
  \/ ReadHead(w) \/ Stderr(w) \/ Copy(w) \/ Done(w)

-----------------------------------------------------------------------------
(* The script                                                              *)

Does(w, what) == child[w].st = "run" /\ child[w].todo # <<>> /\ child[w].todo[1] = what
GoesOn(w) == child' = [child EXCEPT ![w].todo = Tail(@)]

ReadsInput(w) ==
  /\ Does(w, "read")
  /\ \/ Read(w, "in") /\ UNCHANGED child
     \/ Eof(w, "in") /\ GoesOn(w)
  /\ UNCHANGED <<job, server, cloexec>>

\* It blocks on a full pipe, and dies when nobody can read what it writes.
Writes(w, pipe) ==
  /\ Does(w, pipe)
  /\ IF Open(End(w, pipe, "r"))
     THEN /\ filled[w][pipe] < CAP
          /\ filled' = [filled EXCEPT ![w][pipe] = @ + 1]
          /\ GoesOn(w)
     ELSE Dies(w) /\ UNCHANGED filled
  /\ UNCHANGED <<job, server, cloexec>>

Exits(w) ==
  /\ child[w].st = "run" /\ child[w].todo = <<>>
  /\ Dies(w)
  /\ UNCHANGED <<job, server, cloexec, filled>>

Script(w) == Exec(w) \/ ReadsInput(w) \/ Writes(w, "out") \/ Writes(w, "err") \/ Exits(w)

Next == \E w \in Workers : Worker(w) \/ Script(w)

-----------------------------------------------------------------------------
\* A script fills a pipe that the server does not read now: stderr before the end of
\* the output, or the output while the server is still busy with the body, or when it has
\* given up the header and waits for the end of stderr.
Overfills(w) ==
  \/ Does(w, "err") /\ filled[w]["err"] = CAP /\ job[w].pc # "stderr"
  \/ Does(w, "out") /\ filled[w]["out"] = CAP /\ job[w].pc \in {"forward", "stderr"}

\* The process for v has an end of w's pipes.
Inherited(v, w) == child[v].ends \cap EndsOf(w, Pipes) # {}

\* What everybody waits for, for ever, is a script that overfills a pipe which is not read at
\* that time (an output that goes on behind a header given up is one), or two scripts that
\* were forked between the other's pipes and marks, each keeping the other's input open.
StuckOnlyForAReason ==
  (\A w \in Workers : job[w].pc # "idle") /\ ~ENABLED Next =>
    \/ \A w \in Workers : job[w].pc = "over"
    \/ \E w \in Workers : Overfills(w)
    \/ \E v, w \in Workers : v # w /\ Inherited(v, w) /\ Inherited(w, v)

\* A request leaves no process and no open pipe behind, whatever fails in it, but for the
\* one descriptor of a fork that failed.
NothingLeftBehind ==
  \A w \in Workers :
    job[w].pc = "over" =>
      /\ child[w] = NoChild
      /\ server \cap EndsOf(w, Pipes) \subseteq {End(w, "err", "w")}
      /\ cloexec \cap EndsOf(w, Pipes) = {}

\* The strings of the environment lie one behind the other within the buffer, and one
\* place is left for the NULL behind the pointers to them.  Nothing is written behind the
\* buffer, but for the last '\0' when the strings fill it exactly: it is the byte right behind
\* it then.  (The pointers themselves are good as long as the buffer has not grown.)
EnvironmentInBounds ==
  \A w \in Workers :
    LET env == job[w].blk
    IN /\ env.bufused <= env.buflen
       /\ \/ env.top <= env.buflen
          \/ env.bufused = env.buflen /\ env.top = env.buflen + 1
       /\ Len(env.var) < MAX_CGI_ENVIR_VARS
       /\ \A i \in DOMAIN env.var :
            env.var[i].from + env.var[i].size <=
              (IF i = Len(env.var) THEN env.bufused ELSE env.var[i + 1].from)
=============================================================================
