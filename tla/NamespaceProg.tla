---------------------------- MODULE NamespaceProg ----------------------------
(***************************************************************************)
(* Assignment-3/task1/namespace_prog.c: a parent clones child1 into new    *)
(* UTS and PID namespaces, waits on a pipe until child1 has set its        *)
(* hostname, joins the PID namespace and forks child2 there, which joins   *)
(* the UTS namespace.  Any system call may fail, and child1, the init of   *)
(* its namespace, may be killed from outside.                              *)
(***************************************************************************)
EXTENDS Naturals, FiniteSets

VARIABLES
  parent, child1, child2,   \* where each process is; "none" before, "reaped" after
  pipe,         \* [byte, writers]: what is in the pipe and who can still write
  hostname,     \* the name in the UTS namespaces of the host and of child1
  pid_ns,       \* the PID namespace the parent's next child is born in
  uts_ns_fd,    \* the parent has child1's UTS namespace open
  saw,          \* what child2 has printed: [pid, hostname], or nothing
  fork_failed

vars == <<parent, child1, child2, pipe, hostname, pid_ns, uts_ns_fd, saw, fork_failed>>

Nothing == [pid |-> 0, hostname |-> "none"]

Init ==
  /\ parent = "pipe" /\ child1 = "none" /\ child2 = "none"
  /\ pipe = [byte |-> FALSE, writers |-> {}]
  /\ hostname = [host |-> "host", new |-> "host"]
  /\ pid_ns = "host" /\ uts_ns_fd = FALSE
  /\ saw = Nothing /\ fork_failed = FALSE

\* errExit(msg).
errExit == parent' = "failed"

\* A process has closed its end of the pipe.

Without(p) == [pipe EXCEPT !.writers = @ \ {p}]

-----------------------------------------------------------------------------
(* main                                                                    *)

Pipe ==
  /\ parent = "pipe"
  /\ \/ parent' = "clone" /\ pipe' = [pipe EXCEPT !.writers = {"parent"}]
     \/ errExit /\ UNCHANGED pipe
  /\ UNCHANGED <<child1, child2, hostname, pid_ns, uts_ns_fd, saw, fork_failed>>

\* The child has a copy of both ends; its host name is at first that of the host.
Clone ==
  /\ parent = "clone"
  /\ \/ /\ parent' = "close"
        /\ child1' = "start"
        /\ pipe' = [pipe EXCEPT !.writers = @ \cup {"child1"}]
     \/ errExit /\ pipe' = Without("parent") /\ UNCHANGED child1
  /\ UNCHANGED <<child2, hostname, pid_ns, uts_ns_fd, saw, fork_failed>>

\* Slip: the parent keeps its own writing end of the pipe.
CloseEnd_Not ==
  /\ parent = "close" /\ parent' = "read"
  /\ pipe' = pipe
  /\ UNCHANGED <<child1, child2, hostname, pid_ns, uts_ns_fd, saw, fork_failed>>

\* Its own end is closed first, or read would never see the end of the pipe.
CloseEnd ==
  /\ parent = "close" /\ parent' = "read"
  /\ pipe' = Without("parent")
  /\ UNCHANGED <<child1, child2, hostname, pid_ns, uts_ns_fd, saw, fork_failed>>

\* A byte or the end of the pipe; nobody looks which.
Read ==
  /\ parent = "read"
  /\ pipe.byte \/ pipe.writers = {}
  /\ parent' = "open"
  /\ pipe' = [pipe EXCEPT !.byte = FALSE]
  /\ UNCHANGED <<child1, child2, hostname, pid_ns, uts_ns_fd, saw, fork_failed>>

Alive(c) == c \notin {"none", "zombie", "reaped"}

\* Both files of /proc/<child_pid>/ns: a zombie has no UTS namespace any more.
Open ==
  /\ parent = "open"
  /\ \/ Alive(child1) /\ parent' = "setns" /\ uts_ns_fd' = TRUE
     \/ errExit /\ UNCHANGED uts_ns_fd
  /\ UNCHANGED <<child1, child2, pipe, hostname, pid_ns, saw, fork_failed>>

Setns ==
  /\ parent = "setns"
  /\ \/ parent' = "fork" /\ pid_ns' = "new"
     \/ errExit /\ UNCHANGED pid_ns
  /\ UNCHANGED <<child1, child2, pipe, hostname, uts_ns_fd, saw, fork_failed>>

\* fork fails in a namespace whose init has gone; what it returns is only compared to 0.
Fork ==
  /\ parent = "fork"
  /\ parent' = "wait"
  /\ \/ Alive(child1) /\ child2' = "start" /\ UNCHANGED fork_failed
     \/ fork_failed' = TRUE /\ UNCHANGED child2
  /\ UNCHANGED <<child1, pipe, hostname, pid_ns, uts_ns_fd, saw>>

\* wait(NULL): any child that has ended, or none is left.  The init of a namespace
\* cannot be waited for before its other processes are.
WaitFor(next) ==
  /\ parent' = next
  /\ \/ /\ child2 = "zombie"
        /\ child2' = "reaped" /\ UNCHANGED child1
     \/ /\ child1 = "zombie" /\ child2 \in {"none", "reaped"}
        /\ child1' = "reaped" /\ UNCHANGED child2
     \/ /\ child1 = "reaped" /\ child2 \in {"none", "reaped"}
        /\ UNCHANGED <<child1, child2>>
  /\ UNCHANGED <<pipe, hostname, pid_ns, uts_ns_fd, saw, fork_failed>>

Wait == parent = "wait" /\ WaitFor("kill")

\* child1, the init of the namespace, takes along whoever is left in it.
NamespaceDies == child1' = "zombie" /\ child2' = IF Alive(child2) THEN "zombie" ELSE child2

Kill ==
  /\ parent = "kill"
  /\ parent' = "wait2"
  /\ IF Alive(child1) THEN NamespaceDies /\ pipe' = Without("child1")
     ELSE UNCHANGED <<child1, child2, pipe>>
  /\ UNCHANGED <<hostname, pid_ns, uts_ns_fd, saw, fork_failed>>

Wait2 == parent = "wait2" /\ WaitFor("returned")

-----------------------------------------------------------------------------
(* child_function, child2_function                                         *)

Sethostname ==
  /\ child1 = "start"
  /\ \/ child1' = "write" /\ hostname' = [hostname EXCEPT !.new = "Child1Hostname"]
        /\ UNCHANGED pipe
     \/ child1' = "zombie" /\ pipe' = Without("child1") /\ UNCHANGED hostname
  /\ UNCHANGED <<parent, child2, pid_ns, uts_ns_fd, saw, fork_failed>>

\* Then it sleeps for ever.
Write ==
  /\ child1 = "write" /\ child1' = "sleep"
  /\ pipe' = [byte |-> TRUE, writers |-> pipe.writers \ {"child1"}]
  /\ UNCHANGED <<parent, child2, hostname, pid_ns, uts_ns_fd, saw, fork_failed>>

\* setns to the UTS namespace; without it the child exits.
Join ==
  /\ child2 = "start"
  /\ child2' \in {"print", "zombie"}
  /\ UNCHANGED <<parent, child1, pipe, hostname, pid_ns, uts_ns_fd, saw, fork_failed>>

\* It is the second process of its namespace.
PrintHostname ==
  /\ child2 = "print" /\ child2' = "zombie"
  /\ saw' = [pid |-> IF pid_ns = "new" THEN 2 ELSE 0, hostname |-> hostname.new]
  /\ UNCHANGED <<parent, child1, pipe, hostname, pid_ns, uts_ns_fd, fork_failed>>

\* Somebody else kills child1.
Killed ==
  /\ Alive(child1) /\ NamespaceDies
  /\ pipe' = Without("child1")
  /\ UNCHANGED <<parent, hostname, pid_ns, uts_ns_fd, saw, fork_failed>>

ParentStep ==
  \/ Pipe \/ Clone \/ CloseEnd \/ Read \/ Open \/ Setns \/ Fork \/ Wait \/ Kill \/ Wait2
ChildStep == Sethostname \/ Write \/ Join \/ PrintHostname

Next == ParentStep \/ ChildStep \/ Killed

Spec == Init /\ [][Next]_vars
FairSpec == Spec /\ WF_vars(ParentStep) /\ WF_vars(Sethostname \/ Write) /\ WF_vars(Join \/ PrintHostname)

-----------------------------------------------------------------------------
\* child2 sees what the exercise asks for, whoever fails or is killed when: the host
\* name that child1 has set, never the one before, and a number in child1's namespace;
\* and when the parent returns, both children are gone and waited for.
JoinedAndCleanedUp ==
  /\ saw # Nothing => saw = [pid |-> 2, hostname |-> "Child1Hostname"]
  /\ parent = "returned" =>
       child1 = "reaped" /\ child2 \in {"none", "reaped"}

\* The parent ends, except that it waits for ever when fork failed and child1 lives on.
ParentEnds ==
  <>(\/ parent \in {"returned", "failed"}
     \/ fork_failed /\ parent = "wait" /\ Alive(child1))
=============================================================================
