------------------------------ MODULE VmTurns ------------------------------
(***************************************************************************)
(* What the single-threaded hypervisors of Assignment-2/part2 promise of   *)
(* two virtual machines.  One of them has the turn and only that one is    *)
(* run.  It keeps the turn for Share timer quanta, each of them a run that *)
(* the timer ended, or gives it up early by doing I/O, in which case the   *)
(* quanta it already used stay on its account.  A VM that fails to run is  *)
(* treated as if it had run and ended as it did the last time.  matrix.c,  *)
(* matrix-b.c and matrix-a.c are each shown to implement this.             *)
(***************************************************************************)
EXTENDS Integers

CONSTANTS
  Share,    \* Share[v]: the quanta VM v runs before it loses the turn
  MayFail   \* whether a VM may fail to run

Vm == {1, 2}
Other(v) == 3 - v

VARIABLES
  turn,     \* the VM that is to run
  used,     \* used[v]: quanta v has used of its present share
  phase,    \* what that VM is doing, or how its last run ended
  last,     \* last[v]: how the last run of v ended
  stopped   \* the hypervisor has left its loop

turnVars == <<turn, used, phase, last, stopped>>

TurnInit ==
  /\ turn = 1
  /\ used = [v \in Vm |-> 0]
  /\ phase = "idle"
  /\ last = [v \in Vm |-> "other"]
  /\ stopped = FALSE

Run ==
  /\ ~stopped
  /\ phase = "idle"
  /\ phase' = "running"
  /\ UNCHANGED <<turn, used, last, stopped>>

Leave ==
  /\ phase = "running"
  /\ phase' \in {"tick", "io", "other"}
  /\ last' = [last EXCEPT ![turn] = phase']
  /\ UNCHANGED <<turn, used, stopped>>

Fail ==
  /\ MayFail
  /\ ~stopped
  /\ phase = "idle"
  /\ phase' = last[turn]
  /\ UNCHANGED <<turn, used, last, stopped>>

\* The timer ended the run: it is a quantum of the VM that has the turn.
Charge ==
  /\ phase = "tick"
  /\ phase' = "idle"
  /\ IF used[turn] + 1 = Share[turn]
     THEN /\ used' = [used EXCEPT ![turn] = 0]
          /\ turn' = Other(turn)
     ELSE /\ used' = [used EXCEPT ![turn] = @ + 1]
          /\ turn' = turn
  /\ UNCHANGED <<last, stopped>>

\* The VM did I/O.
Yield ==
  /\ phase = "io"
  /\ phase' = "idle"
  /\ turn' = Other(turn)
  /\ UNCHANGED <<used, last, stopped>>

\* Any other end of a run leaves the turn where it is.
Resume ==
  /\ phase = "other"
  /\ phase' = "idle"
  /\ UNCHANGED <<turn, used, last, stopped>>

Stop ==
  /\ ~stopped
  /\ phase \in {"idle", "other"}
  /\ phase' = "idle"
  /\ stopped' = TRUE
  /\ UNCHANGED <<turn, used, last>>

TurnNext == Run \/ Leave \/ Fail \/ Charge \/ Yield \/ Resume \/ Stop

TurnSpec == TurnInit /\ [][TurnNext]_turnVars
=============================================================================
