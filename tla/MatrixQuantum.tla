--------------------------- MODULE MatrixQuantum ---------------------------
(***************************************************************************)
(* Assignment-2/part2/matrix-b.c: every INTR exit, like every IO exit,     *)
(* hands the processor to the other VM.  The loop around the switch is the *)
(* one of matrix.c, KvmTimerLoop.                                          *)
(***************************************************************************)
EXTENDS KvmTimerLoop

Init == LoopInit

\* Slip: vm2 never gives the turn back.
DispatchIntr_OneWay ==
  /\ pc = "dispatch"
  /\ Reason = "INTR"
  /\ cvm' = 2
  /\ pc' = "check"
  /\ UNCHANGED <<current_vm, ret, exit_reason, yielded, sigVars>>

DispatchIntr ==
  /\ pc = "dispatch"
  /\ Reason = "INTR"
  /\ cvm' = Other(current_vm)
  /\ pc' = "check"
  /\ UNCHANGED <<current_vm, ret, exit_reason, yielded, sigVars>>

Next == LoopStep \/ DispatchIntr

Spec == Init /\ [][Next]_loopVars

\* As in MatrixFraction.
Fairness ==
  /\ WF_loopVars(ControlStep \/ DispatchIntr)
  /\ SF_loopVars(TickInGuest)
  /\ \A v \in Vm : SF_loopVars(Enters(v))

FairSpec == Spec /\ Fairness
-----------------------------------------------------------------------------
(***************************************************************************)
(* Properties.                                                             *)
(***************************************************************************)

Turns == INSTANCE VmTurns
           WITH Share <- [v \in Vm |-> 1], MayFail <- RunMayFail, turn <- cvm,
                used <- [v \in Vm |-> 0], phase <- Phase, last <- Last,
                stopped <- Stopped

\* matrix-b.c runs only the VM that has the turn, for one quantum or until it
\* does I/O.
ImplementsTurns == Turns!TurnSpec

\* Both VMs get into KVM_RUN again and again while the hypervisor runs.
BothVmsRun == \A v \in Vm : []<>(Stopped \/ (pc = "guest" /\ current_vm = v))
=============================================================================
