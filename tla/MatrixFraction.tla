-------------------------- MODULE MatrixFraction --------------------------
(***************************************************************************)
(* Assignment-2/part2/matrix.c: fractional scheduling.  An INTR exit is a  *)
(* quantum of the VM that was running; vm1 keeps the processor for FRAC_A  *)
(* quanta and vm2 for FRAC_B.                                              *)
(***************************************************************************)
EXTENDS KvmTimerLoop

CONSTANTS FRAC_A, FRAC_B

ASSUME FracAssumption == FRAC_A \in Nat \ {0} /\ FRAC_B \in Nat \ {0}

VARIABLES
  vm1timer,   \* quanta vm1 has run since it last lost the processor to one
  vm2timer

timers == <<vm1timer, vm2timer>>
vars == <<loopVars, timers>>

\* Types; a timer never reaches its FRAC, at which its VM loses the processor.
TypeOK ==
  /\ LoopTypeOK
  /\ vm1timer \in 0 .. FRAC_A - 1
  /\ vm2timer \in 0 .. FRAC_B - 1

Init == LoopInit /\ vm1timer = 0 /\ vm2timer = 0

\* Slips: the timer is not reset; it is compared before it is counted up.
QuantumOfVm1_NoReset ==
  /\ current_vm = 1
  /\ IF vm1timer + 1 = FRAC_A
     THEN cvm' = 2 /\ UNCHANGED vm1timer
     ELSE vm1timer' = vm1timer + 1 /\ UNCHANGED cvm
  /\ UNCHANGED vm2timer

\* case KVM_EXIT_INTR, vm1 running.
QuantumOfVm1 ==
  /\ current_vm = 1
  /\ IF vm1timer + 1 = FRAC_A
     THEN cvm' = 2 /\ vm1timer' = 0
     ELSE vm1timer' = vm1timer + 1 /\ UNCHANGED cvm
  /\ UNCHANGED vm2timer

\* Slip: the same off-by-one for vm2.
QuantumOfVm2_Late ==
  /\ current_vm # 1
  /\ IF vm2timer = FRAC_B
     THEN cvm' = 1 /\ vm2timer' = 0
     ELSE vm2timer' = vm2timer + 1 /\ UNCHANGED cvm
  /\ UNCHANGED vm1timer

\* case KVM_EXIT_INTR, vm2 running.
QuantumOfVm2 ==
  /\ current_vm # 1
  /\ IF vm2timer + 1 = FRAC_B
     THEN cvm' = 1 /\ vm2timer' = 0
     ELSE vm2timer' = vm2timer + 1 /\ UNCHANGED cvm
  /\ UNCHANGED vm1timer

\* Slip: the switch of matrix-b.c, which gives the turn away at every tick.
DispatchIntr_EveryTick ==
  /\ pc = "dispatch"
  /\ Reason = "INTR"
  /\ cvm' = Other(current_vm)
  /\ pc' = "check"
  /\ UNCHANGED <<current_vm, ret, exit_reason, yielded, sigVars, timers>>

DispatchIntr ==
  /\ pc = "dispatch"
  /\ Reason = "INTR"
  /\ QuantumOfVm1 \/ QuantumOfVm2
  /\ pc' = "check"
  /\ UNCHANGED <<current_vm, ret, exit_reason, yielded, sigVars>>

Next ==
  \/ LoopStep /\ UNCHANGED timers
  \/ DispatchIntr

Spec == Init /\ [][Next]_vars

\* The control thread is never stopped for good; an unending guest is in the
\* end caught by the periodic timer (a period is a second, the stretch of
\* control code in which a tick can be swallowed some microseconds, so not
\* every tick falls there); KVM_RUN does not fail for one VM for ever.
Fairness ==
  /\ WF_vars((ControlStep /\ UNCHANGED timers) \/ DispatchIntr)
  /\ SF_vars(TickInGuest /\ UNCHANGED timers)
  /\ \A v \in Vm : SF_vars(Enters(v) /\ UNCHANGED timers)

FairSpec == Spec /\ Fairness
-----------------------------------------------------------------------------
(***************************************************************************)
(* Properties.                                                             *)
(***************************************************************************)

\* The iteration works on the VM it was told to run: from the head of the loop
\* to the switch, current_vm and cvm agree, so that a quantum is charged to the
\* VM that loses the processor for it.
ChargedVmIsNext ==
  pc \in {"unblock", "enter", "guest", "exited", "dispatch"} => current_vm = cvm

\* As long as no VM has given its turn away by I/O (the case the assignment asks
\* for), a VM that is not to run has no part of a share left over: it used all
\* of it or none.
NoLeftover ==
  ~yielded => /\ cvm = 1 => vm2timer = 0
              /\ cvm = 2 => vm1timer = 0

Share == [v \in Vm |-> IF v = 1 THEN FRAC_A ELSE FRAC_B]
Used == [v \in Vm |-> IF v = 1 THEN vm1timer ELSE vm2timer]

Turns == INSTANCE VmTurns
           WITH MayFail <- RunMayFail, turn <- cvm, used <- Used,
                phase <- Phase, last <- Last, stopped <- Stopped

\* matrix.c runs only the VM that has the turn and moves the turn only by whole
\* shares of quanta or by I/O.  A quantum is a run that the timer ended, or a
\* failed KVM_RUN after one, for which the page still says INTR.
ImplementsTurns == Turns!TurnSpec

\* Both VMs get into KVM_RUN again and again while the hypervisor runs.
BothVmsRun == \A v \in Vm : []<>(Stopped \/ (pc = "guest" /\ current_vm = v))
=============================================================================
