--------------------------- MODULE KvmTimerLoop ---------------------------
(***************************************************************************)
(* The part that matrix.c and matrix-b.c of Assignment-2/part2 have in     *)
(* common: one control thread that runs two VMs in turn with KVM_RUN and   *)
(* gets them back by a periodic POSIX timer whose signal is unblocked      *)
(* around the ioctl.  What differs, the scheduling decision taken on an    *)
(* INTR exit, is in MatrixQuantum and MatrixFraction, which extend this.   *)
(*                                                                         *)
(* The signal is modelled as the kernel treats it: a timer has at most one *)
(* signal pending (further expirations are overruns), a blocked signal     *)
(* waits, and an unblocked one runs timer_handler at once, which returns   *)
(* without a trace unless the thread was inside KVM_RUN.                   *)
(***************************************************************************)
EXTENDS Integers

CONSTANTS
  GuestExits,    \* the exits the two guest images may cause by themselves
  SetupMayFail,  \* whether timer_create, timer_settime, KVM_SET_*REGS may fail
  RunMayFail     \* whether KVM_RUN may fail for a reason other than a signal

Vm == {1, 2}
Other(v) == 3 - v

\* KVM_EXIT_*; "panic" stands for every reason the switch has no case for.
Reasons == {"UNKNOWN", "DEBUG", "IO", "MMIO", "INTR", "SHUTDOWN", "panic"}

ASSUME ExitsAssumption ==
  /\ GuestExits \subseteq Reasons \ {"INTR"}
  /\ SetupMayFail \in BOOLEAN
  /\ RunMayFail \in BOOLEAN

VARIABLES
  pc,           \* where the control thread is in kvm_run_vm
  cvm,          \* the VM to run next
  current_vm,   \* the VM of this iteration
  ret,          \* what the last ioctl(KVM_RUN) returned
  exit_reason,  \* exit_reason[v]: kvm_run->exit_reason in the page of VM v
  blocked,      \* TIMER_SIGNAL is in the thread's signal mask
  armed,        \* the periodic timer runs
  pending,      \* a timer signal waits for the mask to let it through
  yielded       \* a VM has given its turn away by I/O (a history)

sigVars == <<blocked, armed, pending>>
runVars == <<cvm, current_vm, ret, exit_reason, yielded>>
loopVars == <<pc, cvm, current_vm, ret, exit_reason, blocked, armed, pending,
              yielded>>

Stopped == pc \in {"returned", "exit1"}

LoopTypeOK ==
  /\ pc \in {"mask", "arm", "pick", "unblock", "enter", "guest", "exited",
             "dispatch", "check", "reopen", "returned", "exit1"}
  /\ cvm \in Vm
  /\ current_vm \in Vm
  /\ ret \in {0, -1}
  /\ exit_reason \in [Vm -> Reasons]
  /\ blocked \in BOOLEAN
  /\ armed \in BOOLEAN
  /\ pending \in BOOLEAN
  /\ yielded \in BOOLEAN

\* The shared kvm_run page is zero when the vCPU is created: KVM_EXIT_UNKNOWN.
LoopInit ==
  /\ pc = "mask"
  /\ cvm = 1
  /\ current_vm = 1
  /\ ret = 0
  /\ exit_reason = [v \in Vm |-> "UNKNOWN"]
  /\ blocked = FALSE
  /\ armed = FALSE
  /\ pending = FALSE
  /\ yielded = FALSE

\* sigprocmask(SIG_SETMASK, {TIMER_SIGNAL}).
MaskTimer ==
  /\ pc = "mask"
  /\ blocked' = TRUE
  /\ pc' = "arm"
  /\ UNCHANGED <<runVars, armed, pending>>

\* signal, timer_create and timer_settime; a failure of either ends the program.
ArmTimer ==
  /\ pc = "arm"
  /\ \/ /\ armed' = TRUE
        /\ pc' = "pick"
     \/ /\ SetupMayFail
        /\ pc' = "exit1"
        /\ UNCHANGED armed
  /\ UNCHANGED <<runVars, blocked, pending>>

\* The head of the loop: choose the VM and kvm_reset_vcpu it.
PickVm ==
  /\ pc = "pick"
  /\ current_vm' = cvm
  /\ \/ pc' = "unblock"
     \/ SetupMayFail /\ pc' = "exit1"
  /\ UNCHANGED <<cvm, ret, exit_reason, yielded, blocked, armed, pending>>

\* sigprocmask(SIG_UNBLOCK): a signal that waited is delivered before the call
\* returns, to the dummy handler, in the control thread.
LetSignalsIn ==
  /\ blocked' = FALSE
  /\ pending' = FALSE
  /\ UNCHANGED armed

\* Slip: the signal stays blocked.
UnblockBeforeRun_Skipped ==
  pc = "unblock" /\ pc' = "enter" /\ UNCHANGED <<runVars, sigVars>>

UnblockBeforeRun ==
  /\ pc = "unblock"
  /\ LetSignalsIn
  /\ pc' = "enter"
  /\ UNCHANGED runVars

\* ioctl(KVM_RUN) enters the guest, or fails and leaves the shared page alone.
EnterGuest ==
  /\ pc = "enter"
  /\ \/ pc' = "guest" /\ UNCHANGED ret
     \/ RunMayFail /\ pc' = "exited" /\ ret' = -1
  /\ UNCHANGED <<cvm, current_vm, exit_reason, yielded, sigVars>>

\* KVM_RUN returns because of what the guest did.
GuestExit ==
  /\ pc = "guest"
  /\ \E r \in GuestExits :
       exit_reason' = [exit_reason EXCEPT ![current_vm] = r]
  /\ ret' = 0
  /\ pc' = "exited"
  /\ UNCHANGED <<cvm, current_vm, yielded, sigVars>>

\* The timer expires while the guest runs: KVM_RUN returns -EINTR with
\* KVM_EXIT_INTR, and the handler runs on the way out.
TickInGuest ==
  /\ armed
  /\ pc = "guest"
  /\ ~blocked
  /\ exit_reason' = [exit_reason EXCEPT ![current_vm] = "INTR"]
  /\ ret' = -1
  /\ pc' = "exited"
  /\ UNCHANGED <<cvm, current_vm, yielded, blocked, armed, pending>>

\* Any other expiration: the signal waits if it is blocked (once: a second one is
\* an overrun), else the handler takes it in the control thread.
TickInControl ==
  /\ armed
  /\ pc # "guest" \/ blocked
  /\ ~Stopped
  /\ pending' = blocked
  /\ UNCHANGED <<pc, runVars, blocked, armed>>

BlockAfterRun ==
  /\ pc = "exited"
  /\ blocked' = TRUE
  /\ pc' = "dispatch"
  /\ UNCHANGED <<runVars, armed, pending>>

\* The cases of the switch that every variant treats alike.
Reason == exit_reason[current_vm]

DispatchSame ==
  /\ pc = "dispatch"
  /\ Reason \in {"UNKNOWN", "DEBUG", "MMIO"}
  /\ pc' = "check"
  /\ UNCHANGED <<runVars, sigVars>>

DispatchIo ==
  /\ pc = "dispatch"
  /\ Reason = "IO"
  /\ cvm' = Other(current_vm)
  /\ yielded' = TRUE
  /\ pc' = "check"
  /\ UNCHANGED <<current_vm, ret, exit_reason, sigVars>>

DispatchStop ==
  /\ pc = "dispatch"
  /\ Reason \in {"SHUTDOWN", "panic"}
  /\ pc' = "returned"
  /\ UNCHANGED <<runVars, sigVars>>

\* A KVM_RUN that failed, unless the page says INTR, ends the program.
CheckRet ==
  /\ pc = "check"
  /\ pc' = IF ret < 0 /\ Reason # "INTR" THEN "exit1" ELSE "reopen"
  /\ UNCHANGED <<runVars, sigVars>>

UnblockAfterDispatch ==
  /\ pc = "reopen"
  /\ LetSignalsIn
  /\ pc' = "pick"
  /\ UNCHANGED runVars

\* The program has ended.
Ended == Stopped /\ UNCHANGED loopVars

\* What the control thread does by itself, the dispatch of INTR excepted.
ControlStep ==
  \/ MaskTimer \/ ArmTimer \/ PickVm \/ UnblockBeforeRun \/ EnterGuest
  \/ BlockAfterRun \/ DispatchSame \/ DispatchIo \/ DispatchStop
  \/ CheckRet \/ UnblockAfterDispatch

LoopStep ==
  \/ ControlStep
  \/ GuestExit
  \/ TickInGuest
  \/ TickInControl
  \/ Ended
-----------------------------------------------------------------------------
\* How the last run of the current VM ended, as the abstract turns see it.
EndOf(reason) == IF reason = "INTR" THEN "tick"
                 ELSE IF reason = "IO" THEN "io" ELSE "other"

Phase == IF pc = "guest" THEN "running"
         ELSE IF pc \in {"exited", "dispatch"} THEN EndOf(Reason)
         ELSE "idle"

Last == [v \in Vm |-> EndOf(exit_reason[v])]

\* KVM_RUN of VM v does enter the guest.
Enters(v) == EnterGuest /\ current_vm = v /\ pc' = "guest"
=============================================================================
