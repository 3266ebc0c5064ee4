---------------------------- MODULE MatrixYield ----------------------------
(***************************************************************************)
(* Assignment-2/part2/matrix-a.c with the guests guest1.s and guest2.s     *)
(* assembled with their out instruction: the VMs alternate on KVM_EXIT_IO. *)
(* There is no timer; a guest runs until it does I/O, or until a signal    *)
(* from outside (job control) interrupts KVM_RUN.                          *)
(***************************************************************************)
EXTENDS Integers

CONSTANTS
  AX_WIDTH,   \* bits of the ax register the guests count in (16)
  RunMayFail  \* whether KVM_RUN and the KVM_SET_*REGS ioctls may fail

Vm == {1, 2}
Other(v) == 3 - v
Ax == 0 .. (2 ^ AX_WIDTH) - 1

\* The guest program: xor %ax,%ax; loop1: out %ax,$port; inc (dec) %ax; jmp.
Rip == {"xor", "out", "count", "jmp"}
Count(v, ax) == (IF v = 1 THEN ax + 1 ELSE ax - 1) % (2 ^ AX_WIDTH)

VARIABLES
  pc,           \* where the control thread is in kvm_run_vm
  cvm,          \* the VM to run next
  current_vm,   \* the VM of this iteration
  ret,          \* what the last ioctl(KVM_RUN) returned
  exit_reason,  \* exit_reason[v]: kvm_run->exit_reason in the page of VM v
  io_data,      \* io_data[v]: the data of the last port access, same page
  rip, ax,      \* the guests' registers
  last_vm,      \* the VM of the last "out port" line, 0 if none (a history)
  printed       \* printed[v]: the data of the last line of v (a history)

turn == <<cvm, current_vm>>
page == <<exit_reason, io_data>>
guests == <<rip, ax>>
lines == <<last_vm, printed>>
vars == <<pc, cvm, current_vm, ret, exit_reason, io_data, rip, ax, last_vm,
          printed>>

Nothing == -1
Stopped == pc \in {"returned", "exit1"}

\* The shared pages and the registers that matter are zero to begin with.
Init ==
  /\ pc = "pick"
  /\ cvm = 1 /\ current_vm = 1
  /\ ret = 0
  /\ exit_reason = [v \in Vm |-> "UNKNOWN"]
  /\ rip = [v \in Vm |-> "xor"]
  /\ ax = [v \in Vm |-> 0]
  /\ io_data = [v \in Vm |-> 0]
  /\ last_vm = 0
  /\ printed = [v \in Vm |-> Nothing]

\* The head of the loop; kvm_reset_vcpu sets rip to 0 and writes back a stale
\* rax (vcpu->regs is never read from the vCPU), which any value stands for.
PickVm ==
  /\ pc = "pick"
  /\ current_vm' = cvm
  /\ \/ /\ pc' = "enter"
        /\ rip' = [rip EXCEPT ![cvm] = "xor"]
        /\ \E stale \in Ax : ax' = [ax EXCEPT ![cvm] = stale]
     \/ /\ RunMayFail
        /\ pc' = "exit1"
        /\ UNCHANGED guests
  /\ UNCHANGED <<cvm, ret, page, lines>>

EnterGuest ==
  /\ pc = "enter"
  /\ \/ pc' = "guest" /\ UNCHANGED ret
     \/ RunMayFail /\ pc' = "dispatch" /\ ret' = -1
  /\ UNCHANGED <<turn, page, guests, lines>>

\* The running guest executes an instruction other than out.
GuestComputes ==
  /\ pc = "guest"
  /\ LET i == rip[current_vm]
     IN /\ i # "out"
        /\ rip' = [rip EXCEPT ![current_vm] =
                     IF i = "count" THEN "jmp" ELSE "out"]
        /\ ax' = [ax EXCEPT ![current_vm] =
                    CASE i = "xor" -> 0
                      [] i = "count" -> Count(current_vm, @)
                      [] i = "jmp" -> @]
  /\ UNCHANGED <<pc, turn, ret, page, lines>>

\* The out instruction: KVM_RUN returns, and KVM completes the instruction when
\* it is next entered at the same place; after a reset it starts over.
GuestOut ==
  /\ pc = "guest"
  /\ rip[current_vm] = "out"
  /\ exit_reason' = [exit_reason EXCEPT ![current_vm] = "IO"]
  /\ io_data' = [io_data EXCEPT ![current_vm] = ax[current_vm]]
  /\ rip' = [rip EXCEPT ![current_vm] = "count"]
  /\ ret' = 0
  /\ pc' = "dispatch"
  /\ UNCHANGED <<turn, ax, lines>>

\* A signal to the process, such as a stop and continue from the terminal.
Interrupted ==
  /\ pc = "guest"
  /\ exit_reason' = [exit_reason EXCEPT ![current_vm] = "INTR"]
  /\ ret' = -1
  /\ pc' = "dispatch"
  /\ UNCHANGED <<turn, io_data, guests, lines>>

Reason == exit_reason[current_vm]

DispatchIo ==
  /\ pc = "dispatch"
  /\ Reason = "IO"
  /\ last_vm' = current_vm
  /\ printed' = [printed EXCEPT ![current_vm] = io_data[current_vm]]
  /\ cvm' = Other(current_vm)
  /\ pc' = "check"
  /\ UNCHANGED <<current_vm, ret, page, guests>>

DispatchSame ==
  /\ pc = "dispatch"
  /\ Reason \in {"UNKNOWN", "INTR"}
  /\ pc' = "check"
  /\ UNCHANGED <<turn, ret, page, guests, lines>>

CheckRet ==
  /\ pc = "check"
  /\ pc' = IF ret < 0 /\ Reason # "INTR" THEN "exit1" ELSE "pick"
  /\ UNCHANGED <<turn, ret, page, guests, lines>>

Ended == Stopped /\ UNCHANGED vars

ControlStep ==
  \/ PickVm \/ EnterGuest \/ DispatchIo \/ DispatchSame \/ CheckRet

GuestStep == GuestComputes \/ GuestOut

Next == ControlStep \/ GuestStep \/ Interrupted \/ Ended

Spec == Init /\ [][Next]_vars

\* The control thread runs; a guest that is entered again and again executes its
\* few instructions up to out in the end (a signal from outside is a rare event);
\* KVM_RUN does not fail for one VM for ever.
FairSpec ==
  /\ Spec
  /\ WF_vars(ControlStep)
  /\ SF_vars(GuestComputes)
  /\ SF_vars(GuestOut)
  /\ \A v \in Vm : SF_vars(EnterGuest /\ current_vm = v /\ pc' = "guest")
-----------------------------------------------------------------------------
(***************************************************************************)
(* Properties.                                                             *)
(***************************************************************************)

EndOf(reason) == IF reason = "IO" THEN "io" ELSE "other"

Phase == IF pc = "guest" THEN "running"
         ELSE IF pc = "dispatch" THEN EndOf(Reason)
         ELSE "idle"

Turns == INSTANCE VmTurns
           WITH Share <- [v \in Vm |-> 1], MayFail <- RunMayFail, turn <- cvm,
                used <- [v \in Vm |-> 0], phase <- Phase, stopped <- Stopped,
                last <- [v \in Vm |-> EndOf(exit_reason[v])]

\* matrix-a.c runs only the VM that has the turn, and only I/O moves the turn.
ImplementsTurns == Turns!TurnSpec

=============================================================================
