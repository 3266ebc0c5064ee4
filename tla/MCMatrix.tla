------------------------------ MODULE MCMatrix ------------------------------
(***************************************************************************)
(* The three two-VM hypervisors for TLC.  One of them is started; the      *)
(* variables of the others keep their initial values.  For matrix.c a      *)
(* history of the VMs the last FRAC_A + FRAC_B quanta were charged to, up  *)
(* to the first I/O, is kept beside the specification.                     *)
(***************************************************************************)
EXTENDS MatrixFraction, Sequences, FiniteSets

CONSTANT AX_WIDTH

VARIABLES
  program,  \* which of matrix.c, matrix-b.c, matrix-a.c was started
  window,   \* the VMs charged for the last Round quanta, oldest first
  b_pc, b_cvm, b_current_vm, b_ret, b_exit_reason, b_blocked, b_armed, b_pending, b_yielded,
  a_pc, a_cvm, a_current_vm, a_ret, a_exit_reason, a_io_data, a_rip, a_ax, a_last_vm,
  a_printed

bVars == <<b_pc, b_cvm, b_current_vm, b_ret, b_exit_reason, b_blocked, b_armed, b_pending,
           b_yielded>>
aVars == <<a_pc, a_cvm, a_current_vm, a_ret, a_exit_reason, a_io_data, a_rip, a_ax,
           a_last_vm, a_printed>>
cVars == <<vars, window>>
mcVars == <<program, aVars, bVars, cVars>>

B == INSTANCE MatrixQuantum
       WITH pc <- b_pc, cvm <- b_cvm, current_vm <- b_current_vm, ret <- b_ret,
            exit_reason <- b_exit_reason, blocked <- b_blocked, armed <- b_armed,
            pending <- b_pending, yielded <- b_yielded

A == INSTANCE MatrixYield
       WITH pc <- a_pc, cvm <- a_cvm, current_vm <- a_current_vm, ret <- a_ret,
            exit_reason <- a_exit_reason, io_data <- a_io_data, rip <- a_rip, ax <- a_ax,
            last_vm <- a_last_vm, printed <- a_printed

Round == FRAC_A + FRAC_B

MCInit ==
  /\ program \in {"matrix.c", "matrix-b.c", "matrix-a.c"}
  /\ Init /\ window = <<>>
  /\ B!Init
  /\ A!Init

Slide(seq, v) == LET s == Append(seq, v)
                 IN IF Len(s) > Round THEN Tail(s) ELSE s

Quantum ==
  DispatchIntr /\ window' = IF yielded THEN <<>> ELSE Slide(window, current_vm)
Loop ==
  LoopStep /\ UNCHANGED timers /\ window' = IF yielded' THEN <<>> ELSE window

In(name, step) == program = name /\ step /\ UNCHANGED program

Fraction(step) == In("matrix.c", (Quantum \/ Loop) /\ step /\ UNCHANGED <<aVars, bVars>>)
QuantumB(step) == In("matrix-b.c", step /\ UNCHANGED <<aVars, cVars>>)
YieldA(step) == In("matrix-a.c", step /\ UNCHANGED <<bVars, cVars>>)

MCNext == Fraction(TRUE) \/ QuantumB(B!Next) \/ YieldA(A!Next)

\* The fairness of each program, as its module states it.
FairFraction ==
  /\ WF_mcVars(Fraction(ControlStep \/ DispatchIntr))
  /\ SF_mcVars(Fraction(TickInGuest))
  /\ \A v \in Vm : SF_mcVars(Fraction(Enters(v)))
FairQuantum ==
  /\ WF_mcVars(QuantumB(B!ControlStep \/ B!DispatchIntr))
  /\ SF_mcVars(QuantumB(B!TickInGuest))
  /\ \A v \in Vm : SF_mcVars(QuantumB(B!Enters(v)))
FairYield ==
  /\ WF_mcVars(YieldA(A!ControlStep))
  /\ SF_mcVars(YieldA(A!GuestComputes))
  /\ SF_mcVars(YieldA(A!GuestOut))
  /\ \A v \in Vm : SF_mcVars(YieldA(A!EnterGuest /\ a_current_vm = v /\ a_pc' = "guest"))

MCSpec == MCInit /\ [][MCNext]_mcVars /\ FairFraction /\ FairQuantum /\ FairYield

\* "schedules vm1 seven times and vm2 three times out of ten time-quantum": of
\* any FRAC_A + FRAC_B successive quanta of matrix.c, wherever the count starts, vm1
\* has been charged exactly FRAC_A, as long as no VM does I/O.
SevenOfTen ==
  Len(window) = Round =>
    Cardinality({i \in 1 .. Round : window[i] = 1}) = FRAC_A

\* matrix-b.c and matrix-a.c implement turns of one quantum, and turns by I/O.
OthersImplementTurns == B!ImplementsTurns /\ A!ImplementsTurns

\* While the hypervisor runs, both VMs get into KVM_RUN again and again; in matrix-a.c
\* each gets far enough to print.
EachVmRuns ==
  \A v \in Vm :
    /\ []<>(program = "matrix.c" => Stopped \/ (pc = "guest" /\ current_vm = v))
    /\ []<>(program = "matrix-b.c" => B!Stopped \/ (b_pc = "guest" /\ b_current_vm = v))
    /\ []<>(program = "matrix-a.c" => A!Stopped \/ a_last_vm = v)
=============================================================================
