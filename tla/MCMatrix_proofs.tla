-------------------------- MODULE MCMatrix_proofs --------------------------
(***************************************************************************)
(* What the runs of MCMatrix show on small fractions, for all of them, all *)
(* exits the guests may cause and with or without failures: the charges of *)
(* matrix.c and the share of each VM in any of its rounds, and the turns   *)
(* of matrix.c, matrix-b.c and matrix-a.c.                                 *)
(***************************************************************************)
EXTENDS MCMatrix, FiniteSetTheorems, TLAPS

(***************************************************************************)
(* matrix.c, as MatrixFraction has it.                                     *)
(***************************************************************************)

\* The inductive invariant.
IInv == TypeOK /\ ChargedVmIsNext /\ NoLeftover

USE DEF Vm

LEMMA InitIInv == Init => IInv
<1> SUFFICES ASSUME Init PROVE IInv
  OBVIOUS
<1> USE DEF Init, LoopInit
<1>1. LoopTypeOK BY DEF LoopTypeOK, Reasons
<1>2. vm1timer \in 0 .. FRAC_A - 1 /\ vm2timer \in 0 .. FRAC_B - 1
  BY FracAssumption
<1>3. ChargedVmIsNext BY DEF ChargedVmIsNext
<1>4. NoLeftover BY DEF NoLeftover
<1> QED BY <1>1, <1>2, <1>3, <1>4 DEF IInv, TypeOK

\* The steps of the loop that move neither cvm nor the timers.
LEMMA LoopKeepsType == LoopTypeOK /\ LoopStep => LoopTypeOK'
<1> SUFFICES ASSUME LoopTypeOK, LoopStep PROVE LoopTypeOK'
  OBVIOUS
<1> USE DEF LoopTypeOK, runVars, sigVars, loopVars, Other
<1>1. CASE MaskTimer BY <1>1 DEF MaskTimer
<1>2. CASE ArmTimer BY <1>2 DEF ArmTimer
<1>3. CASE PickVm BY <1>3 DEF PickVm
<1>4. CASE UnblockBeforeRun BY <1>4 DEF UnblockBeforeRun, LetSignalsIn
<1>5. CASE EnterGuest BY <1>5 DEF EnterGuest
<1>6. CASE BlockAfterRun BY <1>6 DEF BlockAfterRun
<1>7. CASE DispatchSame BY <1>7 DEF DispatchSame
<1>8. CASE DispatchIo BY <1>8 DEF DispatchIo
<1>9. CASE DispatchStop BY <1>9 DEF DispatchStop
<1>10. CASE CheckRet BY <1>10 DEF CheckRet
<1>11. CASE UnblockAfterDispatch
  BY <1>11 DEF UnblockAfterDispatch, LetSignalsIn
<1>12. CASE GuestExit BY <1>12, ExitsAssumption DEF GuestExit
<1>13. CASE TickInGuest BY <1>13 DEF TickInGuest, Reasons
<1>14. CASE TickInControl BY <1>14 DEF TickInControl
<1>15. CASE Ended BY <1>15 DEF Ended
<1> QED
  BY <1>1, <1>2, <1>3, <1>4, <1>5, <1>6, <1>7, <1>8, <1>9, <1>10, <1>11,
     <1>12, <1>13, <1>14, <1>15 DEF LoopStep, ControlStep

LEMMA LoopKeepsIInv == IInv /\ LoopStep /\ UNCHANGED timers => IInv'
<1> SUFFICES ASSUME IInv, LoopStep, UNCHANGED timers PROVE IInv'
  OBVIOUS
<1>a. TypeOK'
  BY LoopKeepsType DEF IInv, TypeOK, timers
<1> USE DEF IInv, TypeOK, LoopTypeOK, ChargedVmIsNext, NoLeftover,
            runVars, sigVars, loopVars, timers
<1>1. CASE MaskTimer BY <1>a, <1>1 DEF MaskTimer
<1>2. CASE ArmTimer BY <1>a, <1>2 DEF ArmTimer
<1>3. CASE PickVm BY <1>a, <1>3 DEF PickVm
<1>4. CASE UnblockBeforeRun
  BY <1>a, <1>4 DEF UnblockBeforeRun, LetSignalsIn
<1>5. CASE EnterGuest BY <1>a, <1>5 DEF EnterGuest
<1>6. CASE BlockAfterRun BY <1>a, <1>6 DEF BlockAfterRun
<1>7. CASE DispatchSame BY <1>a, <1>7 DEF DispatchSame
<1>8. CASE DispatchIo BY <1>a, <1>8 DEF DispatchIo, Reason
<1>9. CASE DispatchStop BY <1>a, <1>9 DEF DispatchStop
<1>10. CASE CheckRet BY <1>a, <1>10 DEF CheckRet
<1>11. CASE UnblockAfterDispatch
  BY <1>a, <1>11 DEF UnblockAfterDispatch, LetSignalsIn
<1>12. CASE GuestExit BY <1>a, <1>12 DEF GuestExit
<1>13. CASE TickInGuest BY <1>a, <1>13 DEF TickInGuest
<1>14. CASE TickInControl BY <1>a, <1>14 DEF TickInControl
<1>15. CASE Ended BY <1>a, <1>15 DEF Ended
<1> QED
  BY <1>1, <1>2, <1>3, <1>4, <1>5, <1>6, <1>7, <1>8, <1>9, <1>10, <1>11,
     <1>12, <1>13, <1>14, <1>15 DEF LoopStep, ControlStep

LEMMA QuantumKeepsIInv == IInv /\ DispatchIntr => IInv'
<1> SUFFICES ASSUME IInv, DispatchIntr PROVE IInv'
  OBVIOUS
<1> USE FracAssumption
    DEF IInv, TypeOK, LoopTypeOK, ChargedVmIsNext, NoLeftover, sigVars, DispatchIntr
<1>1. CASE QuantumOfVm1 BY <1>1 DEF QuantumOfVm1
<1>2. CASE QuantumOfVm2 BY <1>2 DEF QuantumOfVm2
<1> QED BY <1>1, <1>2

LEMMA NextKeepsIInv == IInv /\ [Next]_vars => IInv'
<1> SUFFICES ASSUME IInv, [Next]_vars PROVE IInv'
  OBVIOUS
<1>1. CASE LoopStep /\ UNCHANGED timers BY <1>1, LoopKeepsIInv
<1>2. CASE DispatchIntr BY <1>2, QuantumKeepsIInv
<1>3. CASE UNCHANGED vars
  BY <1>3
  DEF vars, loopVars, timers, IInv, TypeOK, LoopTypeOK, ChargedVmIsNext,
      NoLeftover
<1> QED BY <1>1, <1>2, <1>3 DEF Next

LEMMA Invariance == Spec => []IInv
BY InitIInv, NextKeepsIInv, PTL DEF Spec

\* The types of matrix.c's loop, with the bound of each VM's quantum counter.
THEOREM TypeCorrect == Spec => []TypeOK
BY Invariance, PTL DEF IInv

\* matrix.c charges a quantum to the VM whose turn it is.
THEOREM ChargeCorrect == Spec => []ChargedVmIsNext
BY Invariance, PTL DEF IInv

\* As long as no VM of matrix.c has yielded by I/O, the one that is not to run
\* has no part of a share left over.
THEOREM ShareCorrect == Spec => []NoLeftover
BY Invariance, PTL DEF IInv
-----------------------------------------------------------------------------
(***************************************************************************)
(* The refinement of VmTurns.                                              *)
(***************************************************************************)

LEMMA InitTurns == Init => Turns!TurnInit
BY DEF Init, LoopInit, Turns!TurnInit, Used, Phase, Last, EndOf, Stopped, Turns!Vm

\* A step that moves none of what the abstract turns see.
LEMMA Stutter ==
  ASSUME UNCHANGED <<cvm, timers, current_vm, exit_reason>>,
         pc \in {"mask", "arm", "pick", "unblock", "enter", "check", "reopen"},
         pc' \in {"arm", "pick", "unblock", "enter", "check", "reopen"}
  PROVE  UNCHANGED Turns!turnVars
BY DEF Turns!turnVars, Used, Phase, Last, Stopped, timers

LEMMA StopTurn ==
  ASSUME UNCHANGED <<cvm, timers, exit_reason>>, ~Stopped, Phase \in {"idle", "other"},
         pc' \in {"returned", "exit1"}
  PROVE  Turns!Stop
BY DEF Turns!Stop, Used, Phase, Last, Stopped, timers

LEMMA ControlImplements ==
  ASSUME IInv, ControlStep, UNCHANGED timers
  PROVE  [Turns!TurnNext]_Turns!turnVars
<1> USE DEF runVars, sigVars
<1>1. CASE MaskTimer BY <1>1, Stutter DEF MaskTimer
<1>2. CASE ArmTimer
  <2>1. CASE pc' = "pick" BY <1>2, <2>1, Stutter DEF ArmTimer
  <2>2. CASE pc' = "exit1"
    BY <1>2, <2>2, StopTurn DEF ArmTimer, Phase, Stopped, Turns!TurnNext
  <2> QED BY <1>2, <2>1, <2>2 DEF ArmTimer
<1>3. CASE PickVm
  <2>1. CASE pc' = "unblock"
    BY <1>3, <2>1
    DEF PickVm, Turns!turnVars, Used, Phase, Last, Stopped, timers
  <2>2. CASE pc' = "exit1"
    BY <1>3, <2>2, StopTurn DEF PickVm, Phase, Stopped, Turns!TurnNext
  <2> QED BY <1>3, <2>1, <2>2 DEF PickVm
<1>4. CASE UnblockBeforeRun BY <1>4, Stutter DEF UnblockBeforeRun
<1>5. CASE EnterGuest
  <2>1. CASE pc' = "guest"
    <3>1. Turns!Run
      BY <1>5, <2>1
      DEF EnterGuest, Turns!Run, Used, Phase, Last, Stopped, timers
    <3> QED BY <3>1 DEF Turns!TurnNext
  <2>2. CASE pc' = "exited"
    <3>1. current_vm = cvm /\ cvm \in Vm /\ RunMayFail
      BY <1>5, <2>2
      DEF EnterGuest, IInv, ChargedVmIsNext, TypeOK, LoopTypeOK
    <3>2. Phase' = Last[cvm]
      BY <1>5, <2>2, <3>1 DEF EnterGuest, Phase, Last, Reason
    <3>3. Phase = "idle" /\ ~Stopped /\ UNCHANGED <<cvm, Used, Last, Stopped>>
      BY <1>5, <2>2 DEF EnterGuest, Used, Phase, Last, Stopped, timers
    <3>4. Turns!Fail BY <3>1, <3>2, <3>3 DEF Turns!Fail
    <3> QED BY <3>4 DEF Turns!TurnNext
  <2> QED BY <1>5, <2>1, <2>2 DEF EnterGuest
<1>6. CASE BlockAfterRun
  BY <1>6
  DEF BlockAfterRun, Turns!turnVars, Used, Phase, Last, Stopped, Reason, timers
<1>7. CASE DispatchSame
  <2>1. Turns!Resume
    BY <1>7
    DEF DispatchSame, Turns!Resume, Used, Phase, Last, EndOf, Stopped, Reason,
        timers
  <2> QED BY <2>1 DEF Turns!TurnNext
<1>8. CASE DispatchIo
  <2>1. Turns!Yield
    BY <1>8
    DEF DispatchIo, Turns!Yield, Used, Phase, Last, EndOf, Stopped, Reason, timers,
        Other, Turns!Other, IInv, ChargedVmIsNext
  <2> QED BY <2>1 DEF Turns!TurnNext
<1>9. CASE DispatchStop
  BY <1>9, StopTurn
  DEF DispatchStop, Phase, EndOf, Stopped, Reason, Turns!TurnNext
<1>10. CASE CheckRet
  <2>1. CASE pc' = "reopen" BY <1>10, <2>1, Stutter DEF CheckRet
  <2>2. CASE pc' = "exit1"
    BY <1>10, <2>2, StopTurn DEF CheckRet, Phase, Stopped, Turns!TurnNext
  <2> QED BY <1>10, <2>1, <2>2 DEF CheckRet
<1>11. CASE UnblockAfterDispatch
  BY <1>11, Stutter DEF UnblockAfterDispatch
<1> QED
  BY <1>1, <1>2, <1>3, <1>4, <1>5, <1>6, <1>7, <1>8, <1>9, <1>10, <1>11
  DEF ControlStep

LEMMA GuestImplements ==
  ASSUME IInv, GuestExit \/ TickInGuest, UNCHANGED timers
  PROVE  Turns!Leave
<1>1. Phase = "running" /\ Phase' = EndOf(Reason')
  BY DEF GuestExit, TickInGuest, Phase, EndOf, Reason
<1>2. EndOf(Reason') \in {"tick", "io", "other"}
  BY DEF EndOf
<1>3. UNCHANGED <<cvm, Used, Stopped>>
  BY DEF GuestExit, TickInGuest, Used, Stopped, timers
<1>4. Last' = [Last EXCEPT ![cvm] = Phase']
  <2>1. current_vm = cvm /\ current_vm' = cvm /\ cvm \in Vm
    BY DEF GuestExit, TickInGuest, IInv, ChargedVmIsNext, TypeOK, LoopTypeOK
  <2>2. PICK r : exit_reason' = [exit_reason EXCEPT ![cvm] = r]
    BY <2>1 DEF GuestExit, TickInGuest
  <2>3. exit_reason'[cvm] = r /\ Phase' = EndOf(r)
    BY <1>1, <2>1, <2>2 DEF IInv, TypeOK, LoopTypeOK, Reason
  <2>4. \A v \in Vm : exit_reason'[v] = IF v = cvm THEN r ELSE exit_reason[v]
    BY <2>1, <2>2 DEF IInv, TypeOK, LoopTypeOK
  <2>5. Last' = [v \in Vm |-> IF v = cvm THEN EndOf(r) ELSE Last[v]]
    BY <2>4 DEF Last
  <2> QED BY <2>3, <2>5 DEF Last
<1> QED BY <1>1, <1>2, <1>3, <1>4 DEF Turns!Leave

LEMMA TickImplements ==
  ASSUME TickInControl \/ Ended, UNCHANGED timers
  PROVE  UNCHANGED Turns!turnVars
BY DEF TickInControl, Ended, Turns!turnVars, Used, Phase, Last, Stopped, Reason,
       EndOf, timers, runVars, loopVars

\* Used is updated at the VM whose timer moves.
LEMMA UsedUpdate ==
  ASSUME NEW x, vm1timer' = vm1timer, vm2timer' = x
  PROVE  Used' = [Used EXCEPT ![2] = x]
<1> DEFINE f == [Used EXCEPT ![2] = x]
<1>1. Used' = [v \in Vm |-> IF v = 1 THEN vm1timer ELSE x]
  BY DEF Used
<1>2. f = [v \in Vm |-> IF v = 2 THEN x ELSE Used[v]]
  BY DEF Used
<1>3. \A v \in Vm : (IF v = 1 THEN vm1timer ELSE x)
                      = (IF v = 2 THEN x ELSE Used[v])
  BY DEF Used
<1> QED BY <1>1, <1>2, <1>3

LEMMA QuantumImplements ==
  ASSUME IInv, DispatchIntr
  PROVE  Turns!Charge
<1> USE DEF DispatchIntr, sigVars
<1>1. current_vm = cvm /\ cvm \in Vm
  BY DEF IInv, ChargedVmIsNext, TypeOK, LoopTypeOK
<1>2. Phase = "tick" /\ Phase' = "idle"
  BY DEF Phase, EndOf, Reason
<1>3. UNCHANGED <<Stopped, Last>>
  BY DEF Stopped, Last
<1>4. CASE QuantumOfVm1
  <2>1. cvm = 1 /\ Used[cvm] = vm1timer /\ Share[cvm] = FRAC_A
    BY <1>1, <1>4 DEF QuantumOfVm1, Used, Share
  <2>2. CASE vm1timer + 1 = FRAC_A
    <3>1. cvm' = Turns!Other(cvm)
      BY <1>4, <2>1, <2>2 DEF QuantumOfVm1, Turns!Other
    <3>2. Used' = [Used EXCEPT ![cvm] = 0]
      BY <1>4, <2>1, <2>2 DEF QuantumOfVm1, Used
    <3> QED BY <1>2, <1>3, <2>1, <2>2, <3>1, <3>2 DEF Turns!Charge
  <2>3. CASE vm1timer + 1 # FRAC_A
    <3>1. Used' = [Used EXCEPT ![cvm] = @ + 1]
      BY <1>4, <2>1, <2>3 DEF QuantumOfVm1, Used
    <3> QED
      BY <1>2, <1>3, <1>4, <2>1, <2>3, <3>1
      DEF QuantumOfVm1, Turns!Charge
  <2> QED BY <2>2, <2>3
<1>5. CASE QuantumOfVm2
  <2>1. cvm = 2 /\ Used[cvm] = vm2timer /\ Share[cvm] = FRAC_B
    BY <1>1, <1>5 DEF QuantumOfVm2, Used, Share
  <2>2. CASE vm2timer + 1 = FRAC_B
    <3>1. cvm' = Turns!Other(cvm)
      BY <1>5, <2>1, <2>2 DEF QuantumOfVm2, Turns!Other
    <3>2. Used' = [Used EXCEPT ![cvm] = 0]
      BY <1>5, <2>1, <2>2, UsedUpdate DEF QuantumOfVm2
    <3> QED BY <1>2, <1>3, <2>1, <2>2, <3>1, <3>2 DEF Turns!Charge
  <2>3. CASE vm2timer + 1 # FRAC_B
    <3>1. Used' = [Used EXCEPT ![cvm] = @ + 1]
      BY <1>5, <2>1, <2>3, UsedUpdate DEF QuantumOfVm2
    <3> QED
      BY <1>2, <1>3, <1>5, <2>1, <2>3, <3>1
      DEF QuantumOfVm2, Turns!Charge
  <2> QED BY <2>2, <2>3
<1> QED BY <1>4, <1>5

LEMMA NextImplements ==
  ASSUME IInv, [Next]_vars
  PROVE  [Turns!TurnNext]_Turns!turnVars
<1>1. CASE ControlStep /\ UNCHANGED timers BY <1>1, ControlImplements
<1>2. CASE (GuestExit \/ TickInGuest) /\ UNCHANGED timers
  BY <1>2, GuestImplements DEF Turns!TurnNext
<1>3. CASE (TickInControl \/ Ended) /\ UNCHANGED timers
  BY <1>3, TickImplements
<1>4. CASE DispatchIntr BY <1>4, QuantumImplements DEF Turns!TurnNext
<1>5. CASE UNCHANGED vars
  BY <1>5
  DEF vars, loopVars, timers, Turns!turnVars, Used, Phase, Last, Stopped,
      Reason, EndOf
<1> QED BY <1>1, <1>2, <1>3, <1>4, <1>5 DEF Next, LoopStep

\* matrix.c hands the processor over only by whole shares and by I/O, whatever
\* the fractions: it implements VmTurns.
THEOREM ImplementsVmTurns == Spec => ImplementsTurns
<1>1. IInv /\ [Next]_vars => [Turns!TurnNext]_Turns!turnVars
  BY NextImplements
<1> QED
  BY <1>1, InitTurns, Invariance, PTL
  DEF Spec, ImplementsTurns, Turns!TurnSpec

(***************************************************************************)
(* The window of matrix.c.                                                 *)
(***************************************************************************)

\* How many quanta of the present round have been charged.
Position == IF cvm = 1 THEN vm1timer ELSE FRAC_A + vm2timer

\* The place in its round of the quantum that is the i-th of the window.
Place(i) == LET d == Position - Len(window) + i - 1
            IN IF d < 0 THEN d + Round ELSE d

WindowInv ==
  /\ window \in Seq(Vm) /\ Len(window) <= Round
  /\ yielded => window = <<>>
  /\ \A i \in 1 .. Len(window) : window[i] = IF Place(i) < FRAC_A THEN 1 ELSE 2

MCInv == IInv /\ WindowInv

\* The counters and the turn say where in a round matrix.c is.
LEMMA PositionInRound ==
  ASSUME IInv
  PROVE  /\ Position \in 0 .. Round - 1 /\ Round \in Nat
         /\ Position < FRAC_A <=> cvm = 1
  BY FracAssumption DEF IInv, TypeOK, LoopTypeOK, Position, Round

\* What is left of a sequence that was appended to and made no longer than Round.
LEMMA SlideSeq ==
  ASSUME NEW s \in Seq(Vm), NEW v \in Vm, Len(s) <= Round, Round \in Nat \ {0}
  PROVE  LET t == Slide(s, v)
             gone == IF Len(s) = Round THEN 1 ELSE 0
         IN  /\ t \in Seq(Vm) /\ Len(t) = Len(s) + 1 - gone
             /\ \A i \in 1 .. Len(t) : t[i] = IF i = Len(t) THEN v ELSE s[i + gone]
<1> DEFINE u == Append(s, v)
<1>1. u \in Seq(Vm) /\ Len(u) = Len(s) + 1
      /\ \A i \in 1 .. Len(u) : u[i] = IF i = Len(s) + 1 THEN v ELSE s[i]
  OBVIOUS
<1> HIDE DEF u
<1>2. CASE Len(s) = Round
  <2>1. Slide(s, v) = Tail(u)
    BY <1>1, <1>2 DEF Slide, u
  <2>2. Tail(u) \in Seq(Vm) /\ Len(Tail(u)) = Len(s)
    BY <1>1
  <2>3. \A i \in 1 .. Len(s) : Tail(u)[i] = u[i + 1]
    BY <1>1
  <2> QED
    BY <1>1, <1>2, <2>1, <2>2, <2>3
<1>3. CASE Len(s) # Round
  <2>1. Slide(s, v) = u
    BY <1>1, <1>3 DEF Slide, u
  <2> QED
    BY <1>1, <1>3, <2>1
<1> QED
  BY <1>2, <1>3

\* A quantum moves the position on by one, or back to the beginning of a round.
LEMMA QuantumMoves ==
  ASSUME IInv, DispatchIntr, ~yielded
  PROVE  /\ Position' = IF Position + 1 = Round THEN 0 ELSE Position + 1
         /\ current_vm = cvm
         /\ ~yielded'
<1>1. current_vm = cvm /\ cvm \in Vm
  BY DEF IInv, ChargedVmIsNext, TypeOK, LoopTypeOK, DispatchIntr
<1> USE FracAssumption DEF DispatchIntr, IInv, TypeOK, LoopTypeOK, NoLeftover, Position, Round
<1>2. CASE QuantumOfVm1
  BY <1>1, <1>2 DEF QuantumOfVm1
<1>3. CASE QuantumOfVm2
  <2>0. cvm = 2
    BY <1>1, <1>3 DEF QuantumOfVm2, Vm
  <2>1. cvm = 2 /\ vm1timer = 0 /\ Position = FRAC_A + vm2timer
    BY <2>0
  <2>2. CASE vm2timer + 1 = FRAC_B
    BY <1>1, <1>3, <2>1, <2>2 DEF QuantumOfVm2
  <2>3. CASE vm2timer + 1 # FRAC_B
    BY <1>1, <1>3, <2>1, <2>3 DEF QuantumOfVm2
  <2> QED
    BY <2>2, <2>3
<1> QED
  BY <1>1, <1>2, <1>3

\* An empty window shows nothing.
LEMMA EmptyWindow == ASSUME window' = <<>> PROVE WindowInv'
<1>1. Len(window') = 0 /\ window' \in Seq(Vm) /\ Round \in Nat
  BY FracAssumption DEF Round
<1> QED
  BY <1>1 DEF WindowInv, Round

LEMMA QuantumKeepsWindow ==
  ASSUME MCInv, Quantum
  PROVE  WindowInv'
<1>1. CASE yielded
  <2>1. window' = <<>> /\ yielded'
    BY <1>1 DEF Quantum, DispatchIntr
  <2> QED
    BY <2>1, EmptyWindow
<1>2. CASE ~yielded
  <2>1. /\ Position' = IF Position + 1 = Round THEN 0 ELSE Position + 1
        /\ current_vm = cvm /\ ~yielded' /\ window' = Slide(window, cvm)
    BY <1>2, QuantumMoves DEF MCInv, Quantum
  <2>2. Position \in 0 .. Round - 1 /\ Round \in Nat \ {0} /\ (Position < FRAC_A <=> cvm = 1)
    BY PositionInRound, FracAssumption DEF MCInv, Round
  <2>3. window \in Seq(Vm) /\ Len(window) <= Round /\ cvm \in Vm
    BY DEF MCInv, WindowInv, IInv, TypeOK, LoopTypeOK
  <2> DEFINE gone == IF Len(window) = Round THEN 1 ELSE 0
  <2>4. /\ window' \in Seq(Vm) /\ Len(window') = Len(window) + 1 - gone
        /\ \A i \in 1 .. Len(window') :
             window'[i] = IF i = Len(window') THEN cvm ELSE window[i + gone]
    BY <2>1, <2>2, <2>3, SlideSeq
  <2>5. ASSUME NEW i \in 1 .. Len(window')
        PROVE  window'[i] = IF Place(i)' < FRAC_A THEN 1 ELSE 2
    <3> DEFINE p == Position
               q == Position'
               L == Len(window)
               M == Len(window')
    <3>1. Place(i)' = LET d == q - M + i - 1 IN IF d < 0 THEN d + Round ELSE d
      BY DEF Place, Round
    <3>2. Place(i + gone) = LET d == p - L + i + gone - 1 IN IF d < 0 THEN d + Round ELSE d
      BY <2>3, <2>4, PositionInRound, FracAssumption DEF Place, MCInv
    <3>3. /\ p \in Int /\ p >= 0 /\ p < Round /\ L \in Nat /\ L <= Round /\ M = L + 1 - gone
          /\ q = IF p + 1 = Round THEN 0 ELSE p + 1
          /\ Round \in Nat /\ i \in Nat /\ i <= M /\ i > 0 /\ gone \in {0, 1} /\ (gone = 1 <=> L = Round)
      BY <2>1, <2>2, <2>3, <2>4
    <3> HIDE DEF p, q, L, M, gone
    <3>4. CASE i = M
      <4>1. Place(i)' = p
        <5>1. CASE q = 0
          BY <3>1, <3>3, <3>4, <5>1
        <5>2. CASE q = p + 1
          BY <3>1, <3>3, <3>4, <5>2
        <5> QED
          BY <3>3, <5>1, <5>2
      <4>2. window'[i] = cvm
        BY <2>4, <3>4 DEF M
      <4> QED
        BY <2>2, <2>3, <4>1, <4>2 DEF p, Vm
    <3>5. CASE i # M
      <4>1. i + gone \in 1 .. L
        BY <3>3, <3>5
      <4>2. window[i + gone] = IF Place(i + gone) < FRAC_A THEN 1 ELSE 2
        BY <4>1 DEF MCInv, WindowInv, L
      <4>3. Place(i)' = Place(i + gone)
        <5>1. CASE q = 0
          BY <3>1, <3>2, <3>3, <3>5, <5>1
        <5>2. CASE q = p + 1
          BY <3>1, <3>2, <3>3, <3>5, <5>2
        <5> QED
          BY <3>3, <5>1, <5>2
      <4>4. window'[i] = window[i + gone]
        BY <2>4, <3>5 DEF M
      <4> QED
        BY <4>2, <4>3, <4>4
    <3> QED
      BY <3>4, <3>5
  <2> QED
    BY <2>1, <2>2, <2>3, <2>4, <2>5 DEF WindowInv, Round
<1> QED
  BY <1>1, <1>2

\* The other steps of the loop leave the turn where it is, unless a VM yields.
LEMMA LoopMoves ==
  ASSUME LoopStep, ~yielded'
  PROVE  UNCHANGED cvm /\ ~yielded
  BY DEF LoopStep, ControlStep, MaskTimer, ArmTimer, PickVm, UnblockBeforeRun, EnterGuest,
         BlockAfterRun, DispatchSame, DispatchIo, DispatchStop, CheckRet,
         UnblockAfterDispatch, GuestExit, TickInGuest, TickInControl, Ended, runVars,
         sigVars, loopVars

LEMMA LoopKeepsWindow ==
  ASSUME MCInv, Loop
  PROVE  WindowInv'
<1>1. CASE yielded'
  <2>1. window' = <<>>
    BY <1>1 DEF Loop
  <2> QED
    BY <2>1, EmptyWindow
<1>2. CASE ~yielded'
  <2>1. UNCHANGED <<cvm, vm1timer, vm2timer, window>>
    BY <1>2, LoopMoves DEF Loop, timers
  <2> QED
    BY <1>2, <2>1 DEF MCInv, WindowInv, Place, Position, Round
<1> QED
  BY <1>1, <1>2

LEMMA InitMCInv == MCInit => MCInv
<1>1. MCInit => IInv
  BY InitIInv DEF MCInit
<1>2. MCInit => WindowInv
  BY FracAssumption DEF MCInit, WindowInv, Round
<1> QED
  BY <1>1, <1>2 DEF MCInv

LEMMA NextKeepsMCInv == MCInv /\ [MCNext]_mcVars => MCInv'
<1> SUFFICES ASSUME MCInv, [MCNext]_mcVars PROVE MCInv'
  OBVIOUS
<1>1. CASE Quantum
  <2>1. [Next]_vars
    BY <1>1 DEF Quantum, Next
  <2> QED
    BY <1>1, <2>1, QuantumKeepsWindow, NextKeepsIInv DEF MCInv
<1>2. CASE Loop
  <2>1. [Next]_vars
    BY <1>2 DEF Loop, Next
  <2> QED
    BY <1>2, <2>1, LoopKeepsWindow, NextKeepsIInv DEF MCInv
<1>3. CASE UNCHANGED cVars
  <2>1. [Next]_vars
    BY <1>3 DEF cVars
  <2>2. UNCHANGED <<cvm, yielded, vm1timer, vm2timer, window>>
    BY <1>3 DEF cVars, vars, loopVars, timers
  <2>3. WindowInv'
    BY <2>2 DEF MCInv, WindowInv, Place, Position, Round
  <2> QED
    BY <2>1, <2>3, NextKeepsIInv DEF MCInv
<1> QED
  BY <1>1, <1>2, <1>3 DEF MCNext, Fraction, QuantumB, YieldA, In, mcVars

\* In a full window the quanta of vm1 are two intervals, together FRAC_A long.
LEMMA WindowCounts ==
  ASSUME MCInv
  PROVE  SevenOfTen
<1> SUFFICES ASSUME Len(window) = Round
             PROVE  Cardinality({i \in 1 .. Round : window[i] = 1}) = FRAC_A
  BY DEF SevenOfTen
<1> DEFINE p == Position
           S == 1 .. FRAC_A - p
           T == Round - p + 1 .. IF p < FRAC_A THEN Round ELSE Round + FRAC_A - p
<1>1. /\ p \in 0 .. Round - 1 /\ Round \in Nat /\ Round = FRAC_A + FRAC_B
      /\ FRAC_A \in Nat \ {0} /\ FRAC_B \in Nat \ {0}
  BY PositionInRound, FracAssumption DEF MCInv, Round
<1>2. \A i \in 1 .. Round : window[i] = 1 <=> Place(i) < FRAC_A
  BY DEF MCInv, WindowInv
<1>3. \A i \in 1 .. Round : Place(i) = IF p - Round + i - 1 < 0 THEN p + i - 1 ELSE p - Round + i - 1
  BY <1>1 DEF Place
<1> HIDE DEF p
<1>4. {i \in 1 .. Round : window[i] = 1} = S \cup T
  <2>1. ASSUME NEW i \in 1 .. Round
        PROVE  window[i] = 1 <=> i \in S \/ i \in T
    BY <1>1, <1>2, <1>3
  <2>2. S \subseteq 1 .. Round /\ T \subseteq 1 .. Round
    BY <1>1
  <2> QED
    BY <2>1, <2>2
<1>a. FRAC_A - p \in Int /\ Round - p + 1 \in Int
      /\ (IF p < FRAC_A THEN Round ELSE Round + FRAC_A - p) \in Int
  BY <1>1
<1>b. IsFiniteSet(S) /\ IsFiniteSet(T)
  BY <1>a, FS_Interval
<1>c. S \cap T = {}
  BY <1>1
<1>5. IsFiniteSet(S) /\ IsFiniteSet(T) /\ S \cap T = {}
  BY <1>b, <1>c
<1>6. Cardinality(S \cup T) = Cardinality(S) + Cardinality(T)
  <2>1. Cardinality(S \cup T) = Cardinality(S) + Cardinality(T) - Cardinality(S \cap T)
    BY <1>5, FS_Union
  <2>2. Cardinality(S \cap T) = 0
    BY <1>5, FS_EmptySet
  <2>3. Cardinality(S) \in Nat /\ Cardinality(T) \in Nat
    BY <1>5, FS_CardinalityType
  <2> QED
    BY <2>1, <2>2, <2>3
<1> DEFINE from == Round - p + 1
           to == IF p < FRAC_A THEN Round ELSE Round + FRAC_A - p
<1>t. Cardinality(T) = IF from > to THEN 0 ELSE to - from + 1
  BY <1>a, FS_Interval
<1>7. Cardinality(S) = IF 1 > FRAC_A - p THEN 0 ELSE FRAC_A - p
  BY <1>1, FS_Interval
<1>8. CASE p < FRAC_A
  <2>1. Cardinality(T) = p
    BY <1>1, <1>8, <1>t
  <2> QED
    <3>1. Cardinality(S) + Cardinality(T) = FRAC_A
      BY <1>1, <1>7, <1>8, <2>1
    <3> QED
      BY <1>4, <1>6, <3>1
<1>9. CASE p >= FRAC_A
  <2>1. Cardinality(T) = FRAC_A
    BY <1>1, <1>9, <1>t
  <2> QED
    <3>1. Cardinality(S) + Cardinality(T) = FRAC_A
      BY <1>1, <1>7, <1>9, <2>1
    <3> QED
      BY <1>4, <1>6, <3>1
<1> QED
  BY <1>1, <1>8, <1>9

\* Of any FRAC_A + FRAC_B quanta of matrix.c in a row, vm1 is charged exactly FRAC_A, for all
\* fractions, wherever the count starts, as long as no VM does I/O.
THEOREM ShareOfTen == MCSpec => []SevenOfTen
<1>1. MCSpec => []MCInv
  BY InitMCInv, NextKeepsMCInv, PTL DEF MCSpec
<1>2. MCInv => SevenOfTen
  BY WindowCounts
<1> QED
  BY <1>1, <1>2, PTL
-----------------------------------------------------------------------------
(***************************************************************************)
(* The turns of matrix-b.c.                                                *)
(***************************************************************************)

\* Types, and that from the head of the loop to the switch the VM that runs is the next one.
BInv ==
  /\ B!LoopTypeOK
  /\ b_pc \in {"unblock", "enter", "guest", "exited", "dispatch"} => b_current_vm = b_cvm

LEMMA InitB == B!Init => BInv
<1> SUFFICES ASSUME B!Init PROVE BInv
  OBVIOUS
<1> USE DEF B!Init, B!LoopInit
<1>1. B!LoopTypeOK
  BY DEF B!LoopTypeOK, B!Reasons, B!Vm
<1> QED
  BY <1>1 DEF BInv

LEMMA NextKeepsBInv == BInv /\ [B!Next]_bVars => BInv'
<1> SUFFICES ASSUME BInv, [B!Next]_bVars PROVE BInv'
  OBVIOUS
<1> USE DEF BInv, B!LoopTypeOK, B!Vm, B!Other, B!runVars, B!sigVars, B!loopVars
<1>1. CASE B!MaskTimer BY <1>1 DEF B!MaskTimer
<1>2. CASE B!ArmTimer BY <1>2 DEF B!ArmTimer
<1>3. CASE B!PickVm BY <1>3 DEF B!PickVm
<1>4. CASE B!UnblockBeforeRun BY <1>4 DEF B!UnblockBeforeRun, B!LetSignalsIn
<1>5. CASE B!EnterGuest BY <1>5 DEF B!EnterGuest
<1>6. CASE B!BlockAfterRun BY <1>6 DEF B!BlockAfterRun
<1>7. CASE B!DispatchSame BY <1>7 DEF B!DispatchSame
<1>8. CASE B!DispatchIo BY <1>8 DEF B!DispatchIo
<1>9. CASE B!DispatchStop BY <1>9 DEF B!DispatchStop
<1>10. CASE B!CheckRet BY <1>10 DEF B!CheckRet
<1>11. CASE B!UnblockAfterDispatch BY <1>11 DEF B!UnblockAfterDispatch, B!LetSignalsIn
<1>12. CASE B!GuestExit BY <1>12, ExitsAssumption DEF B!GuestExit, B!Reasons, Reasons
<1>13. CASE B!TickInGuest BY <1>13 DEF B!TickInGuest, B!Reasons
<1>14. CASE B!TickInControl BY <1>14 DEF B!TickInControl
<1>15. CASE B!Ended BY <1>15 DEF B!Ended
<1>16. CASE B!DispatchIntr BY <1>16 DEF B!DispatchIntr
<1>17. CASE UNCHANGED bVars BY <1>17 DEF bVars
<1> QED
  BY <1>1, <1>2, <1>3, <1>4, <1>5, <1>6, <1>7, <1>8, <1>9, <1>10, <1>11, <1>12, <1>13,
     <1>14, <1>15, <1>16, <1>17 DEF B!Next, B!LoopStep, B!ControlStep

\* The program's exit is Stop.
LEMMA StopTurnB ==
  ASSUME UNCHANGED <<b_cvm, b_exit_reason>>, ~B!Stopped, B!Phase \in {"idle", "other"},
         b_pc' \in {"returned", "exit1"}
  PROVE  B!Turns!Stop
BY DEF B!Turns!Stop, B!Phase, B!Last, B!Stopped

LEMMA ControlImplementsB ==
  ASSUME BInv, B!ControlStep
  PROVE  [B!Turns!TurnNext]_B!Turns!turnVars
<1> USE DEF B!runVars, B!sigVars
<1> DEFINE Quiet == UNCHANGED <<b_cvm, b_exit_reason>> /\ UNCHANGED <<B!Phase, B!Stopped>>
<1>s. Quiet => UNCHANGED B!Turns!turnVars
  BY DEF B!Turns!turnVars, B!Last
<1>1. CASE B!MaskTimer
  BY <1>1, <1>s DEF B!MaskTimer, B!Phase, B!Stopped
<1>2. CASE B!ArmTimer
  <2>1. CASE b_pc' = "pick"
    BY <1>2, <2>1, <1>s DEF B!ArmTimer, B!Phase, B!Stopped
  <2>2. CASE b_pc' = "exit1"
    BY <1>2, <2>2, StopTurnB DEF B!ArmTimer, B!Phase, B!Stopped, B!Turns!TurnNext
  <2> QED
    BY <1>2, <2>1, <2>2 DEF B!ArmTimer
<1>3. CASE B!PickVm
  <2>1. CASE b_pc' = "unblock"
    BY <1>3, <2>1, <1>s DEF B!PickVm, B!Phase, B!Stopped
  <2>2. CASE b_pc' = "exit1"
    BY <1>3, <2>2, StopTurnB DEF B!PickVm, B!Phase, B!Stopped, B!Turns!TurnNext
  <2> QED
    BY <1>3, <2>1, <2>2 DEF B!PickVm
<1>4. CASE B!UnblockBeforeRun
  BY <1>4, <1>s DEF B!UnblockBeforeRun, B!Phase, B!Stopped
<1>5. CASE B!EnterGuest
  <2>1. CASE b_pc' = "guest"
    <3>1. B!Turns!Run
      BY <1>5, <2>1 DEF B!EnterGuest, B!Turns!Run, B!Phase, B!Last, B!Stopped
    <3> QED
      BY <3>1 DEF B!Turns!TurnNext
  <2>2. CASE b_pc' = "exited"
    <3>1. b_current_vm = b_cvm /\ b_cvm \in B!Vm /\ RunMayFail
      BY <1>5, <2>2 DEF B!EnterGuest, BInv, B!LoopTypeOK
    <3>2. B!Phase' = B!Last[b_cvm]
      BY <1>5, <2>2, <3>1 DEF B!EnterGuest, B!Phase, B!Last, B!Reason
    <3>3. B!Phase = "idle" /\ ~B!Stopped /\ UNCHANGED <<b_cvm, B!Last, B!Stopped>>
      BY <1>5, <2>2 DEF B!EnterGuest, B!Phase, B!Last, B!Stopped
    <3>4. B!Turns!Fail
      BY <3>1, <3>2, <3>3 DEF B!Turns!Fail
    <3> QED
      BY <3>4 DEF B!Turns!TurnNext
  <2> QED
    BY <1>5, <2>1, <2>2 DEF B!EnterGuest
<1>6. CASE B!BlockAfterRun
  BY <1>6, <1>s DEF B!BlockAfterRun, B!Phase, B!Stopped, B!Reason
<1>7. CASE B!DispatchSame
  <2>1. B!Turns!Resume
    BY <1>7 DEF B!DispatchSame, B!Turns!Resume, B!Phase, B!Last, B!EndOf, B!Stopped, B!Reason
  <2> QED
    BY <2>1 DEF B!Turns!TurnNext
<1>8. CASE B!DispatchIo
  <2>1. B!Turns!Yield
    BY <1>8 DEF B!DispatchIo, B!Turns!Yield, B!Phase, B!Last, B!EndOf, B!Stopped, B!Reason,
                B!Other, B!Turns!Other, BInv
  <2> QED
    BY <2>1 DEF B!Turns!TurnNext
<1>9. CASE B!DispatchStop
  BY <1>9, StopTurnB DEF B!DispatchStop, B!Phase, B!EndOf, B!Stopped, B!Reason, B!Turns!TurnNext
<1>10. CASE B!CheckRet
  <2>1. CASE b_pc' = "reopen"
    BY <1>10, <2>1, <1>s DEF B!CheckRet, B!Phase, B!Stopped
  <2>2. CASE b_pc' = "exit1"
    BY <1>10, <2>2, StopTurnB DEF B!CheckRet, B!Phase, B!Stopped, B!Turns!TurnNext
  <2> QED
    BY <1>10, <2>1, <2>2 DEF B!CheckRet
<1>11. CASE B!UnblockAfterDispatch
  BY <1>11, <1>s DEF B!UnblockAfterDispatch, B!Phase, B!Stopped
<1> QED
  BY <1>1, <1>2, <1>3, <1>4, <1>5, <1>6, <1>7, <1>8, <1>9, <1>10, <1>11 DEF B!ControlStep

LEMMA GuestImplementsB ==
  ASSUME BInv, B!GuestExit \/ B!TickInGuest
  PROVE  B!Turns!Leave
<1>1. B!Phase = "running" /\ B!Phase' = B!EndOf(B!Reason')
  BY DEF B!GuestExit, B!TickInGuest, B!Phase, B!EndOf, B!Reason
<1>2. B!EndOf(B!Reason') \in {"tick", "io", "other"}
  BY DEF B!EndOf
<1>3. UNCHANGED <<b_cvm, B!Stopped>>
  BY DEF B!GuestExit, B!TickInGuest, B!Stopped
<1>4. B!Last' = [B!Last EXCEPT ![b_cvm] = B!Phase']
  <2>1. b_current_vm = b_cvm /\ b_current_vm' = b_cvm /\ b_cvm \in B!Vm
    BY DEF B!GuestExit, B!TickInGuest, BInv, B!LoopTypeOK
  <2>2. PICK r : b_exit_reason' = [b_exit_reason EXCEPT ![b_cvm] = r]
    BY <2>1 DEF B!GuestExit, B!TickInGuest
  <2>3. b_exit_reason'[b_cvm] = r /\ B!Phase' = B!EndOf(r)
    BY <1>1, <2>1, <2>2 DEF BInv, B!LoopTypeOK, B!Reason
  <2>4. \A v \in B!Vm : b_exit_reason'[v] = IF v = b_cvm THEN r ELSE b_exit_reason[v]
    BY <2>1, <2>2 DEF BInv, B!LoopTypeOK
  <2>5. B!Last' = [v \in B!Vm |-> IF v = b_cvm THEN B!EndOf(r) ELSE B!Last[v]]
    BY <2>4 DEF B!Last
  <2> QED
    BY <2>3, <2>5 DEF B!Last
<1> QED
  BY <1>1, <1>2, <1>3, <1>4 DEF B!Turns!Leave

\* Every INTR exit is the whole share of one quantum.
LEMMA QuantumImplementsB ==
  ASSUME BInv, B!DispatchIntr
  PROVE  B!Turns!Charge
<1> DEFINE zeros == [v \in B!Vm |-> 0]
           ones == [v \in B!Vm |-> 1]
<1>1. b_current_vm = b_cvm /\ b_cvm \in B!Vm
  BY DEF BInv, B!LoopTypeOK, B!DispatchIntr
<1>2. B!Phase = "tick" /\ B!Phase' = "idle" /\ UNCHANGED <<B!Stopped, B!Last>>
  BY DEF B!DispatchIntr, B!Phase, B!EndOf, B!Reason, B!Stopped, B!Last, B!sigVars
<1>3. b_cvm' = B!Turns!Other(b_cvm)
  BY <1>1 DEF B!DispatchIntr, B!Other, B!Turns!Other
<1>4. zeros[b_cvm] + 1 = ones[b_cvm] /\ zeros = [zeros EXCEPT ![b_cvm] = 0]
  BY <1>1
<1> QED
  BY <1>2, <1>3, <1>4 DEF B!Turns!Charge

LEMMA NextImplementsB ==
  ASSUME BInv, [B!Next]_bVars
  PROVE  [B!Turns!TurnNext]_B!Turns!turnVars
<1>1. CASE B!ControlStep BY <1>1, ControlImplementsB
<1>2. CASE B!GuestExit \/ B!TickInGuest BY <1>2, GuestImplementsB DEF B!Turns!TurnNext
<1>3. CASE B!TickInControl \/ B!Ended
  BY <1>3 DEF B!TickInControl, B!Ended, B!Turns!turnVars, B!Phase, B!Last, B!Stopped, B!Reason,
              B!EndOf, B!runVars, B!loopVars
<1>4. CASE B!DispatchIntr BY <1>4, QuantumImplementsB DEF B!Turns!TurnNext
<1>5. CASE UNCHANGED bVars
  BY <1>5 DEF bVars, B!Turns!turnVars, B!Phase, B!Last, B!Stopped, B!Reason, B!EndOf
<1> QED
  BY <1>1, <1>2, <1>3, <1>4, <1>5 DEF B!Next, B!LoopStep

LEMMA InitTurnsB == B!Init => B!Turns!TurnInit
BY DEF B!Init, B!LoopInit, B!Turns!TurnInit, B!Phase, B!Last, B!EndOf, B!Stopped, B!Turns!Vm, B!Vm
-----------------------------------------------------------------------------
(***************************************************************************)
(* The turns of matrix-a.c.                                                *)
(***************************************************************************)

\* Types, and that the VM that runs is the next one.
AInv ==
  /\ a_pc \in {"pick", "enter", "guest", "dispatch", "check", "returned", "exit1"}
  /\ a_cvm \in A!Vm /\ a_current_vm \in A!Vm
  /\ a_exit_reason \in [A!Vm -> {"UNKNOWN", "IO", "INTR"}]
  /\ a_pc \in {"enter", "guest", "dispatch"} => a_current_vm = a_cvm

LEMMA InitA == A!Init => AInv
BY DEF A!Init, AInv, A!Vm

LEMMA NextKeepsAInv == AInv /\ [A!Next]_aVars => AInv'
<1> SUFFICES ASSUME AInv, [A!Next]_aVars PROVE AInv'
  OBVIOUS
<1> USE DEF AInv, A!Vm, A!Other, A!turn, A!page, A!guests, A!lines
<1>1. CASE A!PickVm BY <1>1 DEF A!PickVm
<1>2. CASE A!EnterGuest BY <1>2 DEF A!EnterGuest
<1>3. CASE A!GuestComputes BY <1>3 DEF A!GuestComputes
<1>4. CASE A!GuestOut BY <1>4 DEF A!GuestOut
<1>5. CASE A!Interrupted BY <1>5 DEF A!Interrupted
<1>6. CASE A!DispatchIo BY <1>6 DEF A!DispatchIo
<1>7. CASE A!DispatchSame BY <1>7 DEF A!DispatchSame
<1>8. CASE A!CheckRet BY <1>8 DEF A!CheckRet
<1>9. CASE A!Ended \/ UNCHANGED aVars BY <1>9 DEF A!Ended, A!vars, aVars
<1> QED
  BY <1>1, <1>2, <1>3, <1>4, <1>5, <1>6, <1>7, <1>8, <1>9
  DEF A!Next, A!ControlStep, A!GuestStep

\* The guest leaves for the reason in its page.
LEMMA LeaveA ==
  ASSUME AInv, a_pc = "guest", a_pc' = "dispatch", UNCHANGED <<a_cvm, a_current_vm>>,
         NEW r, a_exit_reason' = [a_exit_reason EXCEPT ![a_current_vm] = r]
  PROVE  A!Turns!Leave
<1>1. a_current_vm = a_cvm /\ a_cvm \in A!Vm
  BY DEF AInv
<1>2. a_exit_reason'[a_cvm] = r
  BY <1>1 DEF AInv
<1>3. A!Phase = "running" /\ A!Phase' = A!EndOf(r) /\ UNCHANGED A!Stopped
  BY <1>1, <1>2 DEF A!Phase, A!Reason, A!Stopped
<1> DEFINE last == [v \in A!Vm |-> A!EndOf(a_exit_reason[v])]
<1>4. last' = [last EXCEPT ![a_cvm] = A!EndOf(r)]
  <2>1. \A v \in A!Vm : a_exit_reason'[v] = IF v = a_cvm THEN r ELSE a_exit_reason[v]
    BY <1>1 DEF AInv
  <2>2. last' = [v \in A!Vm |-> IF v = a_cvm THEN A!EndOf(r) ELSE last[v]]
    BY <2>1
  <2> QED
    BY <2>2
<1>5. A!EndOf(r) \in {"tick", "io", "other"}
  BY DEF A!EndOf
<1> QED
  BY <1>3, <1>4, <1>5 DEF A!Turns!Leave

LEMMA StopTurnA ==
  ASSUME UNCHANGED <<a_cvm, a_exit_reason>>, a_pc \in {"pick", "check"}, a_pc' = "exit1"
  PROVE  A!Turns!Stop
BY DEF A!Turns!Stop, A!Phase, A!Stopped

LEMMA NextImplementsA ==
  ASSUME AInv, [A!Next]_aVars
  PROVE  [A!Turns!TurnNext]_A!Turns!turnVars
<1> USE DEF A!turn, A!page, A!guests, A!lines
<1>s. UNCHANGED <<a_cvm, a_exit_reason>> /\ UNCHANGED <<A!Phase, A!Stopped>>
        => UNCHANGED A!Turns!turnVars
  BY DEF A!Turns!turnVars
<1>1. CASE A!PickVm
  <2>1. CASE a_pc' = "enter"
    BY <1>1, <2>1, <1>s DEF A!PickVm, A!Phase, A!Stopped
  <2>2. CASE a_pc' = "exit1"
    BY <1>1, <2>2, StopTurnA DEF A!PickVm, A!Turns!TurnNext
  <2> QED
    BY <1>1, <2>1, <2>2 DEF A!PickVm
<1>2. CASE A!EnterGuest
  <2>1. CASE a_pc' = "guest"
    <3>1. A!Turns!Run
      BY <1>2, <2>1 DEF A!EnterGuest, A!Turns!Run, A!Phase, A!Stopped
    <3> QED
      BY <3>1 DEF A!Turns!TurnNext
  <2>2. CASE a_pc' = "dispatch"
    <3>1. a_current_vm = a_cvm /\ a_cvm \in A!Vm /\ RunMayFail
      BY <1>2, <2>2 DEF A!EnterGuest, AInv
    <3> DEFINE last == [v \in A!Vm |-> A!EndOf(a_exit_reason[v])]
    <3>2. A!Phase' = last[a_cvm] /\ UNCHANGED last
      BY <1>2, <2>2, <3>1 DEF A!EnterGuest, A!Phase, A!Reason
    <3>3. A!Phase = "idle" /\ ~A!Stopped /\ UNCHANGED <<a_cvm, A!Stopped>>
      BY <1>2, <2>2 DEF A!EnterGuest, A!Phase, A!Stopped
    <3>4. A!Turns!Fail
      BY <3>1, <3>2, <3>3 DEF A!Turns!Fail
    <3> QED
      BY <3>4 DEF A!Turns!TurnNext
  <2> QED
    BY <1>2, <2>1, <2>2 DEF A!EnterGuest
<1>3. CASE A!GuestComputes
  BY <1>3, <1>s DEF A!GuestComputes, A!Phase, A!Stopped, A!Reason
<1>4. CASE A!GuestOut
  BY <1>4, LeaveA DEF A!GuestOut, A!Turns!TurnNext
<1>5. CASE A!Interrupted
  BY <1>5, LeaveA DEF A!Interrupted, A!Turns!TurnNext
<1>6. CASE A!DispatchIo
  <2>1. A!Turns!Yield
    BY <1>6 DEF A!DispatchIo, A!Turns!Yield, A!Phase, A!EndOf, A!Stopped, A!Reason, A!Other,
                A!Turns!Other, AInv
  <2> QED
    BY <2>1 DEF A!Turns!TurnNext
<1>7. CASE A!DispatchSame
  <2>1. A!Turns!Resume
    BY <1>7 DEF A!DispatchSame, A!Turns!Resume, A!Phase, A!EndOf, A!Stopped, A!Reason
  <2> QED
    BY <2>1 DEF A!Turns!TurnNext
<1>8. CASE A!CheckRet
  <2>1. CASE a_pc' = "pick"
    BY <1>8, <2>1, <1>s DEF A!CheckRet, A!Phase, A!Stopped
  <2>2. CASE a_pc' = "exit1"
    BY <1>8, <2>2, StopTurnA DEF A!CheckRet, A!Turns!TurnNext
  <2> QED
    BY <1>8, <2>1, <2>2 DEF A!CheckRet
<1>9. CASE A!Ended \/ UNCHANGED aVars
  BY <1>9, <1>s DEF A!Ended, A!vars, aVars, A!Phase, A!Stopped, A!Reason
<1> QED
  BY <1>1, <1>2, <1>3, <1>4, <1>5, <1>6, <1>7, <1>8, <1>9
  DEF A!Next, A!ControlStep, A!GuestStep

LEMMA InitTurnsA == A!Init => A!Turns!TurnInit
BY DEF A!Init, A!Turns!TurnInit, A!Phase, A!EndOf, A!Stopped, A!Turns!Vm, A!Vm

\* A step of the three programs is a step of each, or leaves it alone.
LEMMA StepOfEach ==
  ASSUME [MCNext]_mcVars
  PROVE  [B!Next]_bVars /\ [A!Next]_aVars
BY DEF MCNext, Fraction, QuantumB, YieldA, In, mcVars

\* matrix-b.c hands the processor over after every quantum and at every I/O, matrix-a.c at I/O
\* only, whatever the guests do and whatever fails: both implement VmTurns.
THEOREM OthersImplementVmTurns == MCSpec => OthersImplementTurns
<1>1. MCInit => BInv /\ AInv /\ B!Turns!TurnInit /\ A!Turns!TurnInit
  BY InitB, InitA, InitTurnsB, InitTurnsA DEF MCInit
<1>2. (BInv /\ AInv) /\ [MCNext]_mcVars => (BInv /\ AInv)'
  BY StepOfEach, NextKeepsBInv, NextKeepsAInv
<1>3. (BInv /\ AInv) /\ [MCNext]_mcVars
        => [B!Turns!TurnNext]_B!Turns!turnVars /\ [A!Turns!TurnNext]_A!Turns!turnVars
  BY StepOfEach, NextImplementsB, NextImplementsA
<1> QED
  BY <1>1, <1>2, <1>3, PTL
  DEF MCSpec, OthersImplementTurns, B!ImplementsTurns, A!ImplementsTurns, B!Turns!TurnSpec,
      A!Turns!TurnSpec
=============================================================================
