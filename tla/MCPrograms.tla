----------------------------- MODULE MCPrograms -----------------------------
(***************************************************************************)
(* The small programs of the assignments for TLC: the soldiers and their   *)
(* drivers, simple-kvm, namespace_prog and the address translation driver. *)
(* One of them is started; the variables of the others keep their initial  *)
(* values.                                                                 *)
(***************************************************************************)
EXTENDS Soldiers

CONSTANTS
  Modes, Values, BadAddr, Strings, Slots, MaxExits,   \* SimpleKvm
  W, PAGE, Frames, Offsets                            \* PhysicalMemory

ASSUME KvmAssumption == Slots \in Nat

\* The frames of memory are in the lower half of the numbers, whose highest bit is NX.
ASSUME MemoryAssumption ==
  /\ PAGE \in Nat \ {0} /\ Frames \subseteq Nat /\ Offsets \subseteq 0..PAGE - 1
  /\ 2 ^ (W - 1) \in Nat /\ 2 ^ W = 2 * 2 ^ (W - 1)
  /\ \A f \in Frames : (f + 1) * PAGE <= 2 ^ (W - 1)

VARIABLES
  program,
  k_pc, k_mode, k_status, k_exit, k_numexit, k_numexit_in, k_numexit_out, k_str_ind, k_str1,
  k_seen, k_hva, k_mem400, k_rax, k_console, k_made, k_texts,
  n_parent, n_child1, n_child2, n_pipe, n_hostname, n_pid_ns, n_uts_ns_fd, n_saw,
  n_fork_failed,
  p_pc, p_vaddr, p_nx, p_pte, p_ram, p_swap, p_physical, p_shown, p_gone

kVars == <<k_pc, k_mode, k_status, k_exit, k_numexit, k_numexit_in, k_numexit_out,
           k_str_ind, k_str1, k_seen, k_hva, k_mem400, k_rax, k_console, k_made, k_texts>>
nVars == <<n_parent, n_child1, n_child2, n_pipe, n_hostname, n_pid_ns, n_uts_ns_fd, n_saw,
           n_fork_failed>>
pVars == <<p_pc, p_vaddr, p_nx, p_pte, p_ram, p_swap, p_physical, p_shown, p_gone>>
mcVars == <<program, vars, kVars, nVars, pVars>>

K == INSTANCE SimpleKvm
       WITH pc <- k_pc, mode <- k_mode, status <- k_status, exit <- k_exit,
            numexit <- k_numexit, numexit_in <- k_numexit_in, numexit_out <- k_numexit_out,
            str_ind <- k_str_ind, str1 <- k_str1, seen <- k_seen, hva <- k_hva,
            mem400 <- k_mem400, rax <- k_rax, console <- k_console, made <- k_made,
            texts <- k_texts

N == INSTANCE NamespaceProg
       WITH parent <- n_parent, child1 <- n_child1, child2 <- n_child2, pipe <- n_pipe,
            hostname <- n_hostname, pid_ns <- n_pid_ns, uts_ns_fd <- n_uts_ns_fd,
            saw <- n_saw, fork_failed <- n_fork_failed

P == INSTANCE PhysicalMemory
       WITH pc <- p_pc, vaddr <- p_vaddr, nx <- p_nx, pte <- p_pte, ram <- p_ram,
            swap <- p_swap, physical <- p_physical, shown <- p_shown, gone <- p_gone

\* What a program that is not started chooses at its beginning is not chosen.
MCInit ==
  /\ program \in {"run_dr_doom.sh", "simple-kvm.c", "namespace_prog.c", "user.c"}
  /\ Init /\ K!Init /\ N!Init /\ P!Init
  /\ program # "run_dr_doom.sh" => flags = {}
  /\ program # "simple-kvm.c" => k_mode = "real"
  /\ program # "user.c" => p_vaddr = 0 /\ p_nx

In(name, step) == program = name /\ step /\ UNCHANGED program

Doom(step) == In("run_dr_doom.sh", step /\ UNCHANGED <<kVars, nVars, pVars>>)
Kvm == In("simple-kvm.c", K!Next /\ UNCHANGED <<vars, nVars, pVars>>)
Namespaces(step) == In("namespace_prog.c", step /\ UNCHANGED <<vars, kVars, pVars>>)
User == In("user.c", P!Next /\ UNCHANGED <<vars, kVars, nVars>>)

MCNext == Doom(Next) \/ Kvm \/ Namespaces(N!Next) \/ User

\* The fairness of the programs, as their modules state it.
MCSpec ==
  /\ MCInit /\ [][MCNext]_mcVars
  /\ WF_mcVars(Doom(ScriptStep)) /\ WF_mcVars(Doom(StationStep))
  /\ \A s \in Soldier : WF_mcVars(Doom(SoldierStep(s)))
  /\ \A d \in Drivers : WF_mcVars(Doom(Registration(d)))
  /\ WF_mcVars(Namespaces(N!ParentStep))
  /\ WF_mcVars(Namespaces(N!Sethostname \/ N!Write))
  /\ WF_mcVars(Namespaces(N!Join \/ N!PrintHostname))

-----------------------------------------------------------------------------
\* The soldiers' state keeps its types, no soldier remains a zombie, and no script and no driver leaves anything behind: see
\* NoZombieLeft and LeavesNothing of Soldiers and NothingLeft of CharDriver.
NothingLeftBehind == TypeOK /\ NoZombieLeft /\ NothingLeft /\ LeavesNothing

\* The station stays, and hears of every soldier in the end: see Soldiers.
StationHears == StationStays /\ EverySoldierReported

\* What simple-kvm tells its guest, and returns: see SimpleKvm.
GuestIsToldTheTruth == K!GuestIsToldTheTruth /\ K!SuccessIs42

\* namespace_prog ends, with its second child in the namespaces of the first, and leaves no
\* process behind: see JoinedAndCleanedUp and ParentEnds of NamespaceProg.
NamespacesJoined ==
  /\ []N!JoinedAndCleanedUp
  /\ program = "namespace_prog.c" => N!ParentEnds

\* The driver writes where user.c means it to: see PhysicalMemory.
WritesItsOwnByte == P!WritesItsOwnByte
=============================================================================
