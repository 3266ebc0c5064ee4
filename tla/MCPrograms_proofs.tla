-------------------------- MODULE MCPrograms_proofs --------------------------
(***************************************************************************)
(* What the small programs of the assignments promise, whichever of them   *)
(* is started, for any number of soldiers and drivers, any guest of        *)
(* simple-kvm, any memory, and with whoever may fail or be killed failing  *)
(* or killed at any point.  Each part has an invariant of one program and  *)
(* what its steps, and those of the others, do to it.                      *)
(***************************************************************************)
EXTENDS MCPrograms, FiniteSetTheorems, NaturalsInduction, WellFoundedInduction, TLAPS

-----------------------------------------------------------------------------
(***************************************************************************)
(* user.c and its driver.                                                  *)
(***************************************************************************)

\* A number is split into its page and its place in the page in one way only.
LEMMA Split ==
  ASSUME NEW f \in Nat, NEW d \in Nat \ {0}, NEW r \in 0..d - 1
  PROVE  (f * d + r) \div d = f /\ (f * d + r) % d = r
<1> DEFINE n == f * d + r
<1>1. f * d \in Nat
  OBVIOUS
<1>2. n \in Nat
  BY <1>1
<1> QED
  OBVIOUS

\* The bit that PAGE_MASK leaves is taken away by the overflow.
LEMMA NxBitGoes ==
  ASSUME NEW h \in Nat, NEW n \in Nat, n < h
  PROVE  (n + h + h) % (2 * h) = n
OBVIOUS

\* Where the page and its byte are, as long as it is data and has not moved between the calls:
\* no other frame has been written to, and what was written follows the page.
MemoryInv ==
  /\ p_pc \in {"open", "assign", "get", "write", "verify", "done", "oops"}
  /\ p_vaddr \in Offsets /\ p_nx \in BOOLEAN /\ p_gone \in BOOLEAN
  /\ p_pte \in Frames \cup {P!None}
  /\ DOMAIN p_ram = Frames
  /\ p_pc \in {"open", "assign"} => p_pte = P!None /\ p_shown = 0
  /\ p_pc \in {"get", "write", "verify"} => p_shown = 0
  /\ p_pc \in {"open", "assign", "get", "write"} =>
       \A f \in Frames : f # p_pte => p_ram[f] = P!Others
  /\ p_nx /\ ~p_gone =>
       /\ p_pc # "oops"
       /\ p_pc = "write" =>
            p_pte # P!None /\ p_physical = p_pte * PAGE + p_vaddr
       /\ p_pc \in {"verify", "done"} => \A f \in Frames : f # p_pte => p_ram[f] = P!Others
       /\ p_pc = "verify" => IF p_pte = P!None THEN p_swap = 5 ELSE p_ram[p_pte] = 5
       /\ p_pc = "done" => p_shown \in {0, 5}

LEMMA NoneIsNoFrame == P!None \notin Frames
BY MemoryAssumption DEF P!None

\* What the translation returns for a page of data that is in memory.
LEMMA Translation ==
  ASSUME NEW f \in Frames, p_pte = f, p_nx, p_vaddr \in Offsets
  PROVE  P!get_physical_address = f * PAGE + p_vaddr
<1> DEFINE h == 2 ^ (W - 1)
           n == f * PAGE + p_vaddr
<1>1. h \in Nat /\ 2 ^ W = 2 * h
  BY MemoryAssumption
<1>2. f \in Nat /\ PAGE \in Nat /\ p_vaddr \in 0..PAGE - 1 /\ (f + 1) * PAGE <= h
  BY MemoryAssumption
<1>3. f * PAGE \in Nat
  BY <1>2
<1>4. (f + 1) * PAGE = f * PAGE + PAGE
  BY <1>2
<1>5. n \in Nat /\ n < h
  BY <1>1, <1>2, <1>3, <1>4
<1>6. p_pte # P!None
  BY NoneIsNoFrame
<1>7. P!get_physical_address = (f * PAGE + h + p_vaddr + h) % (2 * h)
  BY <1>1, <1>6 DEF P!get_physical_address, P!pte_val, P!TOP
<1>8. f * PAGE + h + p_vaddr + h = n + h + h
  BY <1>1, <1>2, <1>3
<1> QED
  BY <1>1, <1>5, <1>7, <1>8, NxBitGoes

LEMMA MemoryInitially == P!Init => MemoryInv
BY NoneIsNoFrame DEF P!Init, MemoryInv

LEMMA MemorySteps ==
  ASSUME MemoryInv, P!Next
  PROVE  MemoryInv'
<1> USE NoneIsNoFrame
<1>1. CASE P!Open
  BY <1>1 DEF MemoryInv, P!Open, P!None, P!Others
<1>2. CASE P!Assign
  BY <1>2 DEF MemoryInv, P!Assign, P!Resident, P!None, P!Others
<1>3. CASE P!Get
  <2>1. p_nx /\ ~p_gone' => p_physical' = p_pte * PAGE + p_vaddr
    BY <1>3, Translation DEF MemoryInv, P!Get
  <2> QED
    BY <1>3, <2>1 DEF MemoryInv, P!Get, P!None, P!Others
<1>4. CASE P!Write
  <2> DEFINE f == p_physical \div PAGE
  <2>1. ASSUME p_nx, ~p_gone
        PROVE  f = p_pte /\ p_physical % PAGE = p_vaddr /\ p_pte \in Frames
    <3>1. p_pte \in Frames /\ p_physical = p_pte * PAGE + p_vaddr
      BY <1>4, <2>1 DEF MemoryInv, P!Write
    <3>2. p_vaddr \in 0..PAGE - 1 /\ p_pte \in Nat /\ PAGE \in Nat \ {0}
      BY <3>1, MemoryAssumption DEF MemoryInv
    <3> QED
      BY <3>1, <3>2, Split
  <2> HIDE DEF f
  <2>2. /\ p_pc = "write" /\ UNCHANGED <<p_vaddr, p_nx, p_pte, p_swap, p_physical, p_shown, p_gone>>
        /\ IF f \in Frames
           THEN /\ p_pc' = "verify"
                /\ p_ram' = IF p_physical % PAGE = p_vaddr THEN [p_ram EXCEPT ![f] = 5] ELSE p_ram
           ELSE p_pc' = "oops" /\ UNCHANGED p_ram
    BY <1>4 DEF P!Write, f
  <2> QED
    BY <2>1, <2>2 DEF MemoryInv
<1>5. CASE P!Verify
  BY <1>5 DEF MemoryInv, P!Verify, P!Resident
<1>6. CASE P!Reclaim
  BY <1>6 DEF MemoryInv, P!Reclaim
<1> QED
  BY <1>1, <1>2, <1>3, <1>4, <1>5, <1>6 DEF P!Next

LEMMA MemorySuffices == MemoryInv => WritesItsOwnByte
BY DEF MemoryInv, WritesItsOwnByte, P!WritesItsOwnByte

-----------------------------------------------------------------------------
\* The driver writes where user.c means it to, in a memory of any size with pages of any size.
THEOREM OwnByte == MCSpec => []WritesItsOwnByte
<1>1. MCInit => MemoryInv
  BY MemoryInitially DEF MCInit
<1>2. MemoryInv /\ [MCNext]_mcVars => MemoryInv'
  <2> SUFFICES ASSUME MemoryInv, [MCNext]_mcVars PROVE MemoryInv'
    OBVIOUS
  <2>1. CASE User
    BY <2>1, MemorySteps DEF User, In
  <2>2. CASE UNCHANGED pVars
    BY <2>2 DEF MemoryInv, pVars
  <2> QED
    BY <2>1, <2>2 DEF MCNext, mcVars, Doom, Kvm, Namespaces, In
<1> QED
  BY <1>1, <1>2, MemorySuffices, PTL DEF MCSpec

-----------------------------------------------------------------------------
(***************************************************************************)
(* namespace_prog.                                                         *)
(***************************************************************************)

\* child1 can still write to the pipe until it has set its hostname and written, or is gone.
PipeInv ==
  /\ DOMAIN n_pipe = {"byte", "writers"}
  /\ n_child1 \in {"start", "write"} => "child1" \in n_pipe.writers
  /\ n_child1 \in {"none", "start", "write", "sleep", "zombie", "reaped"}
  /\ n_child1 \in {"write", "sleep"} \/ n_pipe.byte => n_hostname.new = "Child1Hostname"
  /\ DOMAIN n_hostname = {"host", "new"}

\* How far the parent is, and what it has read, joined and waited for.
ParentInv ==
  /\ n_parent \in {"pipe", "clone"} => n_child1 = "none"
  /\ n_parent \in {"open", "setns", "fork"} /\ N!Alive(n_child1) =>
       n_hostname.new = "Child1Hostname"
  /\ n_parent \in {"close", "read", "open", "setns", "fork", "wait", "kill", "wait2"} =>
       n_child1 # "none"
  /\ n_parent \in {"fork", "wait", "kill", "wait2", "returned"} => n_pid_ns = "new"
  /\ n_child2 \in {"none", "start", "print", "zombie", "reaped"}
  /\ n_child2 # "none" =>
       n_parent \in {"wait", "kill", "wait2", "returned"} /\ n_hostname.new = "Child1Hostname"
  /\ n_parent \in {"kill", "wait2", "returned"} => n_child2 \in {"none", "reaped"}
  /\ n_parent = "wait2" => ~N!Alive(n_child1)
  /\ n_parent = "returned" => n_child1 = "reaped"

NamespaceInv ==
  /\ PipeInv /\ ParentInv
  /\ n_saw # N!Nothing => n_saw = [pid |-> 2, hostname |-> "Child1Hostname"]

LEMMA NamespaceInitially == N!Init => NamespaceInv
BY DEF N!Init, NamespaceInv, PipeInv, ParentInv, N!Alive, N!Nothing

LEMMA NamespaceSteps ==
  ASSUME NamespaceInv, N!Next
  PROVE  NamespaceInv'
<1> USE DEF NamespaceInv, PipeInv, ParentInv, N!Alive
<1>1. CASE N!Pipe
  BY <1>1 DEF N!Pipe, N!errExit
<1>2. CASE N!Clone
  BY <1>2 DEF N!Clone, N!errExit, N!Without
<1>3. CASE N!CloseEnd
  BY <1>3 DEF N!CloseEnd, N!Without
<1>4. CASE N!Read
  BY <1>4 DEF N!Read
<1>5. CASE N!Open
  BY <1>5 DEF N!Open, N!errExit
<1>6. CASE N!Setns
  BY <1>6 DEF N!Setns, N!errExit
<1>7. CASE N!Fork
  BY <1>7 DEF N!Fork
<1>8. CASE N!Wait
  BY <1>8 DEF N!Wait, N!WaitFor
<1>9. CASE N!Kill
  BY <1>9 DEF N!Kill, N!NamespaceDies, N!Without
<1>10. CASE N!Wait2
  BY <1>10 DEF N!Wait2, N!WaitFor
<1>11. CASE N!Sethostname
  BY <1>11 DEF N!Sethostname, N!Without
<1>12. CASE N!Write
  BY <1>12 DEF N!Write
<1>13. CASE N!Join
  BY <1>13 DEF N!Join
<1>14. CASE N!PrintHostname
  BY <1>14 DEF N!PrintHostname
<1>15. CASE N!Killed
  BY <1>15 DEF N!Killed, N!NamespaceDies, N!Without
<1> QED
  BY <1>1, <1>2, <1>3, <1>4, <1>5, <1>6, <1>7, <1>8, <1>9, <1>10, <1>11, <1>12, <1>13, <1>14,
     <1>15 DEF N!Next, N!ParentStep, N!ChildStep

LEMMA NamespaceSuffices == NamespaceInv => N!JoinedAndCleanedUp
BY DEF NamespaceInv, ParentInv, N!JoinedAndCleanedUp

-----------------------------------------------------------------------------
\* The second child is in the namespaces of the first whenever it prints, and both are gone and
\* waited for when the parent returns: the part of NamespacesJoined that says what never happens.
THEOREM Joined == MCSpec => []N!JoinedAndCleanedUp
<1>1. MCInit => NamespaceInv
  BY NamespaceInitially DEF MCInit
<1>2. NamespaceInv /\ [MCNext]_mcVars => NamespaceInv'
  <2> SUFFICES ASSUME NamespaceInv, [MCNext]_mcVars PROVE NamespaceInv'
    OBVIOUS
  <2>1. CASE Namespaces(N!Next)
    BY <2>1, NamespaceSteps DEF Namespaces, In
  <2>2. CASE UNCHANGED nVars
    BY <2>2 DEF NamespaceInv, PipeInv, ParentInv, N!Alive, nVars
  <2> QED
    BY <2>1, <2>2 DEF MCNext, mcVars, Doom, Kvm, User, In
<1> QED
  BY <1>1, <1>2, NamespaceSuffices, PTL DEF MCSpec

-----------------------------------------------------------------------------
(***************************************************************************)
(* simple-kvm and its guest.                                               *)
(***************************************************************************)

Kinds == {"in", "out"}
Count(m, kind) == Cardinality({i \in DOMAIN m : m[i] = kind})

\* Of the first n calls, what the last reading one was told is its number.
LastRead(n) ==
  \A i \in 1..n :
    k_made[i] = "in" /\ (\A k \in i + 1..n : k_made[k] = "out") => k_seen = i

\* The hypervisor has counted the calls that the guest has made.
Settled ==
  /\ k_numexit = Len(k_made) /\ LastRead(Len(k_made))
  /\ k_numexit_in = Count(k_made, "in") /\ k_numexit_out = Count(k_made, "out")
  /\ k_str1 = k_texts

\* The guest has made a call that the hypervisor has not counted yet.
Asked ==
  /\ Len(k_made) = k_numexit + 1 /\ LastRead(k_numexit)
  /\ IF k_exit.port = "0xEB"
     THEN /\ k_made[k_numexit + 1] = "in"
          /\ Count(k_made, "in") = k_numexit_in + 1 /\ Count(k_made, "out") = k_numexit_out
     ELSE /\ k_made[k_numexit + 1] = "out"
          /\ Count(k_made, "in") = k_numexit_in /\ Count(k_made, "out") = k_numexit_out + 1
  /\ IF k_exit.port = "0xED"
     THEN /\ k_exit.value \in 0..Slots - 1
          /\ k_texts = [k_str1 EXCEPT ![k_exit.value] = <<k_numexit_in, k_numexit_out + 1>>]
     ELSE k_texts = k_str1

KvmTyped ==
  /\ k_made \in Seq(Kinds)
  /\ k_numexit \in Nat /\ k_numexit_in \in Nat /\ k_numexit_out \in Nat /\ k_str_ind \in Nat
  /\ DOMAIN k_str1 = 0..Slots - 1 /\ DOMAIN k_texts = 0..Slots - 1

KvmInv ==
  /\ KvmTyped
  /\ k_pc \notin {"exit", "check", "done"} => Settled
  /\ k_pc = "exit" /\ k_exit.reason = "io" => Asked
  /\ k_pc = "check" => k_exit.reason = "hlt"
  /\ k_pc # "done" => k_status = "none"
  /\ K!SuccessIs42

\* The set-up calls are none of the other places.
LEMMA SetUpCallsAreCalls ==
  ASSUME NEW i \in DOMAIN K!SetUpCalls
  PROVE  /\ K!SetUpCalls[i] \notin {"guest", "exit", "check", "done"}
         /\ i # Len(K!SetUpCalls) => i + 1 \in DOMAIN K!SetUpCalls
<1> DEFINE S == {"dev", "version", "create_vm", "tss", "mem", "region", "create_vcpu",
                 "mmap_size", "mmap_run", "get_sregs", "set_sregs", "set_regs"}
<1>1. K!vm_init \in Seq(S) /\ K!vcpu_init \in Seq(S) /\ K!run_mode \in Seq(S)
  BY DEF K!vm_init, K!vcpu_init, K!run_mode
<1> HIDE DEF S
<1>2. K!SetUpCalls \in Seq(S)
  BY <1>1 DEF K!SetUpCalls
<1>3. K!SetUpCalls[i] \in S /\ (i # Len(K!SetUpCalls) => i + 1 \in DOMAIN K!SetUpCalls)
  BY <1>2
<1> QED
  BY <1>3 DEF S

LEMMA CountOne ==
  ASSUME NEW m \in Seq(Kinds), NEW e \in Kinds, NEW kind \in Kinds
  PROVE  /\ Count(m, kind) \in Nat
         /\ Count(Append(m, e), kind) = Count(m, kind) + (IF e = kind THEN 1 ELSE 0)
<1> DEFINE S == {i \in DOMAIN m : m[i] = kind}
           n == Len(m)
<1>1. S \subseteq 1..n /\ n \in Nat
  OBVIOUS
<1>2. IsFiniteSet(1..n)
  BY <1>1, FS_Interval
<1>3. IsFiniteSet(S)
  BY <1>1, <1>2, FS_Subset
<1>4. {i \in DOMAIN Append(m, e) : Append(m, e)[i] = kind}
        = IF e = kind THEN S \cup {n + 1} ELSE S
  OBVIOUS
<1>5. n + 1 \notin S
  BY <1>1
<1>6. Cardinality(S) \in Nat
  BY <1>3, FS_CardinalityType
<1>7. Cardinality(S \cup {n + 1}) = Cardinality(S) + 1
  BY <1>3, <1>5, FS_AddElement
<1>8. Count(m, kind) = Cardinality(S)
  BY DEF Count
<1>9. Count(Append(m, e), kind) = Cardinality(IF e = kind THEN S \cup {n + 1} ELSE S)
  BY <1>4 DEF Count
<1> HIDE DEF S
<1> QED
  BY <1>6, <1>7, <1>8, <1>9

LEMMA KvmInitially == K!Init => KvmInv
<1> SUFFICES ASSUME K!Init PROVE KvmInv
  OBVIOUS
<1>1. KvmTyped
  BY KvmAssumption DEF K!Init, KvmTyped
<1>2. \A kind : Count(<<>>, kind) = 0
  <2>1. TAKE kind
  <2>2. {i \in DOMAIN <<>> : <<>>[i] = kind} = {}
    OBVIOUS
  <2> QED
    BY <2>2, FS_EmptySet DEF Count
<1>3. Settled
  BY <1>2 DEF K!Init, Settled, LastRead
<1> QED
  BY <1>1, <1>3 DEF K!Init, KvmInv, K!SuccessIs42

\* A call of the guest, e in its direction, on that port.
LEMMA CallIsMade ==
  ASSUME KvmInv, NEW e \in Kinds, NEW port, NEW value, K!Traps("io", port, value),
         k_made' = Append(k_made, e), e = "in" <=> port = "0xEB",
         k_seen' = k_seen, k_str1' = k_str1, DOMAIN k_texts' = 0..Slots - 1, k_str_ind' \in Nat,
         IF port = "0xED"
         THEN /\ value \in 0..Slots - 1
              /\ k_texts' = [k_str1 EXCEPT ![value] =
                               <<Count(k_made', "in"), Count(k_made', "out")>>]
         ELSE k_texts' = k_texts
  PROVE  KvmInv'
<1>1. KvmTyped /\ Settled /\ k_status = "none"
  BY DEF KvmInv, K!Traps
<1>2. /\ k_pc' = "exit" /\ k_status' = k_status
      /\ k_exit' = [reason |-> "io", port |-> port, value |-> value]
      /\ UNCHANGED <<k_numexit, k_numexit_in, k_numexit_out>>
  BY DEF K!Traps, K!counts
<1>3. KvmTyped'
  BY <1>1, <1>2 DEF KvmTyped
<1>4. /\ Len(k_made') = k_numexit + 1 /\ k_made'[k_numexit + 1] = e
      /\ \A i \in 1..k_numexit : k_made'[i] = k_made[i]
  BY <1>1 DEF KvmTyped, Settled
<1>5. LastRead(k_numexit)'
  <2>1. LastRead(k_numexit) /\ k_numexit \in Nat
    BY <1>1 DEF Settled, KvmTyped
  <2> QED
    BY <1>2, <1>4, <2>1 DEF LastRead
<1>6. /\ Count(k_made', "in") = k_numexit_in + (IF e = "in" THEN 1 ELSE 0)
      /\ Count(k_made', "out") = k_numexit_out + (IF e = "out" THEN 1 ELSE 0)
  BY <1>1, CountOne DEF Kinds, KvmTyped, Settled
<1>7. IF port = "0xEB"
      THEN /\ k_made'[k_numexit + 1] = "in"
           /\ Count(k_made', "in") = k_numexit_in + 1 /\ Count(k_made', "out") = k_numexit_out
      ELSE /\ k_made'[k_numexit + 1] = "out"
           /\ Count(k_made', "in") = k_numexit_in /\ Count(k_made', "out") = k_numexit_out + 1
  <2>1. CASE port = "0xEB"
    BY <2>1, <1>1, <1>4, <1>6 DEF KvmTyped
  <2>2. CASE port # "0xEB"
    BY <2>2, <1>1, <1>4, <1>6 DEF KvmTyped, Kinds
  <2> QED
    BY <2>1, <2>2
<1>8. IF port = "0xED"
      THEN /\ value \in 0..Slots - 1
           /\ k_texts' = [k_str1' EXCEPT ![value] = <<k_numexit_in', k_numexit_out' + 1>>]
      ELSE k_texts' = k_str1'
  BY <1>1, <1>2, <1>7 DEF Settled
<1>9. Asked'
  BY <1>2, <1>4, <1>5, <1>7, <1>8 DEF Asked
<1> QED
  BY <1>1, <1>2, <1>3, <1>9 DEF KvmInv, K!SuccessIs42

\* run_vm answers a call and lets the guest go on.
LEMMA CallIsAnswered ==
  ASSUME KvmInv, k_pc = "exit", k_exit.reason = "io", K!Resume, k_numexit' = k_numexit + 1,
         IF k_exit.port = "0xEB"
         THEN /\ k_seen' = k_numexit + 1
              /\ k_numexit_in' = k_numexit_in + 1 /\ k_numexit_out' = k_numexit_out
         ELSE /\ k_seen' = k_seen
              /\ k_numexit_in' = k_numexit_in /\ k_numexit_out' = k_numexit_out + 1,
         k_str1' = IF k_exit.port = "0xED"
                   THEN [k_str1 EXCEPT ![k_exit.value] = <<k_numexit_in, k_numexit_out + 1>>]
                   ELSE k_str1,
         k_str_ind' = k_str_ind
  PROVE  KvmInv'
<1>1. KvmTyped /\ Asked /\ k_status = "none"
  BY DEF KvmInv
<1>2. k_pc' = "guest" /\ UNCHANGED <<k_mode, k_status, k_made, k_texts>>
  BY DEF K!Resume
<1>3. k_numexit \in Nat /\ k_made \in Seq(Kinds) /\ Len(k_made) = k_numexit + 1
      /\ LastRead(k_numexit)
  BY <1>1 DEF KvmTyped, Asked
<1>4. k_str1' = k_texts'
  BY <1>1, <1>2 DEF Asked
<1>5. KvmTyped'
  BY <1>1, <1>2, <1>4 DEF KvmTyped
<1>6. LastRead(k_numexit)'
  <2>1. CASE k_exit.port = "0xEB"
    <3>1. k_made[k_numexit + 1] = "in" /\ k_seen' = k_numexit + 1
      BY <2>1, <1>1 DEF Asked
    <3>2. \A i \in 1..k_numexit + 1 : i = k_numexit + 1 \/ k_numexit + 1 \in i + 1..k_numexit + 1
      BY <1>3
    <3> QED
      BY <1>2, <1>5, <3>1, <3>2 DEF LastRead
  <2>2. CASE k_exit.port # "0xEB"
    <3>1. k_made[k_numexit + 1] = "out" /\ k_seen' = k_seen
      BY <2>2, <1>1 DEF Asked
    <3>2. SUFFICES ASSUME NEW i \in 1..k_numexit + 1, k_made[i] = "in",
                          \A k \in i + 1..k_numexit + 1 : k_made[k] = "out"
                   PROVE  k_seen = i
      BY <1>2, <3>1 DEF LastRead
    <3>3. i \in 1..k_numexit
      BY <1>3, <3>1, <3>2
    <3>4. \A k \in i + 1..k_numexit : k_made[k] = "out"
      BY <1>3, <3>2
    <3> QED
      BY <1>3, <3>2, <3>3, <3>4 DEF LastRead
  <2> QED
    BY <2>1, <2>2
<1>7. k_numexit_in' = Count(k_made, "in") /\ k_numexit_out' = Count(k_made, "out")
  BY <1>1 DEF Asked, KvmTyped
<1>8. Settled'
  BY <1>2, <1>3, <1>4, <1>6, <1>7 DEF Settled
<1> QED
  BY <1>1, <1>2, <1>5, <1>8 DEF KvmInv, K!SuccessIs42

LEMMA KvmSteps ==
  ASSUME KvmInv, K!Next
  PROVE  KvmInv'
<1> USE DEF K!counts, K!guest
<1>1. ASSUME K!SetUp PROVE KvmInv'
  <2>1. PICK i \in DOMAIN K!SetUpCalls :
          /\ k_pc = K!SetUpCalls[i]
          /\ \/ /\ k_pc' = IF i = Len(K!SetUpCalls) THEN "guest" ELSE K!SetUpCalls[i + 1]
                /\ k_status' = k_status
             \/ k_pc' = "done" /\ k_status' = "exit 1"
    BY <1>1 DEF K!SetUp, K!Ends
  <2>2. UNCHANGED <<k_exit, k_numexit, k_numexit_in, k_numexit_out, k_str_ind, k_str1, k_seen,
                    k_mem400, k_rax, k_made, k_texts>>
    BY <1>1 DEF K!SetUp
  <2>3. k_pc \notin {"guest", "exit", "check", "done"}
    BY <2>1, SetUpCallsAreCalls
  <2>4. k_pc' \notin {"exit", "check"}
    <3>1. i # Len(K!SetUpCalls) => i + 1 \in DOMAIN K!SetUpCalls
      BY SetUpCallsAreCalls
    <3>2. i # Len(K!SetUpCalls) => K!SetUpCalls[i + 1] \notin {"exit", "check"}
      BY <3>1, SetUpCallsAreCalls
    <3> QED
      BY <2>1, <3>2
  <2>5. k_pc' # "done" => k_status' = "none"
    BY <2>1, <2>3, SetUpCallsAreCalls DEF KvmInv
  <2>6. KvmTyped' /\ Settled' /\ k_status' # "return 0"
    BY <2>1, <2>2, <2>3 DEF KvmInv, KvmTyped, Settled, LastRead
  <2> QED
    BY <2>4, <2>5, <2>6 DEF KvmInv, K!SuccessIs42
<1>2. ASSUME NEW port, NEW value, K!Traps("io", port, value), port # "0xEB", port # "0xED",
             k_made' = Append(k_made, "out"), k_seen' = k_seen, k_str1' = k_str1,
             k_texts' = k_texts, k_str_ind' = k_str_ind
      PROVE  KvmInv'
  <2>1. DOMAIN k_texts' = 0..Slots - 1 /\ k_str_ind' \in Nat
    BY <1>2 DEF KvmInv, KvmTyped
  <2> QED
    BY <1>2, <2>1, CallIsMade DEF Kinds
<1>3. CASE K!HC_print8bit
  BY <1>2, <1>3 DEF K!HC_print8bit
<1>4. CASE K!HC_print32bit
  BY <1>2, <1>4 DEF K!HC_print32bit
<1>5. CASE K!HC_numExits
  <2>1. DOMAIN k_texts' = 0..Slots - 1 /\ k_str_ind' \in Nat
    BY <1>5 DEF K!HC_numExits, KvmInv, KvmTyped
  <2> QED
    BY <1>5, <2>1, CallIsMade DEF K!HC_numExits, Kinds
<1>6. CASE K!HC_printStr
  BY <1>2, <1>6 DEF K!HC_printStr
<1>7. CASE K!HC_numExitsByType
  <2>0. Count(k_made', "in") = K!MadeOf("in") /\ Count(k_made', "out") = K!MadeOf("out")
    BY ZenonT(30) DEF K!MadeOf, Count, K!Cardinality, Cardinality
  <2>1. /\ K!Traps("io", "0xED", k_str_ind) /\ k_made' = Append(k_made, "out")
        /\ k_texts' = [k_texts EXCEPT ![k_str_ind] =
                         <<Count(k_made', "in"), Count(k_made', "out")>>]
        /\ k_str_ind' = k_str_ind + 1 /\ k_str_ind < Slots
        /\ k_str1' = k_str1 /\ k_seen' = k_seen
    BY <1>7, <2>0 DEF K!HC_numExitsByType
  <2>2. k_texts = k_str1 /\ k_str_ind \in Nat /\ DOMAIN k_texts = 0..Slots - 1
    BY <2>1 DEF KvmInv, KvmTyped, Settled, K!Traps
  <2>3. k_str_ind \in 0..Slots - 1 /\ k_str_ind' \in Nat
    BY <2>1, <2>2, KvmAssumption
  <2>4. DOMAIN k_texts' = 0..Slots - 1
    BY <2>1, <2>2
  <2> QED
    BY <2>1, <2>2, <2>3, <2>4, CallIsMade DEF Kinds
<1>8. CASE K!HC_gvaToHva
  BY <1>2, <1>8 DEF K!HC_gvaToHva
<1>9. ASSUME K!GuestEnds \/ K!GuestFails PROVE KvmInv'
  <2>1. PICK reason \in {"hlt", "other"} : K!Traps(reason, "none", 0)
    BY <1>9 DEF K!GuestEnds, K!GuestFails
  <2>2. UNCHANGED <<k_made, k_texts, k_str_ind, k_str1>>
    BY <1>9 DEF K!GuestEnds, K!GuestFails
  <2>3. KvmTyped' /\ k_status' = "none"
    BY <2>1, <2>2 DEF KvmInv, KvmTyped, K!Traps
  <2> QED
    BY <2>1, <2>3 DEF KvmInv, K!Traps, K!SuccessIs42
<1>10. ASSUME K!RunFails \/ K!TranslateFails \/ K!OtherExit PROVE KvmInv'
  <2>1. k_pc' = "done" /\ k_status' = "exit 1"
    BY <1>10 DEF K!RunFails, K!TranslateFails, K!OtherExit, K!Ends
  <2>2. UNCHANGED <<k_made, k_texts, k_str_ind, k_str1>>
    BY <1>10 DEF K!RunFails, K!TranslateFails, K!OtherExit
  <2>3. KvmTyped
    BY DEF KvmInv
  <2>4. k_numexit' \in Nat /\ k_numexit_in' \in Nat /\ k_numexit_out' \in Nat
    <3>1. k_numexit' \in {k_numexit, k_numexit + 1}
      BY <1>10 DEF K!RunFails, K!TranslateFails, K!OtherExit
    <3>2. k_numexit_in' = k_numexit_in
      BY <1>10 DEF K!RunFails, K!TranslateFails, K!OtherExit, K!CountOut
    <3>3. k_numexit_out' \in {k_numexit_out, k_numexit_out + 1}
      BY <1>10 DEF K!RunFails, K!TranslateFails, K!OtherExit, K!CountOut
    <3> QED
      BY <2>3, <3>1, <3>2, <3>3 DEF KvmTyped
  <2>5. KvmTyped'
    BY <2>2, <2>3, <2>4 DEF KvmTyped
  <2> QED
    BY <2>1, <2>5 DEF KvmInv, K!SuccessIs42
<1>11. CASE K!PrintValue
  BY <1>11, CallIsAnswered DEF K!PrintValue, K!Port, K!CountOut
<1>12. CASE K!NumExits
  BY <1>12, CallIsAnswered DEF K!NumExits, K!Port
<1>13. CASE K!PrintStr
  BY <1>13, CallIsAnswered DEF K!PrintStr, K!Port, K!CountOut
<1>14. CASE K!NumExitsByType
  BY <1>14, CallIsAnswered DEF K!NumExitsByType, K!Port, K!CountOut, KvmInv, KvmTyped
<1>15. CASE K!GvaToHva
  BY <1>15, CallIsAnswered DEF K!GvaToHva, K!Port, K!CountOut
<1>16. CASE K!Halted
  BY <1>16 DEF K!Halted, KvmInv, KvmTyped, K!SuccessIs42
<1>17. CASE K!Check
  BY <1>17 DEF K!Check, K!Ends, KvmInv, KvmTyped, K!SuccessIs42, K!Correct
<1> QED
  BY <1>1, <1>3, <1>4, <1>5, <1>6, <1>7, <1>8, <1>9, <1>10, <1>11, <1>12, <1>13, <1>14, <1>15,
     <1>16, <1>17 DEF K!Next

LEMMA KvmSuffices == KvmInv => GuestIsToldTheTruth
<1> SUFFICES ASSUME KvmInv PROVE GuestIsToldTheTruth
  OBVIOUS
<1>1. k_pc = "guest" => Settled /\ k_made \in Seq(Kinds)
  BY DEF KvmInv, KvmTyped
<1>2. K!GuestIsToldTheTruth
  BY <1>1 DEF K!GuestIsToldTheTruth, Settled, LastRead
<1> QED
  BY <1>2 DEF KvmInv, GuestIsToldTheTruth

-----------------------------------------------------------------------------
\* What simple-kvm tells a guest of its exits is what the guest made of them, for every guest that
\* makes these calls, in every order and number; and it succeeds only if the guest did.
THEOREM GuestIsTold == MCSpec => []GuestIsToldTheTruth
<1>1. MCInit => KvmInv
  BY KvmInitially DEF MCInit
<1>2. KvmInv /\ [MCNext]_mcVars => KvmInv'
  <2> SUFFICES ASSUME KvmInv, [MCNext]_mcVars PROVE KvmInv'
    OBVIOUS
  <2>1. CASE Kvm
    BY <2>1, KvmSteps DEF Kvm, In
  <2>2. CASE UNCHANGED kVars
    BY <2>2 DEF KvmInv, KvmTyped, Settled, Asked, LastRead, K!SuccessIs42, K!Correct, kVars
  <2> QED
    BY <2>1, <2>2 DEF MCNext, mcVars, Doom, Namespaces, User, In
<1> QED
  BY <1>1, <1>2, KvmSuffices, PTL DEF MCSpec

-----------------------------------------------------------------------------
(***************************************************************************)
(* The drivers.                                                            *)
(***************************************************************************)

\* What the kernel knows of a driver is what its init has come to.
Registered(d) ==
  /\ stage[d] \in {"out", "region"} => regions[d] < MaxRegions
  /\ stage[d] \in {"cdev", "class", "device", "in"} => regions[d] > 0
  /\ d \in cdevs <=> stage[d] \in {"class", "device", "in"}
  /\ class = d <=> stage[d] \in {"device", "in"}
  /\ d \in nodes <=> stage[d] = "in"
  /\ opens[d] > 0 => stage[d] = "in"

DriverInv == DriverTypeOK /\ \A d \in Drivers : Registered(d)

LEMMA DriverInitially == DriverInit => DriverInv
BY DriverAssumption DEF DriverInit, DriverInv, DriverTypeOK, Registered

LEMMA DriverSteps ==
  ASSUME DriverInv, NEW d \in Drivers,
         \/ Insmod(d) \/ InitStep(d) \/ Unload(d) \/ OpenDevice(d)
         \/ (opens[d] > 0 /\ CloseDevice(d))
  PROVE  DriverInv'
<1>1. MaxRegions \in Nat \ {0} /\ NoDriver \notin Drivers
  BY DriverAssumption
<1>2. DriverTypeOK /\ Registered(d) /\ regions[d] \in 0..MaxRegions /\ opens[d] \in Nat
  BY DEF DriverInv, DriverTypeOK
<1>3. DriverTypeOK'
  <2>1. CASE Insmod(d)
    BY <1>2, <2>1 DEF DriverTypeOK, Insmod, Stage
  <2>2. CASE AllocRegion(d)
    BY <1>1, <1>2, <2>2 DEF DriverTypeOK, AllocRegion, Stage, Registered
  <2>3. CASE AddCdev(d)
    BY <1>2, <2>3 DEF DriverTypeOK, AddCdev, Stage
  <2>4. CASE CreateClass(d)
    BY <1>1, <1>2, <2>4 DEF DriverTypeOK, CreateClass, Stage, Registered, Unregister
  <2>5. CASE CreateDevice(d)
    BY <1>1, <1>2, <2>5 DEF DriverTypeOK, CreateDevice, Stage, Registered, Unregister
  <2>6. CASE Unload(d)
    BY <1>1, <1>2, <2>6 DEF DriverTypeOK, Unload, Stage, Registered, Unregister
  <2>7. CASE OpenDevice(d)
    BY <1>2, <2>7 DEF DriverTypeOK, OpenDevice
  <2>8. CASE opens[d] > 0 /\ CloseDevice(d)
    BY <1>2, <2>8 DEF DriverTypeOK, CloseDevice
  <2> QED
    BY <2>1, <2>2, <2>3, <2>4, <2>5, <2>6, <2>7, <2>8 DEF InitStep
<1>4. ASSUME NEW e \in Drivers PROVE Registered(e)'
  <2>1. Registered(e) /\ e # NoDriver /\ regions[e] \in 0..MaxRegions /\ opens[e] \in Nat
        /\ stage[e] \in {"out", "region", "cdev", "class", "device", "in"}
    BY <1>1 DEF DriverInv, DriverTypeOK
  <2> USE <1>1, <1>2, <2>1 DEF DriverTypeOK, Registered
  <2>2. CASE Insmod(d)
    BY <2>2 DEF Insmod, Stage
  <2>3. CASE AllocRegion(d)
    BY <2>3 DEF AllocRegion, Stage
  <2>4. CASE AddCdev(d)
    BY <2>4 DEF AddCdev, Stage
  <2>5. CASE CreateClass(d)
    BY <2>5 DEF CreateClass, Stage, Unregister
  <2>6. CASE CreateDevice(d)
    BY <2>6 DEF CreateDevice, Stage, Unregister
  <2>7. CASE Unload(d)
    BY <2>7 DEF Unload, Stage, Unregister
  <2>8. CASE OpenDevice(d)
    BY <2>8 DEF OpenDevice
  <2>9. CASE opens[d] > 0 /\ CloseDevice(d)
    BY <2>9 DEF CloseDevice
  <2> QED
    BY <2>2, <2>3, <2>4, <2>5, <2>6, <2>7, <2>8, <2>9 DEF InitStep
<1> QED
  BY <1>3, <1>4 DEF DriverInv

LEMMA DriverStays ==
  ASSUME DriverInv, UNCHANGED driverVars
  PROVE  DriverInv'
BY DEF DriverInv, DriverTypeOK, Registered, driverVars

LEMMA DriverSuffices == DriverInv => NothingLeft
BY DEF DriverInv, DriverTypeOK, Registered, NothingLeft

-----------------------------------------------------------------------------
(***************************************************************************)
(* The soldiers and the station, whoever comes when.                       *)
(***************************************************************************)

LEMMA MinIsLeast ==
  ASSUME NEW S \in SUBSET Nat, S # {}
  PROVE  Min(S) \in S
<1> DEFINE R == {ss \in Nat \X Nat : ss[1] < ss[2]}
<1>1. OpToRel(<, Nat) = R
  BY DEF OpToRel
<1>2. IsWellFoundedOn(R, Nat)
  BY <1>1, NatLessThanWellFounded
<1>3. PICK x \in S : \A y \in S : ~ (<<y, x>> \in R)
  <2> HIDE DEF R
  <2> QED
    BY <1>2, WFMin
<1>4. ASSUME NEW y \in S PROVE x <= y
  <2>1. x \in Nat /\ y \in Nat
    OBVIOUS
  <2>2. ~ (y < x)
    BY <1>3, <2>1
  <2> QED
    BY <2>1, <2>2
<1> QED
  BY <1>4 DEF Min

\* An entry leaves a list: the list of one that it leaves is empty.
LEMMA ListDel ==
  ASSUME NEW S, NEW s \in Seq(S), NEW e
  PROVE  /\ RemoveFirst(s, e) \in Seq(S)
         /\ s = <<e>> => RemoveFirst(s, e) = <<>>
<1> DEFINE I == {i \in 1..Len(s) : s[i] = e}
<1>1. CASE I = {}
  <2>1. RemoveFirst(s, e) = s
    BY <1>1 DEF RemoveFirst
  <2>2. s # <<e>>
    BY <1>1
  <2> QED
    BY <2>1, <2>2
<1>2. CASE I # {}
  <2>0. I \in SUBSET Nat
    OBVIOUS
  <2>1. Min(I) \in I
    <3> HIDE DEF I
    <3> QED
      BY <1>2, <2>0, MinIsLeast
  <2>2. SelectInSeq(s, LAMBDA v : v = e) = Min(I)
    BY <1>2 DEF SelectInSeq
  <2>3. RemoveFirst(s, e) = SubSeq(s, 1, Min(I) - 1) \o SubSeq(s, Min(I) + 1, Len(s))
    BY <1>2, <2>2 DEF RemoveFirst, RemoveAt
  <2> DEFINE k == Min(I)
  <2>4. k \in 1..Len(s)
    BY <2>1
  <2> HIDE DEF k, I
  <2>5. SubSeq(s, 1, k - 1) \in Seq(S) /\ SubSeq(s, k + 1, Len(s)) \in Seq(S)
    BY <2>4
  <2>6. ASSUME s = <<e>> PROVE SubSeq(s, 1, k - 1) \o SubSeq(s, k + 1, Len(s)) = <<>>
    <3>1. k = 1 /\ Len(s) = 1
      BY <2>4, <2>6
    <3>2. SubSeq(s, 1, 0) = <<>> /\ SubSeq(s, 2, 1) = <<>>
      OBVIOUS
    <3> QED
      BY <3>1, <3>2
  <2> QED
    BY <2>3, <2>5, <2>6 DEF k
<1> QED
  BY <1>1, <1>2

Stages == {"none", "open", "ioctl", "unlink", "add", "link", "close", "sleep", "zombie", "gone"}

\* The soldiers that have the device open.
Holding == {s \in Soldier : soldier[s] \in {"ioctl", "unlink", "add", "link", "close"}}

FamilyTypeOK ==
  /\ script \in {"insmod", "loading", "station", "soldiers", "sleep", "rmmod", "done"}
  /\ station \in {"none", "starting", "up", "over"}
  /\ flags \in SaFlags /\ handler \in BOOLEAN /\ waits \in Nat /\ sigchld \in BOOLEAN
  /\ children \in Seq(Soldier)
  /\ soldier \in [Soldier -> Stages]
  /\ parent \in [Soldier -> {"script", "station", "init"}]
  /\ tail \in [Soldier -> Soldier \cup {ListHead}]
  /\ reported \subseteq Soldier

SafeInv == DriverInv /\ FamilyTypeOK /\ opens[Pid] = Cardinality(Holding)

LEMMA HoldingIsFinite ==
  /\ IsFiniteSet(Holding) /\ Cardinality(Holding) \in Nat
  /\ \A s \in Holding : Cardinality(Holding) > 0
<1>1. IsFiniteSet(Holding)
  BY SoldierAssumption, FS_Subset DEF Holding
<1> QED
  BY <1>1, FS_CardinalityType, FS_EmptySet

LEMMA SafeInitially == Init => SafeInv
<1> SUFFICES ASSUME Init PROVE SafeInv
  OBVIOUS
<1>1. Holding = {}
  BY DEF Init, Holding
<1>2. opens[Pid] = 0
  BY SoldierAssumption DEF Init, DriverInit
<1>3. Cardinality(Holding) = 0
  BY <1>1, FS_EmptySet
<1>4. /\ soldier \in [Soldier -> Stages] /\ parent \in [Soldier -> {"script", "station", "init"}]
      /\ tail \in [Soldier -> Soldier \cup {ListHead}] /\ children \in Seq(Soldier)
  BY DEF Init, Stages
<1>5. FamilyTypeOK
  BY <1>4 DEF Init, FamilyTypeOK
<1>6. DriverInv
  BY DriverInitially DEF Init
<1> QED
  BY <1>2, <1>3, <1>5, <1>6 DEF SafeInv

-----------------------------------------------------------------------------
(* The types. *)

LEMMA StationTypes ==
  ASSUME FamilyTypeOK, StationStep \/ (StationEnds /\ script' = "rmmod")
  PROVE  FamilyTypeOK'
<1>1. CASE Sigaction
  BY <1>1 DEF FamilyTypeOK, Sigaction, familyVars
<1>2. CASE TakeSignal
  <2>0. waits' = waits + 1
    BY <1>2, Zenon DEF TakeSignal
  <2>1. waits' \in Nat
    BY <2>0 DEF FamilyTypeOK
  <2>2. handler' \in BOOLEAN /\ sigchld' \in BOOLEAN
    BY <1>2 DEF TakeSignal
  <2>3. UNCHANGED <<script, station, flags, children, parent, tail, soldier, reported>>
    BY <1>2 DEF TakeSignal, familyVars
  <2> QED
    BY <2>1, <2>2, <2>3 DEF FamilyTypeOK
<1>3. ASSUME NEW s \in Soldier, Report(s) PROVE FamilyTypeOK'
  <2>1. children' \in Seq(Soldier)
    BY <1>3, ListDel DEF FamilyTypeOK, Report
  <2>2. soldier' \in [Soldier -> Stages]
    BY <1>3 DEF FamilyTypeOK, Report, Stages
  <2>3. waits' \in Nat
    BY <1>3 DEF FamilyTypeOK, Report
  <2> QED
    BY <1>3, <2>1, <2>2, <2>3 DEF FamilyTypeOK, Report
<1>4. ASSUME StationEnds, script' \in {"rmmod", script} PROVE FamilyTypeOK'
  <2>1. parent' \in [Soldier -> {"script", "station", "init"}]
    BY <1>4 DEF FamilyTypeOK, StationEnds
  <2>2. soldier' \in [Soldier -> Stages]
    BY <1>4 DEF FamilyTypeOK, StationEnds, Stages
  <2>3. children' \in Seq(Soldier)
    BY <1>4 DEF StationEnds
  <2> QED
    BY <1>4, <2>1, <2>2, <2>3 DEF FamilyTypeOK, StationEnds
<1> QED
  BY <1>1, <1>2, <1>3, <1>4 DEF StationStep, WaitFails

LEMMA SoldierTypes ==
  ASSUME FamilyTypeOK, NEW s \in Soldier, LaunchSoldier(s) \/ SoldierStep(s) \/ End(s)
  PROVE  FamilyTypeOK'
<1> USE DEF stationVars, familyVars
<1>1. ASSUME UNCHANGED <<script, stationVars, familyVars, reported>>,
             NEW to \in Stages, soldier' = [soldier EXCEPT ![s] = to]
      PROVE  FamilyTypeOK'
  <2>1. soldier' \in [Soldier -> Stages]
    BY <1>1 DEF FamilyTypeOK
  <2> QED
    BY <1>1, <2>1 DEF FamilyTypeOK
<1>2. CASE LaunchSoldier(s)
  BY <1>1, <1>2 DEF LaunchSoldier, At, Stages
<1>3. CASE Open(s)
  BY <1>1, <1>3 DEF Open, At, Stages
<1>4. CASE Lookup(s)
  BY <1>1, <1>4 DEF Lookup, At, Stages
<1>5. CASE Close(s)
  BY <1>1, <1>5 DEF Close, At, Stages
<1>6. CASE Reparent(s)
  <2>1. soldier' \in [Soldier -> Stages]
    BY <1>6 DEF FamilyTypeOK, Reparent, At, Stages
  <2>2. parent' \in [Soldier -> {"script", "station", "init"}]
    BY <1>6 DEF FamilyTypeOK, Reparent
  <2> QED
    BY <1>6, <2>1, <2>2 DEF FamilyTypeOK, Reparent
<1>7. CASE AddRead(s)
  <2>1. soldier' \in [Soldier -> Stages]
    BY <1>7 DEF FamilyTypeOK, AddRead, At, Stages
  <2>2. children # <<>> => Last(children) \in Soldier
    BY DEF FamilyTypeOK, Last
  <2>3. tail' \in [Soldier -> Soldier \cup {ListHead}]
    BY <1>7, <2>2 DEF FamilyTypeOK, AddRead
  <2> QED
    BY <1>7, <2>1, <2>3 DEF FamilyTypeOK, AddRead
<1>8. CASE AddWrite(s)
  <2>1. soldier' \in [Soldier -> Stages]
    BY <1>8 DEF FamilyTypeOK, AddWrite, At, Stages
  <2>2. tail' \in [Soldier -> Soldier \cup {ListHead}]
    BY <1>8 DEF FamilyTypeOK, AddWrite
  <2>3. children' \in Seq(Soldier)
    <3> DEFINE i == CHOOSE i \in DOMAIN children : children[i] = tail[s]
    <3>1. tail[s] \in ToSet(children) => i \in DOMAIN children
      BY DEF ToSet
    <3> HIDE DEF i
    <3>2. tail[s] \in ToSet(children) => Append(SubSeq(children, 1, i), s) \in Seq(Soldier)
      BY <3>1 DEF FamilyTypeOK
    <3>3. \/ children' = <<>> \/ children' = <<s>> \/ children' = children
          \/ tail[s] \in ToSet(children) /\ children' = Append(SubSeq(children, 1, i), s)
      BY <1>8 DEF AddWrite, i
    <3>4. <<>> \in Seq(Soldier) /\ <<s>> \in Seq(Soldier) /\ children \in Seq(Soldier)
      BY DEF FamilyTypeOK
    <3> QED
      BY <3>2, <3>3, <3>4
  <2> QED
    BY <1>8, <2>1, <2>2, <2>3 DEF FamilyTypeOK, AddWrite
<1>9. CASE End(s)
  <2>1. soldier' \in [Soldier -> Stages]
    BY <1>9 DEF FamilyTypeOK, End, Stages
  <2>2. children' \in Seq(Soldier)
    BY <1>9, ListDel DEF FamilyTypeOK, End
  <2>3. sigchld' \in BOOLEAN
    BY <1>9 DEF FamilyTypeOK, End
  <2> QED
    BY <1>9, <2>1, <2>2, <2>3 DEF FamilyTypeOK, End
<1> QED
  BY <1>2, <1>3, <1>4, <1>5, <1>6, <1>7, <1>8, <1>9 DEF SoldierStep


LEMMA ScriptTypes ==
  ASSUME FamilyTypeOK, ScriptStep
  PROVE  FamilyTypeOK'
<1> USE DEF stationVars, familyVars, ScriptAt
<1>1. CASE ScriptInsmod \/ ScriptLoaded \/ ScriptSleeps \/ ScriptRmmod
  BY <1>1 DEF FamilyTypeOK, ScriptInsmod, ScriptLoaded, ScriptSleeps, ScriptRmmod
<1>2. CASE LaunchStation
  BY <1>2 DEF FamilyTypeOK, LaunchStation
<1>3. CASE KillStation
  <2>1. CASE station = "over"
    BY <1>3, <2>1 DEF FamilyTypeOK, KillStation
  <2>2. CASE station # "over"
    BY <1>3, <2>2, StationTypes DEF KillStation
  <2> QED
    BY <2>1, <2>2
<1> QED
  BY <1>1, <1>2, <1>3 DEF ScriptStep

-----------------------------------------------------------------------------
(* The open files. *)

\* Nothing but its own open, close and end changes whether a soldier has the device open.
LEMMA SameHolding ==
  ASSUME SafeInv, UNCHANGED opens,
         \A s \in Soldier : s \in Holding' <=> s \in Holding
  PROVE  opens'[Pid] = Cardinality(Holding)'
<1>1. Holding' = Holding
  BY DEF Holding
<1> QED
  BY <1>1 DEF SafeInv

LEMMA OneMore ==
  ASSUME SafeInv, NEW s \in Soldier, OpenDevice(Pid), At(s, "open", "ioctl")
  PROVE  DriverInv' /\ opens'[Pid] = Cardinality(Holding)'
<1>1. soldier \in [Soldier -> Stages] /\ DriverInv /\ opens[Pid] = Cardinality(Holding)
  BY DEF SafeInv, FamilyTypeOK
<1>2. Holding' = Holding \cup {s} /\ s \notin Holding
  BY <1>1 DEF At, Holding
<1>3. opens'[Pid] = opens[Pid] + 1
  BY <1>1, SoldierAssumption DEF DriverInv, DriverTypeOK, OpenDevice
<1>4. Cardinality(Holding \cup {s}) = Cardinality(Holding) + 1
  BY <1>2, HoldingIsFinite, FS_AddElement
<1>5. DriverInv'
  BY <1>1, DriverSteps, SoldierAssumption
<1> QED
  BY <1>1, <1>2, <1>3, <1>4, <1>5

LEMMA OneLess ==
  ASSUME SafeInv, NEW s \in Soldier, soldier[s] = "close", CloseDevice(Pid),
         NEW to \in {"sleep", "zombie", "gone"}, soldier' = [soldier EXCEPT ![s] = to]
  PROVE  DriverInv' /\ opens'[Pid] = Cardinality(Holding)'
<1>1. soldier \in [Soldier -> Stages] /\ DriverInv /\ opens[Pid] = Cardinality(Holding)
  BY DEF SafeInv, FamilyTypeOK
<1>2. Holding' = Holding \ {s} /\ s \in Holding
  BY <1>1 DEF Holding
<1>3. opens'[Pid] = opens[Pid] - 1
  BY <1>1, SoldierAssumption DEF DriverInv, DriverTypeOK, CloseDevice
<1>4. Cardinality(Holding \ {s}) = Cardinality(Holding) - 1
  BY <1>2, HoldingIsFinite, FS_RemoveElement
<1>5. opens[Pid] > 0
  BY <1>1, <1>2, HoldingIsFinite
<1>6. DriverInv'
  BY <1>1, <1>5, DriverSteps, SoldierAssumption
<1> QED
  BY <1>1, <1>2, <1>3, <1>4, <1>6

LEMMA SafeSteps ==
  ASSUME SafeInv, Next
  PROVE  SafeInv'
<1>1. /\ DriverInv /\ FamilyTypeOK /\ soldier \in [Soldier -> Stages]
      /\ opens[Pid] = Cardinality(Holding) /\ Pid \in Drivers
      /\ \A d \in Drivers : Registered(d)
      /\ opens \in [Drivers -> Nat]
  BY SoldierAssumption DEF SafeInv, FamilyTypeOK, DriverInv, DriverTypeOK
<1>2. UNCHANGED driverVars => DriverInv' /\ UNCHANGED opens
  BY <1>1, DriverStays DEF driverVars
<1>3. ASSUME StationEnds PROVE \A s \in Soldier : s \in Holding' <=> s \in Holding
  BY <1>1, <1>3 DEF StationEnds, Holding
<1>4. CASE ScriptStep
  <2>1. FamilyTypeOK'
    BY <1>1, <1>4, ScriptTypes
  <2>2. CASE ScriptInsmod
    <3>1. DriverInv' /\ UNCHANGED opens
      BY <1>1, <1>2, <2>2, DriverSteps DEF ScriptInsmod, Insmod
    <3>2. UNCHANGED soldier
      BY <2>2 DEF ScriptInsmod
    <3> QED
      BY <2>1, <3>1, <3>2, SameHolding DEF SafeInv, Holding
  <2>3. CASE ScriptLoaded \/ LaunchStation \/ ScriptSleeps
    <3>1. UNCHANGED <<driverVars, soldier>>
      BY <2>3 DEF ScriptLoaded, LaunchStation, ScriptSleeps
    <3> QED
      BY <1>2, <2>1, <3>1, SameHolding DEF SafeInv, Holding
  <2>4. CASE KillStation
    <3>1. UNCHANGED driverVars /\ (UNCHANGED soldier \/ StationEnds)
      BY <2>4 DEF KillStation
    <3>2. \A s \in Soldier : s \in Holding' <=> s \in Holding
      BY <1>3, <3>1 DEF Holding
    <3> QED
      BY <1>2, <2>1, <3>1, <3>2, SameHolding DEF SafeInv
  <2>5. CASE ScriptRmmod
    <3>1. DriverInv' /\ UNCHANGED opens
      BY <1>1, <1>2, <2>5, DriverSteps DEF ScriptRmmod, Unload
    <3>2. UNCHANGED soldier
      BY <2>5 DEF ScriptRmmod
    <3> QED
      BY <2>1, <3>1, <3>2, SameHolding DEF SafeInv, Holding
  <2> QED
    BY <1>4, <2>2, <2>3, <2>4, <2>5 DEF ScriptStep
<1>5. CASE StationStep
  <2>1. FamilyTypeOK'
    BY <1>1, <1>5, StationTypes
  <2>2. UNCHANGED driverVars
    BY <1>5 DEF StationStep, Sigaction, TakeSignal, WaitFails, Report
  <2>3. \A s \in Soldier : s \in Holding' <=> s \in Holding
    <3>1. CASE Sigaction
      BY <3>1 DEF Sigaction, Holding
    <3>2. CASE TakeSignal
      <4>1. UNCHANGED soldier
        BY <3>2 DEF TakeSignal
      <4> QED
        BY <4>1 DEF Holding
    <3>3. CASE WaitFails
      BY <1>3, <3>3 DEF WaitFails
    <3>4. ASSUME NEW s \in Soldier, Report(s)
          PROVE  \A t \in Soldier : t \in Holding' <=> t \in Holding
      BY <1>1, <3>4 DEF Report, Holding
    <3> QED
      BY <1>5, <3>1, <3>2, <3>3, <3>4 DEF StationStep
  <2> QED
    BY <1>2, <2>1, <2>2, <2>3, SameHolding DEF SafeInv
<1>6. ASSUME NEW s \in Soldier, LaunchSoldier(s) \/ SoldierStep(s) \/ End(s)
      PROVE  SafeInv'
  <2>1. FamilyTypeOK'
    BY <1>1, <1>6, SoldierTypes
  <2>2. SUFFICES DriverInv' /\ opens'[Pid] = Cardinality(Holding)'
    BY <2>1 DEF SafeInv
  <2>3. ASSUME UNCHANGED driverVars, NEW from, NEW to, At(s, from, to),
               from \in {"ioctl", "unlink", "add", "link", "close"}
                 <=> to \in {"ioctl", "unlink", "add", "link", "close"}
        PROVE  DriverInv' /\ opens'[Pid] = Cardinality(Holding)'
    <3>1. \A t \in Soldier : t \in Holding' <=> t \in Holding
      BY <1>1, <2>3 DEF At, Holding
    <3> QED
      BY <1>2, <2>3, <3>1, SameHolding
  <2>4. CASE LaunchSoldier(s)
    BY <2>3, <2>4 DEF LaunchSoldier
  <2>5. CASE Open(s)
    BY <2>3, <2>5, OneMore DEF Open
  <2>6. CASE Lookup(s)
    BY <2>3, <2>6 DEF Lookup
  <2>7. CASE Reparent(s) \/ AddRead(s) \/ AddWrite(s)
    BY <2>3, <2>7 DEF Reparent, AddRead, AddWrite
  <2>8. CASE Close(s)
    BY <2>8, OneLess DEF Close, At
  <2>9. CASE End(s)
    <3>1. PICK to \in {"zombie", "gone"} : soldier' = [soldier EXCEPT ![s] = to]
      BY <2>9 DEF End
    <3>2. CASE soldier[s] = "close"
      BY <2>9, <3>1, <3>2, OneLess DEF End
    <3>3. CASE soldier[s] \in {"open", "sleep"}
      <4>1. UNCHANGED driverVars
        BY <2>9, <3>3 DEF End
      <4> QED
        BY <2>3, <3>1, <3>3, <4>1 DEF At
    <3> QED
      BY <2>9, <3>2, <3>3 DEF End
  <2> QED
    BY <1>6, <2>4, <2>5, <2>6, <2>7, <2>8, <2>9 DEF SoldierStep
<1>7. ASSUME NEW d \in Drivers, Registration(d) \/ OtherDriver(d) PROVE SafeInv'
  <2>1. UNCHANGED <<script, stationVars, familyVars, soldier, reported>>
    BY <1>7 DEF Registration, OtherDriver
  <2>2. FamilyTypeOK'
    BY <1>1, <2>1 DEF FamilyTypeOK, stationVars, familyVars
  <2>3. DriverInv'
    BY <1>1, <1>7, DriverSteps DEF Registration, OtherDriver, DriverInv, DriverTypeOK
  <2>4. opens'[Pid] = opens[Pid]
    BY <1>1, <1>7 DEF Registration, OtherDriver, InitStep, AllocRegion, AddCdev, CreateClass,
         CreateDevice, Insmod, Unload, OpenDevice, CloseDevice
  <2>5. Holding' = Holding
    BY <2>1 DEF Holding
  <2> QED
    BY <1>1, <2>2, <2>3, <2>4, <2>5 DEF SafeInv
<1> QED
  BY <1>4, <1>5, <1>6, <1>7 DEF Next

LEMMA SafeSuffices == SafeInv => TypeOK /\ NothingLeft
BY DriverSuffices DEF SafeInv, DriverInv, FamilyTypeOK, Stages, TypeOK

-----------------------------------------------------------------------------
(***************************************************************************)
(* One soldier after the other.                                            *)
(***************************************************************************)

\* A soldier that is dead and has not been waited for.
Zombie(s) == soldier[s] = "zombie"

\* Where the script is: the soldiers come between the station and its end, and what is left
\* then is the driver.
ScriptInv ==
  /\ station = "none" <=> script \in {"insmod", "loading", "station"}
  /\ station = "none" => \A s \in Soldier : soldier[s] = "none"
  /\ script \in {"rmmod", "done"} => station = "over" /\ \A s \in Soldier : Gone(s)
  /\ script \notin {"insmod", "loading"} => stage[Pid] \in {"in", "out"}
  /\ script = "done" => stage[Pid] = "out"

\* The station's list is the one soldier that has made the call and lives, or is a zombie.
ListInv ==
  /\ \A s, t \in Soldier : ~Gone(s) /\ ~Gone(t) => s = t
  /\ \/ children = <<>>
     \/ \E s \in Soldier : /\ children = <<s>> /\ soldier[s] \in {"close", "sleep", "zombie"}
                           /\ parent[s] = "station" /\ station \in {"starting", "up"}
  /\ \A s \in Soldier :
       /\ soldier[s] \in {"none", "open", "ioctl", "unlink"} => parent[s] = "script"
       /\ soldier[s] \in {"add", "link"} => parent[s] = "station"
       /\ soldier[s] = "link" => tail[s] = ListHead
       /\ soldier[s] \in {"close", "sleep"} /\ parent[s] = "station"
            /\ station \in {"starting", "up"} => children = <<s>>
       /\ Zombie(s) => station = "up" /\ children = <<s>>

\* A station without those flags has a handler, and a signal pending or a wait under way for a
\* zombie, and for nothing else.
SignalInv ==
  /\ station \in {"none", "starting"} => waits = 0 /\ ~sigchld
  /\ Plain /\ station = "up" =>
       /\ handler
       /\ (\E s \in Soldier : Zombie(s)) =>
            (waits = 0 /\ sigchld) \/ (waits = 1 /\ ~sigchld)
       /\ (\A s \in Soldier : ~Zombie(s)) => waits = 0 /\ ~sigchld

FamilyInv == SafeInv /\ ScriptInv /\ ListInv /\ SignalInv

LEMMA FamilyInitially == Init => FamilyInv
<1> SUFFICES ASSUME Init PROVE FamilyInv
  OBVIOUS
<1>1. SafeInv
  BY SafeInitially
<1>2. \A s \in Soldier : soldier[s] = "none" /\ parent[s] = "script" /\ Gone(s)
  BY DEF Init, Gone
<1>3. ScriptInv
  BY <1>2 DEF Init, ScriptInv
<1>4. ListInv
  BY <1>2 DEF Init, ListInv, Zombie
<1>5. SignalInv
  BY <1>2 DEF Init, SignalInv, Zombie
<1> QED
  BY <1>1, <1>3, <1>4, <1>5 DEF FamilyInv

\* Nobody but a soldier and the station touches the family.
LEMMA FamilyStays ==
  ASSUME ListInv, SignalInv, SafeInv', ScriptInv', UNCHANGED <<stationVars, familyVars, soldier>>
  PROVE  FamilyInv'
<1>1. ListInv'
  BY DEF ListInv, stationVars, familyVars, Gone, Zombie
<1>2. SignalInv'
  BY DEF SignalInv, stationVars, Zombie, Plain
<1> QED
  BY <1>1, <1>2 DEF FamilyInv

LEMMA StageStays ==
  ASSUME NEW d \in Drivers, SafeInv, d # Pid,
         \/ Insmod(d) \/ InitStep(d) \/ Unload(d) \/ OpenDevice(d) \/ CloseDevice(d)
  PROVE  stage'[Pid] = stage[Pid]
<1>1. stage \in [Drivers -> {"out", "region", "cdev", "class", "device", "in"}] /\ Pid \in Drivers
  BY SoldierAssumption DEF SafeInv, DriverInv, DriverTypeOK
<1> QED
  BY <1>1 DEF Insmod, InitStep, AllocRegion, AddCdev, CreateClass, CreateDevice, Unload,
     OpenDevice, CloseDevice, Stage

LEMMA FamilyScript ==
  ASSUME OneByOne, FamilyInv, SafeInv', ScriptStep
  PROVE  FamilyInv'
<1> USE DEF ScriptAt
<1>1. ScriptInv /\ ListInv /\ SignalInv /\ Pid \in Drivers /\ DriverTypeOK
      /\ soldier \in [Soldier -> Stages]
  BY SoldierAssumption DEF FamilyInv, SafeInv, DriverInv, FamilyTypeOK
<1>2. ASSUME UNCHANGED <<stationVars, familyVars, soldier>>, ScriptInv' PROVE FamilyInv'
  BY <1>1, <1>2, FamilyStays
<1>3. CASE ScriptInsmod
  <2>1. ScriptInv'
    BY <1>1, <1>3 DEF ScriptInv, ScriptInsmod, stationVars, Gone
  <2> QED
    BY <1>2, <1>3, <2>1 DEF ScriptInsmod
<1>4. CASE ScriptLoaded
  <2>1. ScriptInv'
    BY <1>1, <1>4 DEF ScriptInv, ScriptLoaded, driverVars, stationVars, Gone
  <2> QED
    BY <1>2, <1>4, <2>1 DEF ScriptLoaded
<1>5. CASE ScriptSleeps
  <2>1. ScriptInv'
    BY <1>1, <1>5 DEF ScriptInv, ScriptSleeps, driverVars, stationVars, Gone
  <2> QED
    BY <1>2, <1>5, <2>1 DEF ScriptSleeps
<1>6. CASE LaunchStation
  <2>1. station = "none" /\ station' = "starting" /\ \A s \in Soldier : soldier[s] = "none"
    BY <1>1, <1>6 DEF ScriptInv, LaunchStation
  <2>2. UNCHANGED <<driverVars, flags, handler, waits, sigchld, familyVars, soldier>>
        /\ script = "station" /\ script' = "soldiers"
    BY <1>6 DEF LaunchStation
  <2>3. ScriptInv'
    BY <1>1, <2>1, <2>2 DEF ScriptInv, driverVars
  <2>4. ListInv'
    BY <1>1, <2>1, <2>2 DEF ListInv, familyVars, Gone, Zombie
  <2>5. SignalInv'
    BY <1>1, <2>1, <2>2 DEF SignalInv
  <2> QED
    BY <2>3, <2>4, <2>5 DEF FamilyInv
<1>7. CASE KillStation
  <2>1. /\ script = "sleep" /\ script' = "rmmod" /\ stage' = stage
        /\ \A s \in Soldier : Gone(s) \/ Zombie(s)
        /\ IF station = "over" THEN UNCHANGED <<stationVars, familyVars, soldier, reported>>
           ELSE StationEnds
    BY <1>7 DEF KillStation, driverVars, Zombie
  <2>2. CASE station = "over"
    <3>1. \A s \in Soldier : Gone(s)
      BY <1>1, <2>1, <2>2 DEF ListInv
    <3>2. UNCHANGED <<stationVars, familyVars, soldier>>
      BY <2>1, <2>2
    <3>3. ScriptInv'
      BY <1>1, <2>1, <2>2, <3>1, <3>2 DEF ScriptInv, stationVars, Gone
    <3> QED
      BY <1>2, <3>2, <3>3
  <2>3. CASE station # "over"
    <3>1. StationEnds
      BY <2>1, <2>3
    <3>2. ASSUME NEW s \in Soldier PROVE soldier'[s] \in {"none", "gone"}
      <4>1. CASE Gone(s)
        BY <1>1, <3>1, <4>1 DEF StationEnds, Gone
      <4>2. CASE Zombie(s)
        <5>1. children = <<s>> /\ soldier[s] = "zombie"
          BY <1>1, <4>2 DEF ListInv, Zombie
        <5>2. s \in ToSet(children)
          BY <5>1 DEF ToSet
        <5> QED
          BY <3>1, <5>1, <5>2 DEF StationEnds
      <4> QED
        BY <2>1, <4>1, <4>2
    <3>3. ScriptInv'
      BY <1>1, <2>1, <3>1, <3>2 DEF ScriptInv, StationEnds, Gone
    <3>4. ASSUME NEW s \in Soldier, soldier'[s] = "none" PROVE parent'[s] = "script"
      <4>1. soldier[s] = "none"
        BY <3>1, <3>4 DEF StationEnds
      <4>2. s \notin ToSet(children)
        BY <1>1, <4>1 DEF ListInv, ToSet
      <4> QED
        BY <1>1, <3>1, <4>1, <4>2 DEF StationEnds, ListInv
    <3>5. children' = <<>>
      BY <3>1 DEF StationEnds
    <3>6. ListInv'
      BY <3>2, <3>4, <3>5 DEF ListInv, Gone, Zombie
    <3>7. SignalInv'
      BY <3>1 DEF SignalInv, StationEnds
    <3> QED
      BY <3>3, <3>6, <3>7 DEF FamilyInv
  <2> QED
    BY <2>2, <2>3
<1>8. CASE ScriptRmmod
  <2>1. opens[Pid] = 0
    <3>1. \A s \in Soldier : Gone(s)
      BY <1>1, <1>8 DEF ScriptRmmod, ScriptInv
    <3>2. Holding = {}
      BY <3>1 DEF Holding, Gone
    <3> QED
      BY <3>2, FS_EmptySet DEF FamilyInv, SafeInv
  <2>2. stage[Pid] \in {"in", "out"}
    BY <1>1, <1>8 DEF ScriptRmmod, ScriptInv
  <2>3. stage'[Pid] = "out"
    BY <1>1, <1>8, <2>1, <2>2 DEF ScriptRmmod, Unload, Stage, driverVars, DriverTypeOK
  <2>4. ScriptInv'
    BY <1>1, <1>8, <2>3 DEF ScriptInv, ScriptRmmod, stationVars, Gone
  <2> QED
    BY <1>2, <1>8, <2>4 DEF ScriptRmmod
<1> QED
  BY <1>3, <1>4, <1>5, <1>6, <1>7, <1>8 DEF ScriptStep

LEMMA FamilyStation ==
  ASSUME OneByOne, FamilyInv, SafeInv', StationStep
  PROVE  FamilyInv'
<1>1. ScriptInv /\ ListInv /\ SignalInv /\ soldier \in [Soldier -> Stages] /\ waits \in Nat
      /\ children \in Seq(Soldier)
  BY DEF FamilyInv, SafeInv, FamilyTypeOK
<1>2. CASE Sigaction
  <2>1. ScriptInv'
    BY <1>1, <1>2 DEF Sigaction, ScriptInv, driverVars, Gone
  <2>2. ListInv'
    BY <1>1, <1>2 DEF Sigaction, ListInv, familyVars, Gone, Zombie
  <2>3. \A s \in Soldier : ~Zombie(s)
    BY <1>1, <1>2 DEF Sigaction, ListInv
  <2>4. SignalInv'
    BY <1>1, <1>2, <2>3 DEF Sigaction, SignalInv, Zombie
  <2> QED
    BY <2>1, <2>2, <2>4 DEF FamilyInv
<1>3. CASE TakeSignal
  <2>1. /\ station = "up" /\ sigchld /\ waits' = waits + 1
        /\ UNCHANGED <<driverVars, script, station, flags, familyVars, soldier>>
    BY <1>3, Zenon DEF TakeSignal
  <2>2. ~sigchld'
    BY <1>3, Zenon DEF TakeSignal
  <2>3. Plain => handler'
    <3>1. Plain => "RESETHAND" \notin flags
      BY DEF Plain
    <3> QED
      BY <1>3, <3>1, Zenon DEF TakeSignal
  <2>4. ScriptInv'
    BY <1>1, <2>1 DEF ScriptInv, driverVars, Gone
  <2>5. ListInv'
    BY <1>1, <2>1 DEF ListInv, familyVars, Gone, Zombie
  <2>6. SignalInv'
    <3>1. Plain => (\E s \in Soldier : Zombie(s)) /\ waits' = 1
      BY <1>1, <2>1 DEF SignalInv
    <3>2. Plain' <=> Plain
      BY <2>1 DEF Plain
    <3>3. \A s \in Soldier : Zombie(s)' <=> Zombie(s)
      BY <2>1 DEF Zombie
    <3> QED
      BY <2>1, <2>2, <2>3, <3>1, <3>2, <3>3 DEF SignalInv
  <2> QED
    BY <2>4, <2>5, <2>6 DEF FamilyInv
<1>4. CASE WaitFails
  <2>1. /\ station = "up" /\ children = <<>> /\ StationEnds /\ ToSet(children) = {}
        /\ UNCHANGED <<driverVars, script>>
    BY <1>4 DEF WaitFails, ToSet
  <2>2. station' = "over" /\ children' = <<>> /\ UNCHANGED tail
    BY <2>1 DEF StationEnds
  <2>3. \A s \in Soldier : soldier'[s] = soldier[s] /\ parent'[s] = parent[s]
    BY <2>1 DEF StationEnds
  <2>4. \A s \in Soldier : ~Zombie(s)
    BY <1>1, <2>1 DEF ListInv
  <2>5. ScriptInv'
    BY <1>1, <2>1, <2>2, <2>3 DEF ScriptInv, driverVars, Gone
  <2>6. ListInv'
    BY <1>1, <2>2, <2>3, <2>4 DEF ListInv, Gone, Zombie
  <2>7. SignalInv'
    BY <2>2 DEF SignalInv
  <2> QED
    BY <2>5, <2>6, <2>7 DEF FamilyInv
<1>5. ASSUME NEW s \in Soldier, Report(s) PROVE FamilyInv'
  <2>1. /\ station = "up" /\ waits > 0 /\ Zombie(s) /\ soldier' = [soldier EXCEPT ![s] = "gone"]
        /\ waits' = waits - 1 /\ children' = RemoveFirst(children, s)
        /\ UNCHANGED <<driverVars, script, station, flags, handler, sigchld, parent, tail>>
    BY <1>5 DEF Report, Zombie
  <2>2. children = <<s>>
    BY <1>1, <2>1 DEF ListInv
  <2>3. children' = <<>>
    BY <1>1, <2>1, <2>2, ListDel
  <2>4. \A t \in Soldier : soldier'[t] \in {"none", "gone"}
                             /\ (soldier'[t] = "none" => soldier[t] = "none")
    BY <1>1, <2>1 DEF ListInv, Gone, Zombie
  <2>5. ScriptInv'
    BY <1>1, <2>1, <2>4 DEF ScriptInv, driverVars, Gone
  <2>6. ListInv'
    BY <1>1, <2>1, <2>3, <2>4 DEF ListInv, Gone, Zombie
  <2>7. SignalInv'
    BY <1>1, <2>1, <2>4 DEF SignalInv, Zombie, Plain
  <2> QED
    BY <2>5, <2>6, <2>7 DEF FamilyInv
<1> QED
  BY <1>2, <1>3, <1>4, <1>5 DEF StationStep


\* The others are gone, or have not come, while a soldier takes a step.
LEMMA Alone ==
  ASSUME OneByOne, FamilyInv, NEW s \in Soldier, LaunchSoldier(s) \/ SoldierStep(s) \/ End(s)
  PROVE  /\ \A t \in Soldier \ {s} : Gone(t)
         /\ ScriptInv'
         /\ UNCHANGED <<script, station, flags, handler, waits, reported>>
         /\ station # "none"
<1>1. ScriptInv /\ ListInv /\ soldier \in [Soldier -> Stages]
  BY DEF FamilyInv, SafeInv, FamilyTypeOK
<1>2. UNCHANGED <<script, station, flags, handler, waits, reported>>
  BY DEF LaunchSoldier, SoldierStep, Open, Lookup, Reparent, AddRead, AddWrite, Close, End,
     stationVars
<1>3. CASE LaunchSoldier(s)
  <2>1. \A t \in Soldier : Gone(t)
    BY <1>3 DEF LaunchSoldier
  <2>2. station # "none" /\ script = "soldiers" /\ UNCHANGED stage
    BY <1>1, <1>3 DEF LaunchSoldier, ScriptInv, driverVars
  <2>3. ScriptInv'
    BY <1>1, <1>2, <2>2 DEF ScriptInv
  <2> QED
    BY <1>2, <2>1, <2>2, <2>3
<1>4. CASE SoldierStep(s) \/ End(s)
  <2>1. ~Gone(s)
    BY <1>4 DEF SoldierStep, Open, Lookup, Reparent, AddRead, AddWrite, Close, End, At, Gone
  <2>2. UNCHANGED stage
    BY <1>4 DEF SoldierStep, Open, Lookup, Reparent, AddRead, AddWrite, Close, End, driverVars,
       OpenDevice, CloseDevice
  <2>3. script \notin {"rmmod", "done"} /\ station # "none"
    BY <1>1, <2>1 DEF ScriptInv, Gone
  <2>4. ScriptInv'
    BY <1>1, <1>2, <2>2, <2>3 DEF ScriptInv
  <2> QED
    BY <1>1, <1>2, <2>1, <2>3, <2>4 DEF ListInv
<1> QED
  BY <1>3, <1>4

\* What is to be seen of the list when one soldier has taken a step.
LEMMA OneStep ==
  ASSUME FamilyInv, NEW s \in Soldier, \A t \in Soldier \ {s} : Gone(t),
         NEW to \in Stages, soldier' = [soldier EXCEPT ![s] = to],
         NEW from, parent' = [parent EXCEPT ![s] = from],
         NEW end, tail' = [tail EXCEPT ![s] = end],
         station' = station,
         \/ children' = <<>>
         \/ /\ children' = <<s>> /\ to \in {"close", "sleep", "zombie"}
            /\ from = "station" /\ station \in {"starting", "up"},
         to \in {"none", "open", "ioctl", "unlink"} => from = "script",
         to \in {"add", "link"} => from = "station",
         to = "link" => end = ListHead,
         to \in {"close", "sleep"} /\ from = "station" /\ station \in {"starting", "up"}
           => children' = <<s>>,
         to = "zombie" => station = "up" /\ children' = <<s>>
  PROVE  ListInv'
<1>1. /\ ListInv /\ soldier \in [Soldier -> Stages]
      /\ parent \in [Soldier -> {"script", "station", "init"}]
      /\ tail \in [Soldier -> Soldier \cup {ListHead}]
  BY DEF FamilyInv, SafeInv, FamilyTypeOK
<1>2. soldier'[s] = to /\ parent'[s] = from /\ tail'[s] = end
  BY <1>1
<1>3. \A t \in Soldier \ {s} :
        soldier'[t] \in {"none", "gone"} /\ (soldier'[t] = "none" => parent'[t] = "script")
  BY <1>1 DEF ListInv, Gone
<1> QED
  BY <1>2, <1>3 DEF ListInv, Gone, Zombie

LEMMA FamilySoldier ==
  ASSUME OneByOne, FamilyInv, SafeInv', NEW s \in Soldier,
         LaunchSoldier(s) \/ SoldierStep(s) \/ End(s)
  PROVE  FamilyInv'
<1>1. /\ ScriptInv /\ ListInv /\ SignalInv /\ soldier \in [Soldier -> Stages]
      /\ parent \in [Soldier -> {"script", "station", "init"}]
      /\ tail \in [Soldier -> Soldier \cup {ListHead}]
      /\ children \in Seq(Soldier)
  BY DEF FamilyInv, SafeInv, FamilyTypeOK
<1>2. /\ \A t \in Soldier \ {s} : Gone(t)
      /\ ScriptInv'
      /\ UNCHANGED <<script, station, flags, handler, waits, reported>>
      /\ station # "none"
  BY Alone
<1>3. SUFFICES ListInv' /\ SignalInv'
  BY <1>2 DEF FamilyInv
\* The list while a soldier is not on it.
<1>4. soldier[s] \notin {"close", "sleep", "zombie"} => children = <<>>
  <2>1. ASSUME NEW t \in Soldier, soldier[t] \in {"close", "sleep", "zombie"} PROVE t = s
    BY <1>2, <2>1 DEF Gone
  <2> QED
    BY <1>1, <2>1 DEF ListInv
\* A step without a signal, of a soldier that is not a zombie and does not become one.
<1>5. ASSUME sigchld' = sigchld, ~Zombie(s), NEW to \in Stages, to # "zombie",
             soldier' = [soldier EXCEPT ![s] = to]
      PROVE  SignalInv'
  <2>1. \A t \in Soldier : ~Zombie(t) /\ ~Zombie(t)'
    BY <1>1, <1>2, <1>5 DEF Zombie, Gone
  <2>2. Plain' <=> Plain
    BY <1>2 DEF Plain
  <2> QED
    BY <1>1, <1>2, <1>5, <2>1, <2>2 DEF SignalInv
<1>6. parent = [parent EXCEPT ![s] = parent[s]] /\ tail = [tail EXCEPT ![s] = tail[s]]
  BY <1>1
\* A step that changes nothing but where the soldier is, outside the list.
<1>7. ASSUME NEW from, NEW to \in Stages \ {"zombie"}, At(s, from, to), from # "zombie",
             UNCHANGED <<stationVars, familyVars>>,
             \/ from \in {"none", "open", "ioctl"} /\ to \in {"open", "ioctl", "unlink", "gone"}
             \/ from = "ioctl" /\ to = "close"
             \/ from = "close" /\ to = "sleep"
      PROVE  ListInv' /\ SignalInv'
  <2>1. soldier[s] = from /\ soldier' = [soldier EXCEPT ![s] = to] /\ sigchld' = sigchld
        /\ children' = children /\ parent' = [parent EXCEPT ![s] = parent[s]]
        /\ tail' = [tail EXCEPT ![s] = tail[s]] /\ station' = station
    BY <1>6, <1>7 DEF At, stationVars, familyVars
  <2>2. SignalInv'
    BY <1>5, <1>7, <2>1 DEF Zombie
  <2>3. from \in {"none", "open", "ioctl"} => children = <<>> /\ parent[s] = "script"
    BY <1>1, <1>4, <2>1 DEF ListInv
  <2>4. from = "close" =>
          /\ \/ children = <<>>
             \/ children = <<s>> /\ parent[s] = "station" /\ station \in {"starting", "up"}
          /\ parent[s] = "station" /\ station \in {"starting", "up"} => children = <<s>>
    BY <1>1, <1>2, <2>1 DEF ListInv, Gone
  <2>5. to \notin {"add", "link"}
    BY <1>7
  <2>6. ListInv'
    BY <1>2, <1>7, <2>1, <2>3, <2>4, <2>5, OneStep
  <2> QED
    BY <2>2, <2>6
<1>8. CASE LaunchSoldier(s)
  BY <1>7, <1>8 DEF LaunchSoldier, Stages
<1>9. CASE Open(s)
  BY <1>7, <1>9 DEF Open, Stages
<1>10. CASE Lookup(s)
  <2>1. /\ UNCHANGED <<stationVars, familyVars>>
        /\ At(s, "ioctl", "unlink") \/ At(s, "ioctl", "close")
    BY <1>10 DEF Lookup
  <2>2. CASE At(s, "ioctl", "unlink")
    BY <1>7, <2>1, <2>2 DEF Stages
  <2>3. CASE At(s, "ioctl", "close")
    BY <1>7, <2>1, <2>3 DEF Stages
  <2> QED
    BY <2>1, <2>2, <2>3
<1>11. CASE Close(s)
  BY <1>7, <1>11 DEF Close, Stages
<1>12. CASE Reparent(s)
  <2>1. soldier[s] = "unlink" /\ soldier' = [soldier EXCEPT ![s] = "add"] /\ sigchld' = sigchld
        /\ parent' = [parent EXCEPT ![s] = "station"]
        /\ children' = children /\ tail' = [tail EXCEPT ![s] = tail[s]]
    BY <1>6, <1>12 DEF Reparent, At, stationVars
  <2>2. SignalInv'
    BY <1>5, <2>1 DEF Zombie, Stages
  <2>3. ListInv'
    BY <1>2, <1>4, <2>1, OneStep DEF Stages
  <2> QED
    BY <2>2, <2>3
<1>13. CASE AddRead(s)
  <2>1. soldier[s] = "add" /\ soldier' = [soldier EXCEPT ![s] = "link"] /\ sigchld' = sigchld
        /\ parent' = [parent EXCEPT ![s] = parent[s]] /\ children' = children
    BY <1>6, <1>13 DEF AddRead, At, stationVars
  <2>2. children = <<>> /\ parent[s] = "station"
    BY <1>1, <1>4, <2>1 DEF ListInv
  <2>3. tail' = [tail EXCEPT ![s] = ListHead]
    BY <1>13, <2>2 DEF AddRead
  <2>4. SignalInv'
    BY <1>5, <2>1 DEF Zombie, Stages
  <2>5. ListInv'
    BY <1>2, <2>1, <2>2, <2>3, OneStep DEF Stages
  <2> QED
    BY <2>4, <2>5
<1>14. CASE AddWrite(s)
  <2>1. soldier[s] = "link" /\ soldier' = [soldier EXCEPT ![s] = "close"] /\ sigchld' = sigchld
        /\ parent' = [parent EXCEPT ![s] = parent[s]] /\ tail' = [tail EXCEPT ![s] = ListHead]
    BY <1>6, <1>14 DEF AddWrite, At, stationVars
  <2>2. tail[s] = ListHead /\ parent[s] = "station" /\ station \in {"starting", "up", "over"}
    <3>1. station \in {"none", "starting", "up", "over"}
      BY DEF FamilyInv, SafeInv, FamilyTypeOK
    <3> QED
      BY <1>1, <1>2, <2>1, <3>1 DEF ListInv
  <2>3. children' = IF station = "over" THEN <<>> ELSE <<s>>
    BY <1>14, <2>2 DEF AddWrite
  <2>4. SignalInv'
    BY <1>5, <2>1 DEF Zombie, Stages
  <2>5. ListInv'
    BY <1>2, <2>1, <2>2, <2>3, OneStep DEF Stages
  <2> QED
    BY <2>4, <2>5
<1>15. CASE End(s)
  <2>1. /\ soldier[s] \in {"open", "close", "sleep"} /\ Quiet
        /\ parent' = [parent EXCEPT ![s] = parent[s]] /\ tail' = [tail EXCEPT ![s] = tail[s]]
    BY <1>6, <1>15 DEF End
  <2>2. \A t \in Soldier : ~Zombie(t)
    BY <1>2, <2>1 DEF Zombie, Gone
  <2>3. children = <<>> \/ children = <<s>>
    BY <1>1, <1>2 DEF ListInv, Gone
  <2>4. CASE ~ (parent[s] = "station" /\ station \in {"starting", "up"})
    <3>1. soldier' = [soldier EXCEPT ![s] = "gone"] /\ UNCHANGED <<sigchld, children>>
      BY <1>15, <2>4 DEF End
    <3>2. SignalInv'
      BY <1>5, <2>2, <3>1 DEF Stages
    <3>3. children = <<>>
      BY <1>1, <2>1, <2>3, <2>4 DEF ListInv
    <3>4. ListInv'
      BY <1>2, <2>1, <3>1, <3>3, OneStep DEF Stages
    <3> QED
      BY <3>2, <3>4
  <2>5. CASE parent[s] = "station" /\ station \in {"starting", "up"}
    <3>1. children = <<s>> /\ station = "up" /\ waits = 0 /\ ~sigchld
      BY <1>1, <2>1, <2>5 DEF ListInv, Quiet
    <3>2. CASE handler /\ "NOCLDWAIT" \in flags
      <4>1. soldier' = [soldier EXCEPT ![s] = "gone"] /\ children' = RemoveFirst(children, s)
        BY <1>15, <2>5, <3>2 DEF End
      <4>2. children' = <<>>
        BY <1>1, <3>1, <4>1, ListDel
      <4>3. ListInv'
        BY <1>2, <2>1, <4>1, <4>2, OneStep DEF Stages
      <4>4. ~Plain'
        BY <1>2, <3>2 DEF Plain
      <4>5. SignalInv'
        BY <1>2, <3>1, <4>4 DEF SignalInv
      <4> QED
        BY <4>3, <4>5
    <3>3. CASE ~ (handler /\ "NOCLDWAIT" \in flags)
      <4>1. soldier' = [soldier EXCEPT ![s] = "zombie"] /\ children' = children
            /\ sigchld' = (sigchld \/ handler)
        BY <1>15, <2>5, <3>3, Zenon DEF End
      <4>2. ListInv'
        BY <1>2, <2>1, <2>5, <3>1, <4>1, OneStep DEF Stages
      <4>3. Plain => handler /\ sigchld'
        BY <1>1, <3>1, <4>1 DEF SignalInv
      <4>4. Plain' <=> Plain
        BY <1>2 DEF Plain
      <4>5. Zombie(s)'
        BY <1>1, <4>1 DEF Zombie
      <4>6. SignalInv'
        BY <1>2, <3>1, <4>3, <4>4, <4>5 DEF SignalInv
      <4> QED
        BY <4>2, <4>6
    <3> QED
      BY <3>2, <3>3
  <2> QED
    BY <2>4, <2>5
<1> QED
  BY <1>8, <1>9, <1>10, <1>11, <1>12, <1>13, <1>14, <1>15 DEF SoldierStep

LEMMA FamilySteps ==
  ASSUME OneByOne, FamilyInv, Next
  PROVE  FamilyInv'
<1>1. SafeInv'
  BY SafeSteps DEF FamilyInv
<1>2. CASE ScriptStep
  BY <1>1, <1>2, FamilyScript
<1>3. CASE StationStep
  BY <1>1, <1>3, FamilyStation
<1>4. ASSUME NEW s \in Soldier, LaunchSoldier(s) \/ SoldierStep(s) \/ End(s) PROVE FamilyInv'
  BY <1>1, <1>4, FamilySoldier
<1>5. ASSUME NEW d \in Drivers, Registration(d) \/ OtherDriver(d) PROVE FamilyInv'
  <2>1. UNCHANGED <<script, stationVars, familyVars, soldier>>
    BY <1>5 DEF Registration, OtherDriver
  <2>2. ScriptInv /\ ListInv /\ SignalInv
    BY DEF FamilyInv
  <2>3. CASE d # Pid
    <3>1. stage'[Pid] = stage[Pid]
      BY <1>5, <2>3, StageStays DEF Registration, OtherDriver, FamilyInv
    <3>2. ScriptInv'
      BY <2>1, <2>2, <3>1 DEF ScriptInv, stationVars, Gone
    <3> QED
      BY <1>1, <2>1, <2>2, <3>2, FamilyStays
  <2>4. CASE d = Pid
    <3>1. InitStep(Pid)
      BY <1>5, <2>4 DEF Registration, OtherDriver
    <3>2. stage[Pid] \notin {"in", "out"}
      BY <3>1 DEF InitStep, AllocRegion, AddCdev, CreateClass, CreateDevice, Stage
    <3>3. ScriptInv'
      BY <2>1, <2>2, <3>2 DEF ScriptInv, stationVars, Gone
    <3> QED
      BY <1>1, <2>1, <2>2, <3>3, FamilyStays
  <2> QED
    BY <2>3, <2>4
<1> QED
  BY <1>2, <1>3, <1>4, <1>5 DEF Next

LEMMA FamilySuffices ==
  FamilyInv => NothingLeftBehind /\ (Plain => ~WaitFails)
<1> SUFFICES ASSUME FamilyInv PROVE NothingLeftBehind /\ (Plain => ~WaitFails)
  OBVIOUS
<1>1. TypeOK /\ NothingLeft
  BY SafeSuffices DEF FamilyInv
<1>2. ScriptInv /\ ListInv /\ SignalInv /\ waits \in Nat
  BY DEF FamilyInv, SafeInv, FamilyTypeOK
<1>3. NoZombieLeft
  BY <1>2 DEF NoZombieLeft, Quiet, SignalInv, Zombie
<1>4. LeavesNothing
  <2>1. script = "done" => stage[Pid] = "out"
    BY <1>2 DEF ScriptInv
  <2>2. stage[Pid] = "out" => opens[Pid] = 0
    BY <1>1, SoldierAssumption DEF NothingLeft
  <2> QED
    BY <1>2, <2>1, <2>2 DEF LeavesNothing, ScriptInv
<1>5. Plain => ~WaitFails
  BY <1>2 DEF WaitFails, SignalInv, ListInv
<1> QED
  BY <1>1, <1>3, <1>4, <1>5 DEF NothingLeftBehind

-----------------------------------------------------------------------------
\* However many soldiers there are, and whoever comes when: the types, and that a driver whose
\* init failed or that was removed is known to the kernel no more.
THEOREM DriversCleanUp == MCSpec => [](TypeOK /\ NothingLeft)
<1>1. MCInit => SafeInv
  BY SafeInitially DEF MCInit
<1>2. SafeInv /\ [MCNext]_mcVars => SafeInv'
  <2> SUFFICES ASSUME SafeInv, [MCNext]_mcVars PROVE SafeInv'
    OBVIOUS
  <2>1. CASE Doom(Next)
    BY <2>1, SafeSteps DEF Doom, In
  <2>2. CASE UNCHANGED vars
    <3>1. DriverInv' /\ opens' = opens
      BY <2>2, DriverStays DEF SafeInv, vars, driverVars
    <3>2. FamilyTypeOK' /\ Holding' = Holding
      BY <2>2 DEF SafeInv, FamilyTypeOK, Holding, vars, stationVars, familyVars
    <3> QED
      BY <3>1, <3>2 DEF SafeInv
  <2> QED
    BY <2>1, <2>2 DEF MCNext, mcVars, Namespaces, Kvm, User, In
<1> QED
  BY <1>1, <1>2, SafeSuffices, PTL DEF MCSpec


\* The family's invariant, when a soldier comes only after the one before.
LEMMA FamilyHolds ==
  ASSUME OneByOne
  PROVE  MCSpec => []FamilyInv /\ [][Plain => ~WaitFails]_vars
<1>1. MCInit => FamilyInv
  BY FamilyInitially DEF MCInit
<1>2. FamilyInv /\ [MCNext]_mcVars => FamilyInv' /\ [Plain => ~WaitFails]_vars
  <2> SUFFICES ASSUME FamilyInv, [MCNext]_mcVars PROVE FamilyInv' /\ [Plain => ~WaitFails]_vars
    OBVIOUS
  <2>1. Plain => ~WaitFails
    BY FamilySuffices
  <2>2. CASE Doom(Next)
    BY <2>1, <2>2, FamilySteps DEF Doom, In
  <2>3. CASE UNCHANGED vars
    <3>1. SafeInv'
      <4>1. DriverInv' /\ opens' = opens
        BY <2>3, DriverStays DEF FamilyInv, SafeInv, vars, driverVars
      <4>2. FamilyTypeOK' /\ Holding' = Holding
        BY <2>3 DEF FamilyInv, SafeInv, FamilyTypeOK, Holding, vars, stationVars, familyVars
      <4> QED
        BY <4>1, <4>2 DEF FamilyInv, SafeInv
    <3>2. UNCHANGED <<stationVars, familyVars, soldier>> /\ UNCHANGED <<script, stage>>
      BY <2>3 DEF vars, driverVars
    <3>3. ScriptInv'
      BY <3>2 DEF FamilyInv, ScriptInv, stationVars, Gone
    <3> QED
      BY <2>1, <3>1, <3>2, <3>3, FamilyStays DEF FamilyInv
  <2> QED
    BY <2>1, <2>2, <2>3 DEF MCNext, mcVars, Namespaces, Kvm, User, In
<1> QED
  BY <1>1, <1>2, PTL DEF MCSpec

\* The types, no zombie, and nothing left behind by a script that starts its soldiers one after
\* the other.
THEOREM NothingIsLeft ==
  ASSUME OneByOne
  PROVE  MCSpec => []NothingLeftBehind
<1>1. FamilyInv => NothingLeftBehind
  BY FamilySuffices
<1> QED
  BY <1>1, FamilyHolds, PTL

\* The wait() of the station's handler finds its child: the part of StationHears that says what
\* the station never does.
THEOREM StationIsStaying ==
  ASSUME OneByOne
  PROVE  MCSpec => StationStays
BY FamilyHolds, PTL DEF StationStays
=============================================================================
