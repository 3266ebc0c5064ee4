----------------------------- MODULE SimpleKvm -----------------------------
(***************************************************************************)
(* simple-kvm and the guest it runs, Assignment-2/part1b: the hypervisor   *)
(* sets up a virtual machine in one of four modes and answers hypercalls,  *)
(* which the guest makes by I/O on ports.  The guest is any program that   *)
(* makes the hypercalls of guest.c, with _start as one of them.            *)
(***************************************************************************)
EXTENDS Naturals, Sequences, FiniteSets

CONSTANTS
  Modes,      \* of "real", "protected", "paged32", "long"
  Values,     \* what a guest prints: bytes and 32-bit values
  BadAddr,    \* an address that no page table maps
  Strings,    \* the addresses of the guest's own strings
  Slots,      \* the number of strings in str1
  MaxExits    \* bound: how many exits a run has

VARIABLES
  pc,         \* the set-up call that is next, "guest", "exit", "check" or "done"
  mode,
  status,     \* what main returns or exit() is given
  exit,       \* kvm_run: [reason, port, value]
  numexit, numexit_in, numexit_out,
  str_ind, str1,     \* the guest's texts, each <<in, out>> or empty
  seen,       \* what the last HC_numExits returned
  hva,        \* what the last HC_gvaToHva returned
  mem400, rax,
  console,    \* what was printed last: [what, args]
  made, texts \* history: the calls made, by port; the counts when each text was asked for

guest == <<str_ind, str1, seen, hva, mem400, rax>>
counts == <<numexit, numexit_in, numexit_out>>
vars == <<pc, mode, status, exit, guest, counts, console, made, texts>>

NoExit == [reason |-> "none", port |-> "none", value |-> 0]

Init ==
  /\ pc = "dev" /\ mode \in Modes /\ status = "none"
  /\ exit = NoExit
  /\ numexit = 0 /\ numexit_in = 0 /\ numexit_out = 0
  /\ str_ind = 0 /\ str1 = [i \in 0..Slots - 1 |-> <<>>]
  /\ seen = 0 /\ hva = 0 /\ mem400 = 0 /\ rax = 0
  /\ console = [what |-> "nothing", args |-> <<>>]
  /\ made = <<>> /\ texts = [i \in 0..Slots - 1 |-> <<>>]

Ends(s) == pc' = "done" /\ status' = s

-----------------------------------------------------------------------------
(* The set-up: a sequence of calls, each of which may fail and end it all  *)

vm_init == <<"dev", "version", "create_vm", "tss", "mem", "region">>
vcpu_init == <<"create_vcpu", "mmap_size", "mmap_run">>
run_mode == <<"get_sregs", "set_sregs", "set_regs">>
SetUpCalls == vm_init \o vcpu_init \o run_mode

SetUp ==
  /\ \E i \in DOMAIN SetUpCalls :
       /\ pc = SetUpCalls[i]
       /\ \/ /\ pc' = IF i = Len(SetUpCalls) THEN "guest" ELSE SetUpCalls[i + 1]
             /\ UNCHANGED status
          \/ Ends("exit 1")
  /\ UNCHANGED <<mode, exit, guest, counts, console, made, texts>>

\* KVM_TRANSLATE: without paging every address is valid, with it those of the one
\* large page that setup_paged_32bit_mode and setup_long_mode map.
Translates(a) == mode \in {"real", "protected"} \/ a # BadAddr

\* The guest's result, which sz bytes at 0x400 hold; memory begins as zero.
Correct == rax = 42 /\ mem400 = 42

-----------------------------------------------------------------------------
(* The guest                                                               *)

Traps(reason, port, value) ==
  /\ pc = "guest" /\ numexit < MaxExits
  /\ pc' = "exit"
  /\ exit' = [reason |-> reason, port |-> port, value |-> value]
  /\ UNCHANGED <<mode, status, counts, console>>

HC_print8bit ==
  /\ \E v \in Values : Traps("io", "0xE9", v)
  /\ made' = Append(made, "out") /\ UNCHANGED <<guest, texts>>

HC_print32bit ==
  /\ \E v \in Values : Traps("io", "0xEA", v)
  /\ made' = Append(made, "out") /\ UNCHANGED <<guest, texts>>

HC_numExits ==
  /\ Traps("io", "0xEB", 0)
  /\ made' = Append(made, "in") /\ UNCHANGED <<guest, texts>>

\* A string of its own, or one that HC_numExitsByType has returned.
HC_printStr ==
  /\ \E a \in Strings \cup {BadAddr} \cup {i \in DOMAIN str1 : str1[i] # <<>>} :
       Traps("io", "0xEC", a)
  /\ made' = Append(made, "out") /\ UNCHANGED <<guest, texts>>

MadeOf(kind) == Cardinality({i \in DOMAIN made' : made'[i] = kind})

HC_numExitsByType ==
  /\ str_ind < Slots
  /\ Traps("io", "0xED", str_ind)
  /\ made' = Append(made, "out")
  /\ texts' = [texts EXCEPT ![str_ind] = <<MadeOf("in"), MadeOf("out")>>]
  /\ str_ind' = str_ind + 1
  /\ UNCHANGED <<str1, seen, hva, mem400, rax>>

HC_gvaToHva ==
  /\ \E gva \in Strings \cup {BadAddr} : Traps("io", "0xFF0", gva)
  /\ made' = Append(made, "out")
  /\ hva' = 0
  /\ UNCHANGED <<str_ind, str1, seen, mem400, rax, texts>>

\* The end of _start and of guest16: the result goes to memory and to rax.
GuestEnds ==
  /\ Traps("hlt", "none", 0)
  /\ mem400' = 42 /\ rax' = 42
  /\ UNCHANGED <<str_ind, str1, seen, hva, made, texts>>

\* Some other guest halts with something else, or leaves the guest in another way.
GuestFails ==
  /\ \E reason \in {"hlt", "other"} : Traps(reason, "none", 0)
  /\ mem400' \in {0, 42} /\ rax' \in {0, 42}
  /\ UNCHANGED <<str_ind, str1, seen, hva, made, texts>>

-----------------------------------------------------------------------------
(* run_vm                                                                  *)

RunFails ==
  /\ pc = "guest" /\ Ends("exit 1")
  /\ UNCHANGED <<mode, exit, guest, counts, console, made, texts>>

\* The hypercall on this port, in this direction; then the guest goes on.
Port(p) == pc = "exit" /\ exit.reason = "io" /\ exit.port = p /\ numexit' = numexit + 1
Resume == pc' = "guest" /\ exit' = NoExit /\ UNCHANGED <<mode, status, made, texts>>
Prints(what, args) == console' = [what |-> what, args |-> args]
CountOut == numexit_out' = numexit_out + 1 /\ UNCHANGED numexit_in

PrintValue ==
  /\ Port("0xE9") \/ Port("0xEA")
  /\ Resume /\ CountOut
  /\ Prints("value", <<exit.value>>)
  /\ UNCHANGED guest

NumExits ==
  /\ Port("0xEB")
  /\ Resume
  /\ seen' = numexit'
  /\ numexit_in' = numexit_in + 1
  /\ UNCHANGED <<numexit_out, str_ind, str1, hva, mem400, rax, console>>

TranslateFails ==
  /\ pc = "exit" /\ exit.port \in {"0xEC", "0xED", "0xFF0"}
  /\ numexit' = numexit + 1
  /\ IF exit.port = "0xED" THEN CountOut ELSE UNCHANGED <<numexit_in, numexit_out>>
  /\ Ends("exit 1")
  /\ UNCHANGED <<mode, exit, guest, console, made, texts>>

PrintStr ==
  /\ Port("0xEC")
  /\ Resume /\ CountOut
  /\ IF ~Translates(exit.value) THEN Prints("Invalid String Addr", <<>>)
     ELSE IF exit.value \in DOMAIN str1 THEN Prints("text", str1[exit.value])
     ELSE Prints("string", <<exit.value>>)
  /\ UNCHANGED guest

\* Slip: the exit itself is counted after the text is made.
NumExitsByType_CountsAfter ==
  /\ Port("0xED")
  /\ Resume /\ CountOut
  /\ str1' = [str1 EXCEPT ![exit.value] = <<numexit_in, numexit_out>>]
  /\ UNCHANGED <<str_ind, seen, hva, mem400, rax, console>>

\* It counts itself before it makes the text.
NumExitsByType ==
  /\ Port("0xED")
  /\ Resume /\ CountOut
  /\ str1' = [str1 EXCEPT ![exit.value] = <<numexit_in, numexit_out'>>]
  /\ UNCHANGED <<str_ind, seen, hva, mem400, rax, console>>

GvaToHva ==
  /\ Port("0xFF0")
  /\ Resume /\ CountOut
  /\ hva' = IF Translates(exit.value) THEN exit.value ELSE 0
  /\ IF Translates(exit.value) THEN UNCHANGED console ELSE Prints("Invalid GVA", <<>>)
  /\ UNCHANGED <<str_ind, str1, seen, mem400, rax>>

Halted ==
  /\ pc = "exit" /\ exit.reason = "hlt"
  /\ numexit' = numexit + 1
  /\ pc' = "check"
  /\ UNCHANGED <<mode, status, exit, guest, numexit_in, numexit_out, console, made, texts>>

OtherExit ==
  /\ pc = "exit" /\ exit.reason = "other"
  /\ numexit' = numexit + 1
  /\ Ends("exit 1")
  /\ UNCHANGED <<mode, exit, guest, numexit_in, numexit_out, console, made, texts>>

\* main returns !run_vm.
Check ==
  /\ pc = "check"
  /\ \/ Ends(IF Correct THEN "return 0" ELSE "return 1")
     \/ Ends("exit 1")
  /\ UNCHANGED <<mode, exit, guest, counts, console, made, texts>>

Next ==
  \/ SetUp \/ HC_print8bit \/ HC_print32bit \/ HC_numExits \/ HC_printStr
  \/ HC_numExitsByType \/ HC_gvaToHva \/ GuestEnds \/ GuestFails
  \/ RunFails \/ PrintValue \/ NumExits \/ TranslateFails \/ PrintStr \/ NumExitsByType
  \/ GvaToHva \/ Halted \/ OtherExit \/ Check

-----------------------------------------------------------------------------
\* What the guest is told of its exits is what it made of them: the number it reads
\* counts that read itself, and each text has the calls up to the one that asked for it,
\* and keeps it while others are asked for.
GuestIsToldTheTruth ==
  pc = "guest" =>
    /\ \A i \in DOMAIN made :
         made[i] = "in" /\ (\A k \in i + 1..Len(made) : made[k] = "out") => seen = i
    /\ numexit = Len(made)
    /\ str1 = texts

\* The program succeeds only with a guest that halted with 42 in both places.
SuccessIs42 ==
  status = "return 0" => exit.reason = "hlt" /\ Correct
=============================================================================
