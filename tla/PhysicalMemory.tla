--------------------------- MODULE PhysicalMemory ---------------------------
(***************************************************************************)
(* Assignment-1/2_I: user.c asks the driver ioctl_mod.c for the physical   *)
(* address of a byte of its heap, and then has it write to that address.   *)
(* Between the two calls, and before the first, the kernel may take the    *)
(* page away, give its frame to somebody else, and bring it back           *)
(* elsewhere.  Numbers are unsigned long, of W bits here.                  *)
(***************************************************************************)
EXTENDS Integers

CONSTANTS
  W,         \* bits of an unsigned long and of a page table entry
  PAGE,      \* PAGE_SIZE
  Frames,    \* the frames of memory
  Offsets    \* where in its page the byte may be

VARIABLES
  pc,        \* the next thing that user.c does, "done", or "oops"
  vaddr,     \* where in its page user_memory points to
  nx,        \* the page is not executable
  pte,       \* the frame the page is in, or None
  ram,       \* the byte of each frame at that offset
  swap,      \* the byte when the page is in no frame
  physical,  \* user_data.physical_address
  shown,     \* what user.c prints at its end
  gone       \* history: the page was away at the first call, or moved since

vars == <<pc, vaddr, nx, pte, ram, swap, physical, shown, gone>>

None == -1
Others == 9      \* the byte of a frame that is somebody else's
TOP == 2 ^ (W - 1)

Init ==
  /\ pc = "open" /\ vaddr \in Offsets /\ nx \in BOOLEAN
  /\ pte = None /\ ram = [f \in Frames |-> Others] /\ swap = 0
  /\ physical = 0 /\ shown = 0 /\ gone = FALSE

\* The entry: the frame, and NX in its highest bit.
pte_val == pte * PAGE + (IF nx THEN TOP ELSE 0)

\* Slip: the NX bit is not taken off the frame's address.
get_physical_address_NoMask ==
  IF pte = None THEN 2 ^ W - 1
  ELSE (pte_val + vaddr) % 2 ^ W

\* PAGE_MASK keeps the NX bit, and subtracting 2^63 takes it away again.
get_physical_address ==
  IF pte = None THEN 2 ^ W - 1
  ELSE (pte_val + vaddr + TOP) % 2 ^ W

\* open and malloc.
Open ==
  /\ pc = "open" /\ pc' \in {"assign", "done"}
  /\ UNCHANGED <<vaddr, nx, pte, ram, swap, physical, shown, gone>>

\* A page that is not there is brought in when user.c touches its byte.
Resident(f) == IF pte = None THEN ram[f] = Others ELSE f = pte

Assign ==
  /\ pc = "assign" /\ pc' = "get"
  /\ \E f \in Frames :
       /\ Resident(f)
       /\ pte' = f
       /\ ram' = [ram EXCEPT ![f] = 6]
  /\ UNCHANGED <<vaddr, nx, swap, physical, shown, gone>>

\* IOCTL_GET_PHYSICAL_ADDRESS.
Get ==
  /\ pc = "get" /\ pc' = "write"
  /\ physical' = get_physical_address
  /\ gone' = (pte = None)
  /\ UNCHANGED <<vaddr, nx, pte, ram, swap, shown>>

\* IOCTL_WRITE_TO_PHYSICAL: __va of an address beyond memory is no address.
Write ==
  /\ pc = "write"
  /\ LET f == physical \div PAGE
     IN IF f \in Frames
        THEN pc' = "verify"
             /\ ram' = IF physical % PAGE = vaddr THEN [ram EXCEPT ![f] = 5] ELSE ram
        ELSE pc' = "oops" /\ UNCHANGED ram
  /\ UNCHANGED <<vaddr, nx, pte, swap, physical, shown, gone>>

Verify ==
  /\ pc = "verify" /\ pc' = "done"
  /\ \E f \in Frames :
       /\ Resident(f)
       /\ pte' = f
       /\ shown' = IF pte = None THEN swap ELSE ram[f]
       /\ ram' = IF pte = None THEN [ram EXCEPT ![f] = swap] ELSE ram
  /\ UNCHANGED <<vaddr, nx, swap, physical, gone>>

\* The kernel reclaims the page, and somebody else gets its frame.
Reclaim ==
  /\ pte # None /\ pc \in {"get", "write", "verify"}
  /\ pte' = None /\ swap' = ram[pte]
  /\ ram' = [ram EXCEPT ![pte] = Others]
  /\ gone' = (gone \/ pc = "write")
  /\ UNCHANGED <<pc, vaddr, nx, physical, shown>>

Next == Open \/ Assign \/ Get \/ Write \/ Verify \/ Reclaim

-----------------------------------------------------------------------------
\* The second call writes to the byte that the first was asked about, and to nothing
\* else, for a page of data that stays where it is from one to the other; also when it
\* moves before or after.  (Of an executable page the address is wrong by 2^63.)
WritesItsOwnByte ==
  nx /\ ~gone =>
    /\ pc # "oops"
    /\ pc \in {"verify", "done"} => \A f \in Frames : f # pte => ram[f] = Others
    /\ pc = "done" /\ shown # 0 => shown = 5
=============================================================================
