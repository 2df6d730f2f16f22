---------------------------- MODULE MemsymParams ----------------------------
(***************************************************************************)
(* The constants of the paged-memory simulator lab06-Group12/memsym.c and  *)
(* the address arithmetic, shared by the simulator (Memsym), the machine   *)
(* without a TLB that it must be indistinguishable from (PagedMemory) and  *)
(* the recency queue its TLB must implement (TlbQueue).                    *)
(***************************************************************************)
EXTENDS Integers

CONSTANTS
  NUM_PROCESSES,   \* memsym.c:10
  NUM_VPNS,        \* 1 << VPN, entries of one page table
  NUM_PFNS,        \* 1 << PFN, frames of physical memory
  PAGE_SIZE,       \* 1 << OFF, words of one page
  WORD_SIZE        \* 2^32 in the code: registers and memory words wrap here

ASSUME NumProcessesAssumption == NUM_PROCESSES \in Nat \ {0}
ASSUME NumVpnsAssumption == NUM_VPNS \in Nat \ {0}
ASSUME NumPfnsAssumption == NUM_PFNS \in Nat \ {0}
ASSUME PageSizeAssumption == PAGE_SIZE \in Nat \ {0}
ASSUME WordSizeAssumption == WORD_SIZE \in Nat \ {0}

Pids == 0..(NUM_PROCESSES - 1)
Vpns == 0..(NUM_VPNS - 1)
Pfns == 0..(NUM_PFNS - 1)
Words == 0..(WORD_SIZE - 1)
VAddrs == 0..(NUM_VPNS * PAGE_SIZE - 1)
PAddrs == 0..(NUM_PFNS * PAGE_SIZE - 1)

Regs == {"r1", "r2"}
RegOperands == Regs \cup {"r3"}    \* "r3": any operand get_register rejects

\* The page number and the physical address of a virtual address; the code
\* shifts and masks by OFF bits.
VpnOf(vaddr) == vaddr \div PAGE_SIZE
PhysAddr(pfn, vaddr) == pfn * PAGE_SIZE + (vaddr % PAGE_SIZE)

\* A page table entry, and the page table define() builds.
PtEntry == [pfn : Pfns, valid : BOOLEAN]
InvalidPte == [pfn |-> 0, valid |-> FALSE]

\* A pointer that is still NULL: no memory before define().
Unallocated == <<>>
=============================================================================
