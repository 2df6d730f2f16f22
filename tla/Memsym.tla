------------------------------- MODULE Memsym -------------------------------
(***************************************************************************)
(* lab06-Group12/memsym.c: a trace-driven simulator of a machine with a    *)
(* page table per process and one TLB, shared by the processes, with LRU   *)
(* or FIFO replacement.  One action per instruction of the trace; an       *)
(* action is the whole handler, the translation included.                  *)
(*                                                                         *)
(* Page and frame numbers of a trace stay inside the tables define()       *)
(* allocates: translate, map and unmap index them without a check, so      *)
(* anything else is undefined behaviour and is not an input here.          *)
(***************************************************************************)
EXTENDS MemsymParams

CONSTANTS
  TLB_SIZE,        \* memsym.c:9
  STRATEGIES,      \* values of argv[1]; every one but "LRU" behaves as "FIFO"
  TS_MOD,          \* 2^32 in the code: width of global_timestamp
  MAX_TIMESTAMP    \* bound: the trace ends at this timestamp; TS_MOD: never

ASSUME TlbSizeAssumption == TLB_SIZE \in Nat \ {0}
ASSUME TimestampAssumption == TS_MOD \in Nat \ {0}

VARIABLES
  strategy,
  tokens, defined, halted, current_pid, page_tables, physical_memory, regs,
  tlb,              \* slot -> entry
  global_timestamp

cpu == <<defined, halted, current_pid, regs>>
memory == <<page_tables, physical_memory>>
cache == <<tlb, global_timestamp>>
vars == <<strategy, tokens, cpu, memory, cache>>

Slots == 0..(TLB_SIZE - 1)
Timestamps == 0..(TS_MOD - 1)
TlbEntry == [vpn : Vpns, pfn : Pfns, valid : BOOLEAN, pid : Pids \cup {-1},
             timestamp : Timestamps]

Init ==
  /\ strategy \in STRATEGIES
  /\ tokens = <<>>
  /\ defined = FALSE
  /\ halted = FALSE
  /\ current_pid = 0
  /\ page_tables = Unallocated
  /\ physical_memory = Unallocated
  /\ regs = [p \in Pids |-> [r \in Regs |-> 0]]
  /\ tlb = [i \in Slots |-> [vpn |-> 0, pfn |-> 0, valid |-> FALSE, pid |-> 0,
                             timestamp |-> 0]]
  /\ global_timestamp = 0

-----------------------------------------------------------------------------
(* The TLB. *)

\* Mutant of Now: the clock does not wrap.
NowUnwrapped == global_timestamp + 1
Now == (global_timestamp + 1) % TS_MOD
Tick == global_timestamp' = Now

\* Mutant of Matches: the lookup forgets whose page it is.
MatchesAnyPid(i, vpn) == tlb[i].valid /\ tlb[i].vpn = vpn
Matches(i, vpn) == tlb[i].valid /\ tlb[i].vpn = vpn /\ tlb[i].pid = current_pid
Hits(vpn) == {i \in Slots : Matches(i, vpn)}
Free == {i \in Slots : ~tlb[i].valid}
Oldest == {i \in Slots : \A j \in Slots : tlb[i].timestamp <= tlb[j].timestamp}

\* The loops of the code stop at, or keep, the lowest index that qualifies.
First(i, S) == i \in S /\ \A j \in S : i <= j
Victim(i) == IF Free # {} THEN First(i, Free) ELSE First(i, Oldest)

Fill(i, vpn, pfn) ==
  tlb' = [tlb EXCEPT ![i] = [vpn |-> vpn, pfn |-> pfn, valid |-> TRUE,
                             pid |-> current_pid, timestamp |-> Now]]

\* Mutant of Touch: a hit never counts as a use.
TouchNever(i) == UNCHANGED tlb
Touch(i) == IF strategy = "LRU" THEN tlb' = [tlb EXCEPT ![i].timestamp = Now]
                                ELSE UNCHANGED tlb

Pte(vpn) == page_tables[current_pid][vpn]
PageFault(vpn) == Hits(vpn) = {} /\ ~Pte(vpn).valid

TlbHit(vpn, pfn) ==
  \E i \in Slots : First(i, Hits(vpn)) /\ pfn = tlb[i].pfn /\ Touch(i) /\ Tick

TlbMiss(vpn, pfn) ==
  /\ Hits(vpn) = {} /\ Pte(vpn).valid
  /\ pfn = Pte(vpn).pfn
  /\ \E i \in Slots : Victim(i) /\ Fill(i, vpn, pfn) /\ Tick

\* translate(): pfn is the frame it returns the address in.
Translate(vpn, pfn) == TlbHit(vpn, pfn) \/ TlbMiss(vpn, pfn)

-----------------------------------------------------------------------------
(* The instructions. *)

Instruction(toks) ==
  /\ defined /\ ~halted
  /\ global_timestamp < MAX_TIMESTAMP
  /\ tokens' = toks

Exit == halted' = TRUE /\ UNCHANGED <<defined, current_pid, regs, memory>>

BeforeDefine ==
  /\ ~defined /\ ~halted
  /\ tokens' = <<"other">>
  /\ Exit /\ UNCHANGED cache

Define ==
  /\ ~defined /\ ~halted
  /\ tokens' = <<"define">>
  /\ defined' = TRUE
  /\ \/ /\ physical_memory' = [a \in PAddrs |-> 0]
        /\ page_tables' = [p \in Pids |-> [v \in Vpns |-> InvalidPte]]
        /\ tlb' = [i \in Slots |-> [vpn |-> 0, pfn |-> 0, valid |-> FALSE, pid |-> -1,
                                    timestamp |-> tlb[i].timestamp]]
        /\ Tick
        /\ UNCHANGED halted
     \/ /\ halted' = TRUE          \* calloc or malloc fails
        /\ UNCHANGED <<memory, cache>>
  /\ UNCHANGED <<current_pid, regs>>

DefineAgain == Instruction(<<"define">>) /\ Exit /\ UNCHANGED cache

CtxSwitch(pid) ==
  /\ Instruction(<<"ctxswitch", pid>>)
  /\ IF pid \in Pids
     THEN current_pid' = pid /\ Tick /\ UNCHANGED <<defined, halted, regs, memory, tlb>>
     ELSE Exit /\ UNCHANGED cache

SetReg(reg, value) ==
  /\ regs' = [regs EXCEPT ![current_pid][reg] = value]
  /\ UNCHANGED <<defined, halted, current_pid, memory>>

LoadImmediate(dst, value) ==
  /\ Instruction(<<"load#", dst, value>>)
  /\ IF dst \in Regs THEN SetReg(dst, value) ELSE Exit
  /\ UNCHANGED cache

Load(dst, vaddr) ==
  /\ Instruction(<<"load", dst, vaddr>>)
  /\ IF dst \notin Regs \/ PageFault(VpnOf(vaddr))
     THEN Exit /\ UNCHANGED cache
     ELSE \E pfn \in Pfns : /\ Translate(VpnOf(vaddr), pfn)
                            /\ SetReg(dst, physical_memory[PhysAddr(pfn, vaddr)])

\* The part store() shares between its two kinds of source.
Write(vaddr, value) ==
  IF PageFault(VpnOf(vaddr))
  THEN Exit /\ UNCHANGED cache
  ELSE \E pfn \in Pfns :
         /\ Translate(VpnOf(vaddr), pfn)
         /\ physical_memory' = [physical_memory EXCEPT ![PhysAddr(pfn, vaddr)] = value]
         /\ UNCHANGED <<cpu, page_tables>>

StoreImmediate(vaddr, value) ==
  /\ Instruction(<<"store#", vaddr, value>>)
  /\ Write(vaddr, value)

Store(vaddr, src) ==
  /\ Instruction(<<"store", vaddr, src>>)
  /\ IF src \in Regs THEN Write(vaddr, regs[current_pid][src])
                     ELSE Exit /\ UNCHANGED cache

Add ==
  /\ Instruction(<<"add">>)
  /\ SetReg("r1", (regs[current_pid]["r1"] + regs[current_pid]["r2"]) % WORD_SIZE)
  /\ Tick /\ UNCHANGED tlb

\* Mutant of MapSlot: map never looks for an entry of the page.
MapSlotFresh(i, vpn) == Victim(i)
\* map(): the entry of the page if the TLB has one, else a free one, else the
\* oldest; its timestamp is refreshed under both strategies.
MapSlot(i, vpn) == IF Hits(vpn) # {} THEN First(i, Hits(vpn)) ELSE Victim(i)

Map(vpn, pfn) ==
  /\ Instruction(<<"map", vpn, pfn>>)
  /\ page_tables' = [page_tables EXCEPT ![current_pid][vpn] = [pfn |-> pfn, valid |-> TRUE]]
  /\ \E i \in Slots : MapSlot(i, vpn) /\ Fill(i, vpn, pfn)
  /\ Tick
  /\ UNCHANGED <<cpu, physical_memory>>

\* Mutant of Invalidate: unmap forgets the TLB.
InvalidateNothing(i) == UNCHANGED tlb
\* The entry is emptied but keeps its timestamp.
Invalidate(i) ==
  tlb' = [tlb EXCEPT ![i] = [vpn |-> 0, pfn |-> 0, valid |-> FALSE, pid |-> -1,
                             timestamp |-> tlb[i].timestamp]]

Unmap(vpn) ==
  /\ Instruction(<<"unmap", vpn>>)
  /\ page_tables' = [page_tables EXCEPT ![current_pid][vpn] = InvalidPte]
  /\ \/ \E i \in Slots : First(i, Hits(vpn)) /\ Invalidate(i)
     \/ Hits(vpn) = {} /\ UNCHANGED tlb
  /\ Tick
  /\ UNCHANGED <<cpu, physical_memory>>

\* rinspect, pinspect, linspect, tinspect: the clock ticks before the operand
\* is checked.
Inspect(exists) ==
  /\ Instruction(<<"inspect">>)
  /\ IF exists THEN UNCHANGED <<cpu, memory>> ELSE Exit
  /\ Tick /\ UNCHANGED tlb

RInspect(reg) == Inspect(reg \in Regs)
PInspect(vpn) == Inspect(vpn < NUM_VPNS)
LInspect(pl) == Inspect(pl < NUM_PFNS * PAGE_SIZE)
TInspect(tlbn) == Inspect(tlbn >= 0 /\ tlbn < TLB_SIZE)

\* One turn of the loop of main.
Step ==
  \/ BeforeDefine \/ Define \/ DefineAgain \/ Add
  \/ \E pid \in -1..NUM_PROCESSES : CtxSwitch(pid)
  \/ \E dst \in RegOperands : \/ \E value \in Words : LoadImmediate(dst, value)
                              \/ \E vaddr \in VAddrs : Load(dst, vaddr)
                              \/ RInspect(dst)
  \/ \E vaddr \in VAddrs : \/ \E value \in Words : StoreImmediate(vaddr, value)
                           \/ \E src \in RegOperands : Store(vaddr, src)
  \/ \E vpn \in Vpns : \/ \E pfn \in Pfns : Map(vpn, pfn)
                       \/ Unmap(vpn)
  \/ \E vpn \in 0..NUM_VPNS : PInspect(vpn)
  \/ \E pl \in 0..(NUM_PFNS * PAGE_SIZE) : LInspect(pl)
  \/ \E tlbn \in -1..TLB_SIZE : TInspect(tlbn)

Next == Step /\ UNCHANGED strategy

Spec == Init /\ [][Next]_vars

-----------------------------------------------------------------------------
(* Properties. *)

\* The types of the simulator's globals; the tables exist once define has
\* succeeded.
TypeOK ==
  /\ defined \in BOOLEAN /\ halted \in BOOLEAN
  /\ current_pid \in Pids
  /\ regs \in [Pids -> [Regs -> Words]]
  /\ tlb \in [Slots -> TlbEntry]
  /\ global_timestamp \in Timestamps
  /\ defined /\ ~halted =>
       /\ page_tables \in [Pids -> [Vpns -> PtEntry]]
       /\ physical_memory \in [PAddrs -> Words]

Live == defined /\ ~halted

\* A valid TLB entry says what the page table of its process says, so a hit,
\* which does not look at the page table (memsym.c:169), gives the right frame,
\* also after context switches, remappings and unmappings.
TlbCoherent ==
  Live => \A i \in Slots : tlb[i].valid =>
            /\ tlb[i].pid \in Pids
            /\ page_tables[tlb[i].pid][tlb[i].vpn] = [pfn |-> tlb[i].pfn, valid |-> TRUE]

\* The TLB holds a page of a process at most once: lookup, map and unmap stop
\* at the first match (memsym.c:165, 270, 318), so a second one would go stale.
TlbUnique ==
  \A i, j \in Slots :
    tlb[i].valid /\ tlb[j].valid /\ tlb[i].pid = tlb[j].pid /\ tlb[i].vpn = tlb[j].vpn
      => i = j

\* The simulator implements the machine without a TLB: no trace can tell from
\* registers, memory, page tables and exits that translate() caches.  What is left
\* out does tell: tinspect and the lines about hits and misses in the log.
PM == INSTANCE PagedMemory
Transparent == PM!Spec

\* The valid entries as the queue of a replacement strategy: an older timestamp
\* stands in front.
Used == {i \in Slots : tlb[i].valid}
Page(i) == [pid |-> tlb[i].pid, vpn |-> tlb[i].vpn, pfn |-> tlb[i].pfn]
Pages == {Page(i) : i \in Used}
Before ==
  {pq \in Pages \X Pages :
     \E i, j \in Used : pq = <<Page(i), Page(j)>> /\ tlb[i].timestamp < tlb[j].timestamp}

\* As long as global_timestamp has not wrapped (MAX_TIMESTAMP < TS_MOD), the
\* timestamps implement the strategy: a miss and a map evict exactly the page
\* used, or entered, the longest time ago.
TQ == INSTANCE TlbQueue WITH pages <- Pages, before <- Before
ReplacesOldest == TQ!Spec
=============================================================================
