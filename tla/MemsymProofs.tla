---------------------------- MODULE MemsymProofs ----------------------------
(***************************************************************************)
(* Theorems about Memsym: its types, the coherence of the TLB with the     *)
(* page tables, that the TLB cannot be observed (Memsym implements         *)
(* PagedMemory), and that the timestamps implement the replacement         *)
(* strategies (Memsym implements TlbQueue).                                *)
(***************************************************************************)
EXTENDS Memsym, FiniteSetTheorems, TLAPS

USE NumProcessesAssumption, NumVpnsAssumption, NumPfnsAssumption,
    PageSizeAssumption, WordSizeAssumption, TlbSizeAssumption, TimestampAssumption

-----------------------------------------------------------------------------
(* Arithmetic. *)

\* The page number of an address of the virtual space is inside the page table.
LEMMA VpnRange == ASSUME NEW vaddr \in VAddrs PROVE VpnOf(vaddr) \in Vpns
<1>1. vaddr \in Nat /\ vaddr < NUM_VPNS * PAGE_SIZE
  BY DEF VAddrs
<1>2. PICK q \in Nat, r \in Nat : vaddr = PAGE_SIZE * q + r /\ r < PAGE_SIZE /\ q = vaddr \div PAGE_SIZE
  BY <1>1
<1>3. q < NUM_VPNS
  <2>1. SUFFICES ASSUME q >= NUM_VPNS PROVE FALSE
    OBVIOUS
  <2>2. PAGE_SIZE * q >= PAGE_SIZE * NUM_VPNS
    BY <2>1
  <2> QED BY <1>1, <1>2, <2>2
<1> QED BY <1>2, <1>3 DEF VpnOf, Vpns

\* Translation stays inside the allocated physical memory.
LEMMA PhysAddrRange ==
  ASSUME NEW pfn \in Pfns, NEW vaddr \in VAddrs PROVE PhysAddr(pfn, vaddr) \in PAddrs
<1>1. vaddr % PAGE_SIZE \in 0..(PAGE_SIZE - 1)
  BY DEF VAddrs
<1>2. pfn \in Nat /\ pfn + 1 <= NUM_PFNS
  BY DEF Pfns
<1>3. (pfn + 1) * PAGE_SIZE <= NUM_PFNS * PAGE_SIZE
  BY <1>2
<1>4. pfn * PAGE_SIZE + PAGE_SIZE = (pfn + 1) * PAGE_SIZE /\ pfn * PAGE_SIZE \in Nat
  BY <1>2
<1> QED BY <1>1, <1>3, <1>4 DEF PhysAddr, PAddrs

\* The sum of two registers wraps to a word; the clock wraps to a timestamp.
LEMMA WrapTypes ==
  /\ \A a, b \in Words : (a + b) % WORD_SIZE \in Words
  /\ global_timestamp \in Timestamps => Now \in Timestamps
BY DEF Words, Timestamps, Now

\* The values memory and tables are initialised with.
LEMMA Zeros == 0 \in Words /\ 0 \in Pids /\ 0 \in Vpns /\ 0 \in Pfns /\ 0 \in Timestamps
BY DEF Words, Timestamps, Pids, Vpns, Pfns

-----------------------------------------------------------------------------
(* Type correctness. *)

\* A translation returns a frame and keeps the TLB typed.
LEMMA TranslateTypes ==
  ASSUME TypeOK, NEW vpn \in Vpns, NEW pfn \in Pfns, Translate(vpn, pfn)
  PROVE  tlb' \in [Slots -> TlbEntry] /\ global_timestamp' \in Timestamps
<1>1. Now \in Timestamps
  BY WrapTypes DEF TypeOK
<1>2. CASE TlbHit(vpn, pfn)
  <2>1. PICK i \in Slots : Touch(i) /\ global_timestamp' = Now
    BY <1>2 DEF TlbHit, Tick
  <2>2. PICK e \in TlbEntry : e = [tlb[i] EXCEPT !.timestamp = Now]
    BY <1>1 DEF TypeOK, TlbEntry
  <2>3. tlb' = tlb \/ tlb' = [tlb EXCEPT ![i] = e]
    BY <2>1, <2>2 DEF Touch
  <2> QED
    BY <1>1, <2>1, <2>3 DEF TypeOK
<1>3. CASE TlbMiss(vpn, pfn)
  BY <1>1, <1>3 DEF TlbMiss, Fill, Tick, TypeOK, TlbEntry
<1> QED BY <1>2, <1>3 DEF Translate

LEMMA TypeStep == TypeOK /\ [Next]_vars => TypeOK'
<1> SUFFICES ASSUME TypeOK, [Next]_vars PROVE TypeOK'
  OBVIOUS
<1> USE DEF TypeOK, Instruction
<1>0. Now \in Timestamps
  BY WrapTypes
<1>1. CASE BeforeDefine
  BY <1>1 DEF BeforeDefine, Exit, memory, cache
<1>2. CASE Define
  <2>1. tlb' \in [Slots -> TlbEntry]
    <3>1. \A i \in Slots : [vpn |-> 0, pfn |-> 0, valid |-> FALSE, pid |-> -1,
                            timestamp |-> tlb[i].timestamp] \in TlbEntry
      BY Zeros DEF TlbEntry
    <3> QED BY <1>2, <3>1 DEF Define, cache
  <2>2. global_timestamp' \in Timestamps
    BY <1>0, <1>2 DEF Define, Tick, cache
  <2>3. defined' /\ ~halted' =>
          /\ page_tables' \in [Pids -> [Vpns -> PtEntry]]
          /\ physical_memory' \in [PAddrs -> Words]
    <3>1. InvalidPte \in PtEntry
      BY Zeros DEF InvalidPte, PtEntry
    <3> QED BY <1>2, <3>1, Zeros DEF Define
  <2> QED BY <1>2, <2>1, <2>2, <2>3 DEF Define
<1>3. CASE DefineAgain
  BY <1>3 DEF DefineAgain, Exit, memory, cache
<1>4. CASE Add
  BY <1>0, <1>4, WrapTypes DEF Add, SetReg, Tick, memory, Regs
<1>5. ASSUME NEW pid \in -1..NUM_PROCESSES, CtxSwitch(pid) PROVE TypeOK'
  BY <1>0, <1>5 DEF CtxSwitch, Exit, memory, cache, Tick
<1>6. ASSUME NEW dst \in RegOperands, NEW value \in Words, LoadImmediate(dst, value)
      PROVE  TypeOK'
  <2>1. CASE dst \in Regs
    <3>1. SetReg(dst, value) /\ UNCHANGED cache
      BY <1>6, <2>1 DEF LoadImmediate
    <3> QED BY <2>1, <3>1 DEF SetReg, memory, cache
  <2>2. CASE dst \notin Regs
    BY <1>6, <2>2 DEF LoadImmediate, Exit, memory, cache
  <2> QED BY <2>1, <2>2
<1>7. ASSUME NEW dst \in RegOperands, NEW vaddr \in VAddrs, Load(dst, vaddr) PROVE TypeOK'
  <2>1. CASE Exit /\ UNCHANGED cache
    BY <2>1 DEF Exit, memory, cache
  <2>2. ASSUME NEW pfn \in Pfns, dst \in Regs, Translate(VpnOf(vaddr), pfn),
               SetReg(dst, physical_memory[PhysAddr(pfn, vaddr)])
        PROVE  TypeOK'
    <3>1. physical_memory[PhysAddr(pfn, vaddr)] \in Words
      BY <1>7, PhysAddrRange DEF Load
    <3> QED BY <2>2, <3>1, VpnRange, TranslateTypes DEF SetReg, memory
  <2> QED BY <1>7, <2>1, <2>2 DEF Load
<1>8. ASSUME NEW vaddr \in VAddrs, NEW value \in Words, Live, Write(vaddr, value) PROVE TypeOK'
  <2>1. CASE Exit /\ UNCHANGED cache
    BY <2>1 DEF Exit, memory, cache
  <2>2. ASSUME NEW pfn \in Pfns, Translate(VpnOf(vaddr), pfn),
               physical_memory' = [physical_memory EXCEPT ![PhysAddr(pfn, vaddr)] = value],
               UNCHANGED <<cpu, page_tables>>
        PROVE  TypeOK'
    BY <1>8, <2>2, VpnRange, TranslateTypes DEF cpu, Live
  <2> QED BY <1>8, <2>1, <2>2 DEF Write
<1>9. ASSUME NEW vaddr \in VAddrs, NEW value \in Words, StoreImmediate(vaddr, value)
      PROVE  TypeOK'
  BY <1>8, <1>9 DEF StoreImmediate, Live
<1>10. ASSUME NEW vaddr \in VAddrs, NEW src \in RegOperands, Store(vaddr, src) PROVE TypeOK'
  <2>1. CASE src \in Regs
    BY <1>8, <1>10, <2>1 DEF Store, Live
  <2>2. CASE src \notin Regs
    BY <1>10, <2>2 DEF Store, Exit, memory, cache
  <2> QED BY <2>1, <2>2
<1>11. ASSUME NEW vpn \in Vpns, NEW pfn \in Pfns, Map(vpn, pfn) PROVE TypeOK'
  <2>1. tlb' \in [Slots -> TlbEntry]
    BY <1>0, <1>11 DEF Map, Fill, TlbEntry
  <2> QED BY <1>0, <1>11, <2>1 DEF Map, Tick, cpu, PtEntry
<1>12. ASSUME NEW vpn \in Vpns, Unmap(vpn) PROVE TypeOK'
  <2>1. tlb' \in [Slots -> TlbEntry]
    <3>1. \A i \in Slots : [vpn |-> 0, pfn |-> 0, valid |-> FALSE, pid |-> -1,
                            timestamp |-> tlb[i].timestamp] \in TlbEntry
      BY Zeros DEF TlbEntry
    <3> QED BY <1>12, <3>1 DEF Unmap, Invalidate
  <2> QED BY <1>0, <1>12, <2>1, Zeros DEF Unmap, Tick, cpu, PtEntry, InvalidPte
<1>13. ASSUME UNCHANGED <<cpu, memory>> \/ Exit, Tick, UNCHANGED tlb PROVE TypeOK'
  <2>1. CASE UNCHANGED <<cpu, memory>>
    BY <1>0, <1>13, <2>1 DEF Tick, cpu, memory
  <2>2. CASE Exit
    BY <1>0, <1>13, <2>2 DEF Tick, Exit, memory
  <2> QED BY <1>13, <2>1, <2>2
<1>14. CASE UNCHANGED vars
  BY <1>14 DEF vars, cpu, memory, cache
<1>15. CASE \E dst \in RegOperands : RInspect(dst)
  BY <1>13, <1>15 DEF RInspect, Inspect
<1>16. CASE \E vpn \in 0..NUM_VPNS : PInspect(vpn)
  BY <1>13, <1>16 DEF PInspect, Inspect
<1>17. CASE \E pl \in 0..(NUM_PFNS * PAGE_SIZE) : LInspect(pl)
  BY <1>13, <1>17 DEF LInspect, Inspect
<1>18. CASE \E tlbn \in -1..TLB_SIZE : TInspect(tlbn)
  BY <1>13, <1>18 DEF TInspect, Inspect
<1> QED
  BY <1>1, <1>2, <1>3, <1>4, <1>5, <1>6, <1>7, <1>9, <1>10, <1>11, <1>12, <1>14, <1>15,
     <1>16, <1>17, <1>18 DEF Next, Step

LEMMA TypeInit == Init => TypeOK
<1> SUFFICES ASSUME Init PROVE TypeOK
  OBVIOUS
<1>1. tlb \in [Slots -> TlbEntry]
  <2>1. [vpn |-> 0, pfn |-> 0, valid |-> FALSE, pid |-> 0, timestamp |-> 0] \in TlbEntry
    BY Zeros DEF TlbEntry
  <2> QED BY <2>1 DEF Init
<1>2. regs \in [Pids -> [Regs -> Words]]
  BY Zeros DEF Init
<1> QED BY <1>1, <1>2, Zeros DEF Init, TypeOK

\* The simulator's globals keep their types whatever the trace.
THEOREM TypeCorrect == Spec => []TypeOK
<1> QED BY TypeInit, TypeStep, PTL DEF Spec

-----------------------------------------------------------------------------
(* Coherence.  The invariant is inductive only together with uniqueness:   *)
(* unmap empties one matching entry, so a second one would stay valid for  *)
(* a page that is no longer mapped.                                        *)

IInv == TypeOK /\ TlbCoherent /\ TlbUnique

\* The running process gets the page table entry pte for vpn, all other
\* entries stay.
PteBecomes(vpn, pte) ==
  \A p \in Pids, v \in Vpns :
    page_tables'[p][v] = IF p = current_pid /\ v = vpn THEN pte ELSE page_tables[p][v]

\* Filling slot i with the current translation of vpn keeps the TLB coherent
\* and duplicate free when no other slot holds vpn.
LEMMA FillCoherent ==
  ASSUME IInv, Live, NEW vpn \in Vpns, NEW pfn \in Pfns, NEW i \in Slots,
         \A j \in Slots \ {i} : ~Matches(j, vpn),
         Fill(i, vpn, pfn), PteBecomes(vpn, [pfn |-> pfn, valid |-> TRUE])
  PROVE  TlbCoherent' /\ TlbUnique'
<1> DEFINE e == [vpn |-> vpn, pfn |-> pfn, valid |-> TRUE, pid |-> current_pid,
                 timestamp |-> Now]
<1>1. tlb'[i] = e /\ \A j \in Slots \ {i} : tlb'[j] = tlb[j]
  BY DEF Fill, IInv, TypeOK
<1>2. current_pid \in Pids /\ tlb \in [Slots -> TlbEntry]
  BY DEF IInv, TypeOK
<1>3. TlbUnique'
  BY <1>1, <1>2 DEF TlbUnique, IInv, Matches
<1>4. ASSUME NEW j \in Slots, tlb'[j].valid
      PROVE  /\ tlb'[j].pid \in Pids
             /\ page_tables'[tlb'[j].pid][tlb'[j].vpn] = [pfn |-> tlb'[j].pfn, valid |-> TRUE]
  <2>1. CASE j = i
    <3>1. tlb'[j].pid = current_pid /\ tlb'[j].vpn = vpn /\ tlb'[j].pfn = pfn
      BY <1>1, <2>1
    <3>2. page_tables'[current_pid][vpn] = [pfn |-> pfn, valid |-> TRUE]
      BY <1>2 DEF PteBecomes
    <3> QED BY <1>2, <3>1, <3>2
  <2>2. CASE j # i
    <3>1. tlb'[j] = tlb[j] /\ ~Matches(j, vpn) /\ tlb[j].vpn \in Vpns
      BY <1>1, <1>2, <2>2 DEF TlbEntry
    <3>2. tlb[j].pid \in Pids
            /\ page_tables[tlb[j].pid][tlb[j].vpn] = [pfn |-> tlb[j].pfn, valid |-> TRUE]
      BY <1>4, <3>1 DEF IInv, TlbCoherent
    <3> QED BY <1>4, <3>1, <3>2 DEF PteBecomes, Matches
  <2> QED BY <2>1, <2>2
<1> QED BY <1>3, <1>4 DEF TlbCoherent

\* A slot whose entry differs at most in its timestamp is as coherent as before.
LEMMA SameEntries ==
  ASSUME IInv, Live, UNCHANGED page_tables,
         \A j \in Slots : /\ tlb'[j].valid = tlb[j].valid /\ tlb'[j].pid = tlb[j].pid
                          /\ tlb'[j].vpn = tlb[j].vpn /\ tlb'[j].pfn = tlb[j].pfn
  PROVE  TlbCoherent' /\ TlbUnique'
BY DEF IInv, TlbCoherent, TlbUnique

\* translate() returns the frame of the page table, whether the TLB hits or
\* not, and keeps the TLB coherent.
LEMMA TranslateCorrect ==
  ASSUME IInv, Live, NEW vpn \in Vpns, NEW pfn \in Pfns, Translate(vpn, pfn)
  PROVE  /\ Pte(vpn) = [pfn |-> pfn, valid |-> TRUE]
         /\ UNCHANGED page_tables => TlbCoherent' /\ TlbUnique'
<1>1. CASE TlbHit(vpn, pfn)
  <2>1. PICK i \in Slots : First(i, Hits(vpn)) /\ pfn = tlb[i].pfn /\ Touch(i)
    BY <1>1 DEF TlbHit
  <2>2. Matches(i, vpn)
    BY <2>1 DEF First, Hits
  <2>3. Pte(vpn) = [pfn |-> pfn, valid |-> TRUE]
    BY <2>1, <2>2 DEF IInv, TlbCoherent, Matches, Pte
  <2>4. \A j \in Slots : /\ tlb'[j].valid = tlb[j].valid /\ tlb'[j].pid = tlb[j].pid
                         /\ tlb'[j].vpn = tlb[j].vpn /\ tlb'[j].pfn = tlb[j].pfn
    <3>1. CASE strategy = "LRU"
      <4>1. tlb \in [Slots -> TlbEntry] /\ tlb' = [tlb EXCEPT ![i].timestamp = Now]
        BY <2>1, <3>1 DEF Touch, IInv, TypeOK
      <4>2. \A j \in Slots \ {i} : tlb'[j] = tlb[j]
        BY <4>1
      <4>3. tlb'[i] = [tlb[i] EXCEPT !.timestamp = Now] /\ tlb[i] \in TlbEntry
        BY <4>1
      <4> QED BY <4>2, <4>3 DEF TlbEntry
    <3>2. CASE strategy # "LRU"
      BY <2>1, <3>2 DEF Touch
    <3> QED BY <3>1, <3>2
  <2> QED BY <2>3, <2>4, SameEntries
<1>2. CASE TlbMiss(vpn, pfn)
  <2>1. PICK i \in Slots : Fill(i, vpn, pfn)
    BY <1>2 DEF TlbMiss
  <2>2. \A j \in Slots : ~Matches(j, vpn)
    BY <1>2 DEF TlbMiss, Hits
  <2>3. Pte(vpn) = [pfn |-> pfn, valid |-> TRUE]
    <3>1. Pte(vpn) \in PtEntry /\ Pte(vpn).valid /\ pfn = Pte(vpn).pfn
      BY <1>2 DEF TlbMiss, IInv, TypeOK, Live, Pte
    <3> QED BY <3>1 DEF PtEntry
  <2>4. UNCHANGED page_tables => PteBecomes(vpn, [pfn |-> pfn, valid |-> TRUE])
    BY <2>3 DEF PteBecomes, Pte
  <2> QED BY <2>1, <2>2, <2>3, <2>4, FillCoherent
<1> QED BY <1>1, <1>2 DEF Translate

\* Without a fault the page is mapped, and a fault means that it is not.
LEMMA FaultMeansUnmapped ==
  ASSUME IInv, Live, NEW vpn \in Vpns PROVE PageFault(vpn) <=> ~Pte(vpn).valid
<1>1. ASSUME Hits(vpn) # {} PROVE Pte(vpn).valid
  <2>1. PICK i \in Slots : Matches(i, vpn)
    BY <1>1 DEF Hits
  <2>2. page_tables[current_pid][vpn] = [pfn |-> tlb[i].pfn, valid |-> TRUE]
    BY <2>1 DEF Matches, IInv, TlbCoherent
  <2> QED BY <2>2 DEF Pte
<1> QED BY <1>1 DEF PageFault

\* unmap() leaves no entry for the page behind.
LEMMA UnmapCoherent ==
  ASSUME IInv, NEW vpn \in Vpns, Unmap(vpn) PROVE TlbCoherent' /\ TlbUnique'
<1> USE DEF IInv, TypeOK, Instruction, Live
<1>1. PteBecomes(vpn, InvalidPte)
  BY DEF Unmap, PteBecomes
<1>2. \A j \in Slots : tlb'[j].valid => tlb'[j] = tlb[j] /\ ~Matches(j, vpn)
  <2>1. ASSUME NEW i \in Slots, First(i, Hits(vpn)), Invalidate(i)
        PROVE  \A j \in Slots : tlb'[j].valid => tlb'[j] = tlb[j] /\ ~Matches(j, vpn)
    <3>1. Matches(i, vpn) /\ ~tlb'[i].valid
      BY <2>1 DEF First, Hits, Invalidate
    <3>2. \A j \in Slots \ {i} : tlb'[j] = tlb[j]
      BY <2>1 DEF Invalidate
    <3>3. \A j \in Slots \ {i} : ~Matches(j, vpn)
      BY <3>1 DEF Matches, TlbUnique
    <3> QED BY <3>1, <3>2, <3>3
  <2>2. CASE Hits(vpn) = {} /\ UNCHANGED tlb
    BY <2>2 DEF Hits
  <2> QED BY <2>1, <2>2 DEF Unmap
<1>3. TlbUnique'
  BY <1>2 DEF TlbUnique
<1>4. ASSUME NEW j \in Slots, tlb'[j].valid
      PROVE  /\ tlb'[j].pid \in Pids
             /\ page_tables'[tlb'[j].pid][tlb'[j].vpn] = [pfn |-> tlb'[j].pfn, valid |-> TRUE]
  <2>1. tlb'[j] = tlb[j] /\ tlb[j].valid /\ ~Matches(j, vpn) /\ tlb[j].vpn \in Vpns
    BY <1>2, <1>4 DEF TlbEntry
  <2>2. tlb[j].pid \in Pids
          /\ page_tables[tlb[j].pid][tlb[j].vpn] = [pfn |-> tlb[j].pfn, valid |-> TRUE]
    BY <2>1 DEF Unmap, TlbCoherent
  <2> QED BY <1>1, <2>1, <2>2 DEF PteBecomes, Matches
<1> QED BY <1>3, <1>4 DEF TlbCoherent

\* map() refreshes the entry of the page if the TLB has one.
LEMMA MapCoherent ==
  ASSUME IInv, NEW vpn \in Vpns, NEW pfn \in Pfns, Map(vpn, pfn)
  PROVE  TlbCoherent' /\ TlbUnique'
<1> USE DEF IInv, TypeOK, Instruction, Live
<1>1. PICK i \in Slots : MapSlot(i, vpn) /\ Fill(i, vpn, pfn)
  BY DEF Map
<1>2. PteBecomes(vpn, [pfn |-> pfn, valid |-> TRUE])
  BY DEF Map, PteBecomes
<1>3. ASSUME NEW j \in Slots \ {i} PROVE ~Matches(j, vpn)
  <2>1. CASE Hits(vpn) = {}
    BY <2>1 DEF Hits
  <2>2. CASE Hits(vpn) # {}
    <3>1. Matches(i, vpn)
      BY <1>1, <2>2 DEF MapSlot, First, Hits
    <3> QED BY <3>1 DEF Matches, TlbUnique
  <2> QED BY <2>1, <2>2
<1> QED BY <1>1, <1>2, <1>3, FillCoherent DEF Map

LEMMA CoherentStep == IInv /\ [Next]_vars => IInv'
<1> SUFFICES ASSUME IInv, [Next]_vars PROVE TlbCoherent' /\ TlbUnique'
  BY TypeStep DEF IInv
<1> USE DEF Instruction, Live
<1>1. ASSUME UNCHANGED <<tlb, page_tables>>, defined' /\ ~halted' => Live
      PROVE  TlbCoherent' /\ TlbUnique'
  BY <1>1 DEF IInv, TlbCoherent, TlbUnique
<1>2. ASSUME Exit, UNCHANGED tlb PROVE TlbCoherent' /\ TlbUnique'
  BY <1>2 DEF Exit, IInv, TlbCoherent, TlbUnique
<1>3. CASE BeforeDefine \/ DefineAgain
  BY <1>2, <1>3 DEF BeforeDefine, DefineAgain, cache
<1>4. CASE Define
  <2>1. CASE halted'
    BY <1>4, <2>1 DEF Define, IInv, TlbCoherent, TlbUnique, cache
  <2>2. CASE ~halted'
    <3>1. \A i \in Slots : ~tlb'[i].valid
      BY <1>4, <2>2 DEF Define
    <3> QED BY <3>1 DEF TlbCoherent, TlbUnique
  <2> QED BY <2>1, <2>2
<1>5. CASE Add
  BY <1>1, <1>5 DEF Add, SetReg, memory
<1>6. ASSUME NEW pid \in -1..NUM_PROCESSES, CtxSwitch(pid) PROVE TlbCoherent' /\ TlbUnique'
  BY <1>1, <1>2, <1>6 DEF CtxSwitch, memory, cache
<1>7. ASSUME NEW dst \in RegOperands, NEW value \in Words, LoadImmediate(dst, value)
      PROVE  TlbCoherent' /\ TlbUnique'
  BY <1>1, <1>2, <1>7 DEF LoadImmediate, SetReg, memory, cache
<1>8. ASSUME NEW dst \in RegOperands, NEW vaddr \in VAddrs, Load(dst, vaddr)
      PROVE  TlbCoherent' /\ TlbUnique'
  BY <1>2, <1>8, VpnRange, TranslateCorrect DEF Load, SetReg, memory, cache
<1>9. ASSUME NEW vaddr \in VAddrs, NEW value, Live, Write(vaddr, value)
      PROVE  TlbCoherent' /\ TlbUnique'
  BY <1>2, <1>9, VpnRange, TranslateCorrect DEF Write, cache
<1>10. ASSUME NEW vaddr \in VAddrs, NEW value \in Words, StoreImmediate(vaddr, value)
       PROVE  TlbCoherent' /\ TlbUnique'
  BY <1>9, <1>10 DEF StoreImmediate
<1>11. ASSUME NEW vaddr \in VAddrs, NEW src \in RegOperands, Store(vaddr, src)
       PROVE  TlbCoherent' /\ TlbUnique'
  BY <1>2, <1>9, <1>11 DEF Store, cache
<1>12. ASSUME NEW vpn \in Vpns, NEW pfn \in Pfns, Map(vpn, pfn) PROVE TlbCoherent' /\ TlbUnique'
  BY <1>12, MapCoherent
<1>13. ASSUME NEW vpn \in Vpns, Unmap(vpn) PROVE TlbCoherent' /\ TlbUnique'
  BY <1>13, UnmapCoherent
<1>14. ASSUME UNCHANGED <<cpu, memory>> \/ Exit, UNCHANGED tlb PROVE TlbCoherent' /\ TlbUnique'
  BY <1>1, <1>2, <1>14 DEF cpu, memory
<1>15. CASE \/ \E dst \in RegOperands : RInspect(dst)
            \/ \E vpn \in 0..NUM_VPNS : PInspect(vpn)
            \/ \E pl \in 0..(NUM_PFNS * PAGE_SIZE) : LInspect(pl)
            \/ \E tlbn \in -1..TLB_SIZE : TInspect(tlbn)
  BY <1>14, <1>15 DEF RInspect, PInspect, LInspect, TInspect, Inspect
<1>16. CASE UNCHANGED vars
  BY <1>1, <1>16 DEF vars, cpu, memory, cache
<1> QED
  BY <1>3, <1>4, <1>5, <1>6, <1>7, <1>8, <1>10, <1>11, <1>12, <1>13, <1>15, <1>16 DEF Next, Step

LEMMA IInvHolds == Spec => []IInv
<1>1. Init => IInv
  <2>1. Init => TlbCoherent /\ TlbUnique
    BY DEF Init, TlbCoherent, TlbUnique, Live
  <2> QED BY <2>1, TypeInit DEF IInv
<1> QED BY <1>1, CoherentStep, PTL DEF Spec

\* No valid TLB entry ever disagrees with the page table of its process, for
\* any number of processes, pages, frames and slots, under both strategies and
\* across a wrap of the clock.
THEOREM CoherentTlb == Spec => []TlbCoherent
<1>1. IInv => TlbCoherent
  BY DEF IInv
<1> QED BY <1>1, IInvHolds, PTL

\* No page is ever cached twice.
THEOREM UniqueTlb == Spec => []TlbUnique
<1>1. IInv => TlbUnique
  BY DEF IInv
<1> QED BY <1>1, IInvHolds, PTL

-----------------------------------------------------------------------------
(* Transparency. *)

\* The parameters of the two machines are the same.
LEMMA SameParams ==
  /\ PM!Pids = Pids /\ PM!Vpns = Vpns /\ PM!Pfns = Pfns /\ PM!Words = Words
  /\ PM!VAddrs = VAddrs /\ PM!PAddrs = PAddrs /\ PM!Regs = Regs
  /\ PM!RegOperands = RegOperands /\ PM!InvalidPte = InvalidPte
  /\ PM!Unallocated = Unallocated
  /\ \A vaddr : PM!VpnOf(vaddr) = VpnOf(vaddr)
  /\ \A pfn, vaddr : PM!PhysAddr(pfn, vaddr) = PhysAddr(pfn, vaddr)
BY DEF PM!Pids, Pids, PM!Vpns, Vpns, PM!Pfns, Pfns, PM!Words, Words, PM!VAddrs, VAddrs,
       PM!PAddrs, PAddrs, PM!Regs, Regs, PM!RegOperands, RegOperands, PM!InvalidPte,
       InvalidPte, PM!Unallocated, Unallocated, PM!VpnOf, VpnOf, PM!PhysAddr, PhysAddr

\* Every instruction is the instruction of the machine without a TLB.
LEMMA TransparentStep == IInv /\ [Next]_vars => [PM!Next]_(PM!vars)
<1> SUFFICES ASSUME IInv, [Next]_vars PROVE PM!Next \/ UNCHANGED PM!vars
  OBVIOUS
<1> USE SameParams DEF Instruction, PM!Instruction, Live, memory
<1>1. Exit => PM!Exit
  BY DEF Exit, PM!Exit
<1>2. ASSUME NEW reg, NEW value, SetReg(reg, value) PROVE PM!SetReg(reg, value)
  BY <1>2 DEF SetReg, PM!SetReg
<1>3. CASE BeforeDefine
  BY <1>1, <1>3 DEF BeforeDefine, PM!BeforeDefine, PM!Next
<1>4. CASE Define
  <2>1. PM!Define
    BY <1>4 DEF Define, PM!Define
  <2> QED BY <2>1 DEF PM!Next
<1>5. CASE DefineAgain
  BY <1>1, <1>5 DEF DefineAgain, PM!DefineAgain, PM!Next
<1>6. CASE Add
  BY <1>2, <1>6 DEF Add, PM!Add, PM!Next
<1>7. ASSUME NEW pid \in -1..NUM_PROCESSES, CtxSwitch(pid) PROVE PM!Next
  <2>1. PM!CtxSwitch(pid)
    BY <1>1, <1>7 DEF CtxSwitch, PM!CtxSwitch
  <2> QED BY <2>1 DEF PM!Next
<1>8. ASSUME NEW dst \in RegOperands, NEW value \in Words, LoadImmediate(dst, value)
      PROVE  PM!Next
  <2>1. PM!LoadImmediate(dst, value)
    BY <1>1, <1>2, <1>8 DEF LoadImmediate, PM!LoadImmediate
  <2> QED BY <2>1 DEF PM!Next
<1>9. ASSUME NEW vaddr \in VAddrs, Live PROVE PageFault(VpnOf(vaddr)) <=> ~PM!Pte(VpnOf(vaddr)).valid
  BY <1>9, VpnRange, FaultMeansUnmapped DEF Pte, PM!Pte
<1>10. ASSUME NEW vaddr \in VAddrs, NEW pfn \in Pfns, Live, Translate(VpnOf(vaddr), pfn)
       PROVE  PhysAddr(pfn, vaddr) = PM!Location(vaddr) /\ PM!Pte(VpnOf(vaddr)).valid
  <2>1. Pte(VpnOf(vaddr)) = [pfn |-> pfn, valid |-> TRUE]
    BY <1>10, VpnRange, TranslateCorrect
  <2>2. PM!Pte(VpnOf(vaddr)) = [pfn |-> pfn, valid |-> TRUE]
    BY <2>1 DEF Pte, PM!Pte
  <2> QED BY <2>2 DEF PM!Location
<1>11. ASSUME NEW dst \in RegOperands, NEW vaddr \in VAddrs, Load(dst, vaddr) PROVE PM!Next
  <2>1. PM!Load(dst, vaddr)
    <3>1. CASE dst \notin Regs \/ PageFault(VpnOf(vaddr))
      BY <1>1, <1>9, <1>11, <3>1 DEF Load, PM!Load
    <3>2. CASE ~(dst \notin Regs \/ PageFault(VpnOf(vaddr)))
      BY <1>2, <1>10, <1>11, <3>2 DEF Load, PM!Load
    <3> QED BY <3>1, <3>2
  <2> QED BY <2>1 DEF PM!Next
<1>12. ASSUME NEW vaddr \in VAddrs, NEW value, Live, Write(vaddr, value)
       PROVE  IF PM!Pte(VpnOf(vaddr)).valid THEN PM!Write(vaddr, value) ELSE PM!Exit
  <2>1. CASE PageFault(VpnOf(vaddr))
    BY <1>1, <1>9, <1>12, <2>1 DEF Write
  <2>2. CASE ~PageFault(VpnOf(vaddr))
    BY <1>10, <1>12, <2>2 DEF Write, PM!Write, cpu
  <2> QED BY <2>1, <2>2
<1>13. ASSUME NEW vaddr \in VAddrs, NEW value \in Words, StoreImmediate(vaddr, value)
       PROVE  PM!Next
  <2>1. PM!StoreImmediate(vaddr, value)
    BY <1>12, <1>13 DEF StoreImmediate, PM!StoreImmediate
  <2> QED BY <2>1 DEF PM!Next
<1>14. ASSUME NEW vaddr \in VAddrs, NEW src \in RegOperands, Store(vaddr, src) PROVE PM!Next
  <2>1. PM!Store(vaddr, src)
    BY <1>1, <1>12, <1>14 DEF Store, PM!Store
  <2> QED BY <2>1 DEF PM!Next
<1>15. ASSUME NEW vpn \in Vpns, NEW pfn \in Pfns, Map(vpn, pfn) PROVE PM!Next
  <2>1. PM!Map(vpn, pfn)
    BY <1>15 DEF Map, PM!Map, PM!SetPte, cpu
  <2> QED BY <2>1 DEF PM!Next
<1>16. ASSUME NEW vpn \in Vpns, Unmap(vpn) PROVE PM!Next
  <2>1. PM!Unmap(vpn)
    BY <1>16 DEF Unmap, PM!Unmap, PM!SetPte, cpu
  <2> QED BY <2>1 DEF PM!Next
<1>17. ASSUME Instruction(<<"inspect">>), UNCHANGED <<cpu, memory>> \/ Exit PROVE PM!Next
  BY <1>1, <1>17 DEF cpu, PM!Inspect, PM!Next
<1>18. CASE \/ \E dst \in RegOperands : RInspect(dst)
            \/ \E vpn \in 0..NUM_VPNS : PInspect(vpn)
            \/ \E pl \in 0..(NUM_PFNS * PAGE_SIZE) : LInspect(pl)
            \/ \E tlbn \in -1..TLB_SIZE : TInspect(tlbn)
  BY <1>17, <1>18 DEF RInspect, PInspect, LInspect, TInspect, Inspect
<1>19. CASE UNCHANGED vars
  BY <1>19 DEF vars, cpu, PM!vars
<1> QED
  BY <1>3, <1>4, <1>5, <1>6, <1>7, <1>8, <1>11, <1>13, <1>14, <1>15, <1>16, <1>18, <1>19 DEF Next, Step

\* The TLB is transparent: every behaviour of the simulator is a behaviour of
\* the machine that has none.
THEOREM TlbTransparent == Spec => Transparent
<1>1. Init => PM!Init
  BY SameParams DEF Init, PM!Init
<1> QED BY <1>1, TransparentStep, IInvHolds, PTL DEF Spec, Transparent, PM!Spec

-----------------------------------------------------------------------------
(* Replacement.  Until the clock wraps, the timestamps of the valid entries *)
(* are distinct and in the past, so their order is the order of the queue.  *)

ClockInv ==
  /\ \A i \in Used : tlb[i].timestamp <= global_timestamp
  /\ \A i, j \in Used : tlb[i].timestamp = tlb[j].timestamp => i = j
  /\ ~defined => Used = {}

\* Different valid slots hold different pages.
LEMMA PagesDiffer ==
  ASSUME TlbUnique, NEW i \in Used, NEW j \in Used, Page(i) = Page(j) PROVE i = j
BY DEF TlbUnique, Used, Page

\* The order of the pages is the order of their timestamps.
LEMMA BeforeIsOlder ==
  ASSUME TlbUnique, NEW i \in Used, NEW j \in Used
  PROVE  <<Page(i), Page(j)>> \in Before <=> tlb[i].timestamp < tlb[j].timestamp
<1>1. ASSUME <<Page(i), Page(j)>> \in Before PROVE tlb[i].timestamp < tlb[j].timestamp
  <2>1. PICK a, b \in Used :
          <<Page(i), Page(j)>> = <<Page(a), Page(b)>> /\ tlb[a].timestamp < tlb[b].timestamp
    BY <1>1 DEF Before
  <2>2. a = i /\ b = j
    BY <2>1, PagesDiffer
  <2> QED BY <2>1, <2>2
<1>2. ASSUME tlb[i].timestamp < tlb[j].timestamp PROVE <<Page(i), Page(j)>> \in Before
  BY <1>2 DEF Before, Pages
<1> QED BY <1>1, <1>2

\* When the slots of K stay, their pages stay, in their order.
LEMMA KeptPages ==
  ASSUME TypeOK, TlbUnique, NEW K \in SUBSET Used, Used' = K,
         \A j \in K : tlb'[j] = tlb[j]
  PROVE  TQ!Keep({Page(j) : j \in K})
<1>1. \A j \in K : Page(j)' = Page(j)
  BY DEF Page
<1>2. Pages' = {Page(j) : j \in K}
  BY <1>1 DEF Pages
<1>3. ASSUME NEW p, NEW q
      PROVE  <<p, q>> \in Before' <=>
               <<p, q>> \in Before /\ p \in {Page(j) : j \in K} /\ q \in {Page(j) : j \in K}
  <2>1. <<p, q>> \in Before' <=>
          \E a, b \in K : <<p, q>> = <<Page(a), Page(b)>> /\ tlb[a].timestamp < tlb[b].timestamp
    BY <1>1 DEF Before, Pages
  <2>2. ASSUME NEW a \in K, NEW b \in K
        PROVE  <<Page(a), Page(b)>> \in Before <=> tlb[a].timestamp < tlb[b].timestamp
    BY <2>2, BeforeIsOlder
  <2> QED BY <2>1, <2>2
<1>4. Before' \subseteq Pages' \X Pages' /\ Before \subseteq Pages \X Pages
  BY DEF Before
<1> DEFINE S == {Page(j) : j \in K}
<1>5. Before' = Before \cap (S \X S)
  <2>1. ASSUME NEW x PROVE x \in Before' <=> x \in Before \cap (S \X S)
    BY <1>3, <1>4
  <2> QED BY <2>1
<1> QED BY <1>2, <1>5 DEF TQ!Keep

\* When slot i gets the newest timestamp, its page goes to the back.
LEMMA RequeuedPage ==
  ASSUME TypeOK, TlbUnique, NEW K \in SUBSET Used, NEW i \in Slots \ K, NEW p,
         Used' = K \cup {i}, \A j \in K : tlb'[j] = tlb[j],
         Page(i)' = p, \A j \in K : tlb[j].timestamp < tlb'[i].timestamp,
         tlb'[i].timestamp \in Nat
  PROVE  TQ!Requeue({Page(j) : j \in K}, p)
<1> DEFINE S == {Page(j) : j \in K}
<1>1. \A j \in K : Page(j)' = Page(j)
  BY DEF Page
<1>2. Pages' = S \cup {p}
  BY <1>1 DEF Pages
<1>3. \A j \in K : tlb[j].timestamp \in Nat
  BY DEF TypeOK, TlbEntry, Timestamps, Used
<1>4. ASSUME NEW a, NEW b
      PROVE  <<a, b>> \in Before' <=> (<<a, b>> \in Before /\ a \in S /\ b \in S) \/ (a \in S /\ b = p)
  <2>1. <<a, b>> \in Before' <=>
          \E k, l \in K \cup {i} : <<a, b>> = <<Page(k)', Page(l)'>> /\ tlb'[k].timestamp < tlb'[l].timestamp
    BY DEF Before, Pages
  <2>2. ASSUME NEW k \in K, NEW l \in K
        PROVE  <<Page(k), Page(l)>> \in Before <=> tlb'[k].timestamp < tlb'[l].timestamp
    BY <2>2, BeforeIsOlder
  <2>3. \A k \in K \cup {i} : ~(tlb'[i].timestamp < tlb'[k].timestamp)
    BY <1>3
  <2>4. \A k \in K : tlb'[k].timestamp < tlb'[i].timestamp
    OBVIOUS
  <2>5. ASSUME <<a, b>> \in Before'
        PROVE  (<<a, b>> \in Before /\ a \in S /\ b \in S) \/ (a \in S /\ b = p)
    <3>1. PICK k \in K \cup {i}, l \in K \cup {i} :
            a = Page(k)' /\ b = Page(l)' /\ tlb'[k].timestamp < tlb'[l].timestamp
      BY <2>1, <2>5
    <3>2. k \in K /\ a = Page(k)
      BY <1>1, <2>3, <3>1
    <3>3. CASE l = i
      BY <3>1, <3>2, <3>3
    <3>4. CASE l \in K
      <4>1. b = Page(l)
        BY <1>1, <3>1, <3>4
      <4> QED BY <2>2, <3>1, <3>2, <3>4, <4>1
    <3> QED BY <3>3, <3>4
  <2>6. ASSUME <<a, b>> \in Before, a \in S, b \in S PROVE <<a, b>> \in Before'
    <3>1. PICK k \in K, l \in K : a = Page(k) /\ b = Page(l)
      BY <2>6
    <3>2. tlb'[k].timestamp < tlb'[l].timestamp
      BY <2>2, <2>6, <3>1
    <3>3. a = Page(k)' /\ b = Page(l)'
      BY <1>1, <3>1
    <3> QED BY <2>1, <3>2, <3>3
  <2>7. ASSUME a \in S, b = p PROVE <<a, b>> \in Before'
    <3>1. PICK k \in K : a = Page(k)
      BY <2>7
    <3>2. a = Page(k)' /\ b = Page(i)'
      BY <1>1, <2>7, <3>1
    <3> QED BY <2>1, <2>4, <3>2
  <2> QED BY <2>5, <2>6, <2>7
<1>5. Before' \subseteq Pages' \X Pages' /\ Before \subseteq Pages \X Pages
  BY DEF Before
<1>6. Before' = (Before \cap (S \X S)) \cup (S \X {p})
  <2>1. ASSUME NEW x PROVE x \in Before' <=> x \in (Before \cap (S \X S)) \cup (S \X {p})
    BY <1>4, <1>5
  <2> QED BY <2>1
<1> QED BY <1>2, <1>6 DEF TQ!Requeue

\* Counting is the same in the instance.
LEMMA SameCount == \A S : TQ!Cardinality(S) = Cardinality(S)
BY DEF TQ!Cardinality, Cardinality

\* The queue is full when no slot is free.
LEMMA QueueFull ==
  ASSUME TypeOK, TlbUnique PROVE Cardinality(Pages) = TLB_SIZE <=> Free = {}
<1>1. IsFiniteSet(Slots) /\ Cardinality(Slots) = TLB_SIZE
  BY FS_Interval DEF Slots
<1>2. Used \in SUBSET Slots
  BY DEF Used
<1>3. IsFiniteSet(Used) /\ (Cardinality(Used) = TLB_SIZE <=> Used = Slots)
  BY <1>1, <1>2, FS_Subset
<1> DEFINE f == [i \in Used |-> Page(i)]
<1>4. f \in Surjection(Used, Pages) /\ f \in Injection(Used, Pages)
  <2>1. f \in [Used -> Pages]
    BY DEF Pages
  <2>2. \A p \in Pages : \E i \in Used : f[i] = p
    BY DEF Pages
  <2>3. \A i, j \in Used : f[i] = f[j] => i = j
    BY PagesDiffer
  <2> HIDE DEF f
  <2> QED BY <2>1, <2>2, <2>3 DEF Surjection, Injection, IsInjective
<1>5. Cardinality(Pages) = Cardinality(Used)
  BY <1>3, <1>4, FS_Surjection
<1>6. Used = Slots <=> Free = {}
  BY DEF Used, Free
<1> QED BY <1>3, <1>5, <1>6

\* A lookup succeeds exactly when the page stands in the queue; the others are
\* the pages of the slots that do not match.
LEMMA HitIsCached ==
  ASSUME NEW vpn
  PROVE  /\ TQ!Cached(vpn) <=> Hits(vpn) # {}
         /\ TQ!Others(vpn) = {Page(j) : j \in {j \in Used : ~Matches(j, vpn)}}
<1>1. \A j \in Used : TQ!IsPage(vpn, Page(j)) <=> Matches(j, vpn)
  BY DEF TQ!IsPage, Page, Matches, Used
<1>2. TQ!Cached(vpn) <=> Hits(vpn) # {}
  BY <1>1 DEF TQ!Cached, Pages, Hits, Used, Matches
<1>3. ASSUME NEW p
      PROVE  p \in TQ!Others(vpn) <=> p \in {Page(j) : j \in {j \in Used : ~Matches(j, vpn)}}
  BY <1>1 DEF TQ!Others, Pages
<1> QED BY <1>2, <1>3

\* At most one slot matches.
LEMMA OneHit ==
  ASSUME TlbUnique, NEW vpn, NEW i \in Hits(vpn)
  PROVE  i \in Used /\ {j \in Used : ~Matches(j, vpn)} = Used \ {i}
BY DEF TlbUnique, Hits, Matches, Used

\* The slot to be replaced in a full TLB holds the front of the queue.
LEMMA VictimIsFront ==
  ASSUME TypeOK, TlbUnique, ClockInv, Free = {}, NEW i \in Slots, Victim(i)
  PROVE  i \in Used /\ TQ!Survivors = {Page(j) : j \in Used \ {i}}
<1>1. Used = Slots
  BY DEF Used, Free
<1>2. \A j \in Slots : tlb[i].timestamp <= tlb[j].timestamp
  BY DEF Victim, First, Oldest
<1>3. \A j \in Used : tlb[j].timestamp \in Nat
  BY DEF TypeOK, TlbEntry, Timestamps, Used
<1>4. TQ!Front(Page(i))
  <2>1. ASSUME NEW q \in Pages \ {Page(i)} PROVE <<Page(i), q>> \in Before
    <3>1. PICK j \in Used : q = Page(j) /\ j # i
      BY <2>1 DEF Pages
    <3>2. tlb[i].timestamp < tlb[j].timestamp
      BY <1>1, <1>2, <1>3, <3>1 DEF ClockInv
    <3> QED BY <1>1, <3>1, <3>2, BeforeIsOlder
  <2> QED BY <2>1 DEF TQ!Front
<1>5. ASSUME NEW j \in Used \ {i} PROVE ~TQ!Front(Page(j))
  <2>1. Page(i) \in Pages \ {Page(j)}
    BY <1>1, PagesDiffer DEF Pages
  <2>2. ~(tlb[j].timestamp < tlb[i].timestamp)
    BY <1>1, <1>2, <1>3
  <2>3. <<Page(j), Page(i)>> \notin Before
    BY <1>1, <2>2, BeforeIsOlder
  <2> QED BY <2>1, <2>3 DEF TQ!Front
<1>6. TQ!Survivors = {p \in Pages : ~TQ!Front(p)}
  BY SameCount, QueueFull DEF TQ!Survivors
<1>7. ASSUME NEW p PROVE p \in TQ!Survivors <=> p \in {Page(j) : j \in Used \ {i}}
  BY <1>4, <1>5, <1>6 DEF Pages
<1> QED BY <1>1, <1>7

\* The pages that stay when the slot for vpn is chosen.
LEMMA SlotForPage ==
  ASSUME TypeOK, TlbUnique, ClockInv, NEW vpn, NEW i \in Slots, MapSlot(i, vpn)
  PROVE  (IF TQ!Cached(vpn) THEN TQ!Others(vpn) ELSE TQ!Survivors)
           = {Page(j) : j \in Used \ {i}}
<1>1. CASE Hits(vpn) # {}
  <2>1. i \in Hits(vpn)
    BY <1>1 DEF MapSlot, First
  <2> QED BY <1>1, <2>1, OneHit, HitIsCached
<1>2. CASE Hits(vpn) = {} /\ Free # {}
  <2>1. i \notin Used
    BY <1>2 DEF MapSlot, Victim, First, Free, Used
  <2>2. TQ!Survivors = Pages
    BY <1>2, SameCount, QueueFull DEF TQ!Survivors
  <2>3. Used \ {i} = Used
    BY <2>1
  <2> QED BY <1>2, <2>2, <2>3, HitIsCached DEF Pages
<1>3. CASE Hits(vpn) = {} /\ Free = {}
  <2>1. Victim(i)
    BY <1>3 DEF MapSlot
  <2> QED BY <1>3, <2>1, VictimIsFront, HitIsCached
<1> QED BY <1>1, <1>2, <1>3

\* An entry stamped with the present time is the newest.
LEMMA NowIsNewest ==
  ASSUME TypeOK, ClockInv, Now = global_timestamp + 1
  PROVE  Now \in Nat /\ \A j \in Used : tlb[j].timestamp < Now
<1>1. global_timestamp \in Nat /\ \A j \in Used : tlb[j].timestamp \in Nat
  BY DEF TypeOK, TlbEntry, Timestamps, Used
<1> QED BY <1>1 DEF ClockInv

\* Filling the slot chosen for vpn is entering the queue.
LEMMA FillEnters ==
  ASSUME TypeOK, TlbUnique, ClockInv, Now = global_timestamp + 1,
         NEW vpn, NEW pfn, NEW i \in Slots, MapSlot(i, vpn), Fill(i, vpn, pfn)
  PROVE  TQ!Enter(vpn, pfn)
<1> DEFINE K == Used \ {i}
<1>1. tlb'[i] = [vpn |-> vpn, pfn |-> pfn, valid |-> TRUE, pid |-> current_pid,
                 timestamp |-> Now]
        /\ \A j \in Slots \ {i} : tlb'[j] = tlb[j]
  BY DEF Fill, TypeOK
<1>2. Used' = K \cup {i}
  BY <1>1 DEF Used
<1>3. Page(i)' = [pid |-> current_pid, vpn |-> vpn, pfn |-> pfn]
  BY <1>1 DEF Page
<1>4. \A j \in K : tlb'[j] = tlb[j]
  BY <1>1 DEF Used
<1>5. tlb'[i].timestamp \in Nat /\ \A j \in K : tlb[j].timestamp < tlb'[i].timestamp
  BY <1>1, NowIsNewest
<1>6. K \in SUBSET Used /\ i \in Slots \ K
  OBVIOUS
<1> HIDE DEF K
<1>7. TQ!Requeue({Page(j) : j \in K}, [pid |-> current_pid, vpn |-> vpn, pfn |-> pfn])
  BY <1>2, <1>3, <1>4, <1>5, <1>6, RequeuedPage
<1> QED BY <1>7, SlotForPage DEF TQ!Enter, K

\* So is a hit that counts as a use.
LEMMA TouchEnters ==
  ASSUME TypeOK, TlbUnique, ClockInv, Now = global_timestamp + 1, strategy = "LRU",
         NEW vpn, NEW i \in Slots, First(i, Hits(vpn)), Touch(i)
  PROVE  TQ!Enter(vpn, tlb[i].pfn)
<1> DEFINE K == Used \ {i}
<1>1. Matches(i, vpn) /\ i \in Used /\ tlb[i] \in TlbEntry /\ MapSlot(i, vpn)
  BY DEF First, Hits, Matches, Used, TypeOK, MapSlot
<1>2. tlb'[i] = [tlb[i] EXCEPT !.timestamp = Now] /\ \A j \in Slots \ {i} : tlb'[j] = tlb[j]
  BY DEF Touch, TypeOK
<1>3. /\ tlb'[i].valid = tlb[i].valid /\ tlb'[i].pid = tlb[i].pid /\ tlb'[i].vpn = tlb[i].vpn
      /\ tlb'[i].pfn = tlb[i].pfn /\ tlb'[i].timestamp = Now
  BY <1>1, <1>2 DEF TlbEntry
<1>4. Used' = K \cup {i}
  BY <1>1, <1>2, <1>3 DEF Used
<1>5. Page(i)' = [pid |-> current_pid, vpn |-> vpn, pfn |-> tlb[i].pfn]
  BY <1>1, <1>3 DEF Page, Matches
<1>6. \A j \in K : tlb'[j] = tlb[j]
  BY <1>2 DEF Used
<1>7. tlb'[i].timestamp \in Nat /\ \A j \in K : tlb[j].timestamp < tlb'[i].timestamp
  BY <1>3, NowIsNewest
<1>8. K \in SUBSET Used /\ i \in Slots \ K
  OBVIOUS
<1> HIDE DEF K
<1>9. TQ!Requeue({Page(j) : j \in K}, [pid |-> current_pid, vpn |-> vpn, pfn |-> tlb[i].pfn])
  BY <1>4, <1>5, <1>6, <1>7, <1>8, RequeuedPage
<1> QED BY <1>1, <1>9, SlotForPage DEF TQ!Enter, K

\* A step that leaves the TLB alone leaves the queue alone.
LEMMA SameQueue == UNCHANGED tlb => UNCHANGED <<Pages, Before>>
BY DEF Pages, Before, Used, Page

LEMMA QueueParams ==
  /\ TQ!Pids = Pids /\ TQ!Vpns = Vpns /\ TQ!Pfns = Pfns /\ TQ!Words = Words
  /\ TQ!VAddrs = VAddrs /\ TQ!Regs = Regs /\ TQ!RegOperands = RegOperands
  /\ TQ!InvalidPte = InvalidPte /\ TQ!Unallocated = Unallocated
  /\ \A vaddr : TQ!VpnOf(vaddr) = VpnOf(vaddr)
BY DEF TQ!Pids, Pids, TQ!Vpns, Vpns, TQ!Pfns, Pfns, TQ!Words, Words, TQ!VAddrs, VAddrs,
       TQ!Regs, Regs, TQ!RegOperands, RegOperands, TQ!InvalidPte, InvalidPte,
       TQ!Unallocated, Unallocated, TQ!VpnOf, VpnOf

\* An access is an access to the queue.
LEMMA TranslateQueues ==
  ASSUME IInv, ClockInv, Live, Now = global_timestamp + 1, NEW vpn \in Vpns, NEW pfn \in Pfns,
         Translate(vpn, pfn), UNCHANGED <<defined, halted, current_pid, page_tables>>
  PROVE  TQ!Access(vpn)
<1> USE DEF IInv
<1>1. Pte(vpn) = [pfn |-> pfn, valid |-> TRUE]
  BY TranslateCorrect
<1>2. page_tables[current_pid][vpn].pfn = pfn /\ page_tables[current_pid][vpn].valid
  BY <1>1 DEF Pte
<1>3. CASE TlbHit(vpn, pfn)
  <2>1. PICK i \in Slots : First(i, Hits(vpn)) /\ pfn = tlb[i].pfn /\ Touch(i)
    BY <1>3 DEF TlbHit
  <2>2. TQ!Cached(vpn)
    BY <2>1, HitIsCached DEF First
  <2>3. CASE strategy = "LRU"
    BY <1>2, <2>1, <2>2, <2>3, TouchEnters DEF TQ!Access
  <2>4. CASE strategy # "LRU"
    BY <1>2, <2>1, <2>2, <2>4, SameQueue DEF TQ!Access, TQ!queue, Touch
  <2> QED BY <2>3, <2>4
<1>4. CASE TlbMiss(vpn, pfn)
  <2>1. PICK i \in Slots : MapSlot(i, vpn) /\ Fill(i, vpn, pfn)
    BY <1>4 DEF TlbMiss, MapSlot
  <2>2. ~TQ!Cached(vpn)
    BY <1>4, HitIsCached DEF TlbMiss
  <2>3. TQ!Enter(vpn, pfn)
    BY <2>1, FillEnters
  <2> QED BY <1>2, <2>2, <2>3 DEF TQ!Access
<1> QED BY <1>3, <1>4 DEF Translate

\* The clock of a trace that ends before 2^32 ticks.
Unwrapped == MAX_TIMESTAMP \in Nat /\ MAX_TIMESTAMP < TS_MOD

LEMMA NoWrap ==
  ASSUME Unwrapped, TypeOK, NEW toks, Instruction(toks)
  PROVE  Now = global_timestamp + 1 /\ global_timestamp \in Nat
<1>1. global_timestamp \in Nat /\ global_timestamp + 1 < TS_MOD
  BY DEF TypeOK, Timestamps, Instruction, Unwrapped
<1> QED BY <1>1 DEF Now

\* A step that stamps no entry.
LEMMA NothingStamped ==
  ASSUME TypeOK, ClockInv, defined', global_timestamp' \in {global_timestamp, global_timestamp + 1},
         \A j \in Used' : j \in Used /\ tlb'[j].timestamp = tlb[j].timestamp
  PROVE  ClockInv'
<1>1. global_timestamp \in Nat /\ \A j \in Used : tlb[j].timestamp \in Nat
  BY DEF TypeOK, TlbEntry, Timestamps, Used
<1>2. \A j \in Used' : tlb'[j].timestamp <= global_timestamp'
  BY <1>1 DEF ClockInv
<1> QED BY <1>2 DEF ClockInv

\* A step that stamps slot i with the present time.
LEMMA SlotStamped ==
  ASSUME TypeOK, ClockInv, defined', Now = global_timestamp + 1, Tick, NEW i \in Slots,
         \A j \in Slots \ {i} : tlb'[j] = tlb[j], tlb'[i].timestamp = Now
  PROVE  ClockInv'
<1>1. global_timestamp \in Nat /\ \A j \in Used : tlb[j].timestamp \in Nat
  BY DEF TypeOK, TlbEntry, Timestamps, Used
<1>2. \A j \in Used' \ {i} : j \in Used /\ tlb'[j].timestamp = tlb[j].timestamp
  BY DEF Used
<1>3. global_timestamp' = global_timestamp + 1 /\ tlb'[i].timestamp = global_timestamp + 1
  BY DEF Tick
<1>4. \A j \in Used' \ {i} : tlb'[j].timestamp \in Nat /\ tlb'[j].timestamp <= global_timestamp
  BY <1>1, <1>2 DEF ClockInv
<1>5. \A j \in Used' : tlb'[j].timestamp <= global_timestamp'
  BY <1>1, <1>3, <1>4
<1>6. ASSUME NEW j \in Used', NEW k \in Used', tlb'[j].timestamp = tlb'[k].timestamp PROVE j = k
  BY <1>1, <1>2, <1>3, <1>4, <1>6 DEF ClockInv
<1> QED BY <1>5, <1>6 DEF ClockInv

LEMMA TranslateClock ==
  ASSUME TypeOK, ClockInv, defined', Now = global_timestamp + 1,
         NEW vpn, NEW pfn, Translate(vpn, pfn)
  PROVE  ClockInv'
<1>1. CASE TlbHit(vpn, pfn)
  <2>1. PICK i \in Slots : Touch(i) /\ Tick
    BY <1>1 DEF TlbHit
  <2>2. CASE strategy = "LRU"
    <3>1. tlb'[i] = [tlb[i] EXCEPT !.timestamp = Now] /\ \A j \in Slots \ {i} : tlb'[j] = tlb[j]
      BY <2>1, <2>2 DEF Touch, TypeOK
    <3>2. tlb'[i].timestamp = Now
      BY <3>1 DEF TypeOK, TlbEntry
    <3> QED BY <2>1, <3>1, <3>2, SlotStamped
  <2>3. CASE strategy # "LRU"
    BY <2>1, <2>3, NothingStamped DEF Touch, Tick, Used
  <2> QED BY <2>2, <2>3
<1>2. CASE TlbMiss(vpn, pfn)
  <2>1. PICK i \in Slots : Fill(i, vpn, pfn) /\ Tick
    BY <1>2 DEF TlbMiss
  <2>2. tlb'[i].timestamp = Now /\ \A j \in Slots \ {i} : tlb'[j] = tlb[j]
    BY <2>1 DEF Fill, TypeOK
  <2> QED BY <2>1, <2>2, SlotStamped
<1> QED BY <1>1, <1>2 DEF Translate

LEMMA ClockStep == Unwrapped /\ TypeOK /\ ClockInv /\ [Next]_vars => ClockInv'
<1> SUFFICES ASSUME Unwrapped, TypeOK, ClockInv, [Next]_vars PROVE ClockInv'
  OBVIOUS
<1>1. ASSUME defined', UNCHANGED cache PROVE ClockInv'
  BY <1>1, NothingStamped DEF cache, Used
<1>2. ASSUME defined', UNCHANGED tlb, Tick, NEW toks, Instruction(toks) PROVE ClockInv'
  BY <1>2, NothingStamped, NoWrap DEF Tick, Used
<1>3. CASE UNCHANGED <<cache, defined>>
  BY <1>3 DEF cache, ClockInv, Used
<1>4. CASE Define
  <2>1. CASE UNCHANGED cache
    BY <1>1, <1>4, <2>1 DEF Define
  <2>2. CASE ~UNCHANGED cache
    <3>1. \A i \in Slots : ~tlb'[i].valid
      BY <1>4, <2>2 DEF Define
    <3>2. Used' = {}
      BY <3>1 DEF Used
    <3> QED BY <3>2 DEF ClockInv
  <2> QED BY <2>1, <2>2
<1>5. CASE BeforeDefine \/ DefineAgain \/ UNCHANGED vars
  BY <1>3, <1>5 DEF BeforeDefine, DefineAgain, Exit, vars, cpu
<1>6. CASE Add
  <2>1. defined' /\ UNCHANGED tlb /\ Tick /\ Instruction(<<"add">>)
    BY <1>6 DEF Add, SetReg, Instruction
  <2> QED BY <1>2, <2>1
<1>7. ASSUME NEW pid \in -1..NUM_PROCESSES, CtxSwitch(pid) PROVE ClockInv'
  <2>1. defined' /\ Instruction(<<"ctxswitch", pid>>)
    BY <1>7 DEF CtxSwitch, Exit, Instruction
  <2>2. UNCHANGED cache \/ (UNCHANGED tlb /\ Tick)
    BY <1>7 DEF CtxSwitch
  <2> QED BY <1>1, <1>2, <2>1, <2>2
<1>8. ASSUME NEW dst \in RegOperands, NEW value \in Words, LoadImmediate(dst, value)
      PROVE  ClockInv'
  BY <1>3, <1>8 DEF LoadImmediate, SetReg, Exit
<1>9. ASSUME NEW dst \in RegOperands, NEW vaddr \in VAddrs, Load(dst, vaddr) PROVE ClockInv'
  <2>1. defined' /\ Now = global_timestamp + 1
    BY <1>9, NoWrap DEF Load, Instruction, Exit, SetReg
  <2> QED BY <1>1, <1>9, <2>1, TranslateClock DEF Load
<1>10. ASSUME NEW vaddr \in VAddrs, NEW value, NEW toks, Instruction(toks), Write(vaddr, value)
       PROVE  ClockInv'
  <2>1. defined' /\ Now = global_timestamp + 1
    BY <1>10, NoWrap DEF Write, Instruction, Exit, cpu
  <2> QED BY <1>1, <1>10, <2>1, TranslateClock DEF Write
<1>11. ASSUME NEW vaddr \in VAddrs, NEW value \in Words, StoreImmediate(vaddr, value)
       PROVE  ClockInv'
  BY <1>10, <1>11 DEF StoreImmediate
<1>12. ASSUME NEW vaddr \in VAddrs, NEW src \in RegOperands, Store(vaddr, src) PROVE ClockInv'
  BY <1>3, <1>10, <1>12 DEF Store, Exit
<1>13. ASSUME NEW vpn \in Vpns, NEW pfn \in Pfns, Map(vpn, pfn) PROVE ClockInv'
  <2>1. defined' /\ Now = global_timestamp + 1 /\ Tick
    BY <1>13, NoWrap DEF Map, Instruction, cpu
  <2>2. PICK i \in Slots : Fill(i, vpn, pfn)
    BY <1>13 DEF Map
  <2>3. tlb'[i].timestamp = Now /\ \A j \in Slots \ {i} : tlb'[j] = tlb[j]
    BY <2>2 DEF Fill, TypeOK
  <2> QED BY <2>1, <2>3, SlotStamped
<1>14. ASSUME NEW vpn \in Vpns, Unmap(vpn) PROVE ClockInv'
  <2>1. defined' /\ Now = global_timestamp + 1 /\ Tick
    BY <1>14, NoWrap DEF Unmap, Instruction, cpu
  <2>2. \A j \in Used' : j \in Used /\ tlb'[j].timestamp = tlb[j].timestamp
    <3>1. \/ UNCHANGED tlb
          \/ \E i \in Slots : Invalidate(i)
      BY <1>14 DEF Unmap
    <3>2. ASSUME NEW i \in Slots, Invalidate(i)
          PROVE  \A j \in Used' : j \in Used /\ tlb'[j].timestamp = tlb[j].timestamp
      <4>1. ~tlb'[i].valid /\ \A j \in Slots \ {i} : tlb'[j] = tlb[j]
        BY <3>2 DEF Invalidate, TypeOK
      <4> QED BY <4>1 DEF Used
    <3> QED BY <3>1, <3>2 DEF Used
  <2> QED BY <2>1, <2>2, NothingStamped DEF Tick
<1>15. ASSUME NEW exists, Inspect(exists) PROVE ClockInv'
  <2>1. defined' /\ UNCHANGED tlb /\ Tick /\ Instruction(<<"inspect">>)
    BY <1>15 DEF Inspect, Instruction, Exit, cpu
  <2> QED BY <1>2, <2>1
<1>16. CASE \/ \E dst \in RegOperands : RInspect(dst)
            \/ \E vpn \in 0..NUM_VPNS : PInspect(vpn)
            \/ \E pl \in 0..(NUM_PFNS * PAGE_SIZE) : LInspect(pl)
            \/ \E tlbn \in -1..TLB_SIZE : TInspect(tlbn)
  BY <1>15, <1>16 DEF RInspect, PInspect, LInspect, TInspect
<1> QED
  BY <1>4, <1>5, <1>6, <1>7, <1>8, <1>9, <1>11, <1>12, <1>13, <1>14, <1>16 DEF Next, Step

\* map() enters the page, unmap() takes it out.
LEMMA MapQueues ==
  ASSUME IInv, ClockInv, Unwrapped, NEW vpn \in Vpns, NEW pfn \in Pfns, Map(vpn, pfn)
  PROVE  TQ!Map(vpn, pfn)
<1>1. PICK i \in Slots : MapSlot(i, vpn) /\ Fill(i, vpn, pfn)
  BY DEF Map
<1>2. Now = global_timestamp + 1
  BY NoWrap DEF Map, IInv
<1>3. TQ!Enter(vpn, pfn)
  BY <1>1, <1>2, FillEnters DEF IInv
<1> QED BY <1>3 DEF Map, TQ!Map, Instruction, TQ!Instruction, cpu

LEMMA UnmapQueues ==
  ASSUME IInv, NEW vpn \in Vpns, Unmap(vpn) PROVE TQ!Unmap(vpn)
<1> DEFINE K == {j \in Used : ~Matches(j, vpn)}
<1>1. Used' = K /\ \A j \in K : tlb'[j] = tlb[j]
  <2>1. CASE Hits(vpn) = {} /\ UNCHANGED tlb
    BY <2>1 DEF Hits, Used
  <2>2. ASSUME NEW i \in Slots, First(i, Hits(vpn)), Invalidate(i)
        PROVE  Used' = K /\ \A j \in K : tlb'[j] = tlb[j]
    <3>1. K = Used \ {i} /\ i \in Used
      BY <2>2, OneHit DEF First, IInv
    <3>2. ~tlb'[i].valid /\ \A j \in Slots \ {i} : tlb'[j] = tlb[j]
      BY <2>2 DEF Invalidate, IInv, TypeOK
    <3>3. Used' = Used \ {i}
      BY <3>2 DEF Used
    <3> QED BY <3>1, <3>2, <3>3 DEF Used
  <2> QED BY <2>1, <2>2 DEF Unmap
<1>2. K \in SUBSET Used
  OBVIOUS
<1> HIDE DEF K
<1>3. TQ!Keep({Page(j) : j \in K})
  BY <1>1, <1>2, KeptPages DEF IInv
<1>4. TQ!Keep(TQ!Others(vpn))
  BY <1>3, HitIsCached DEF K
<1> QED BY <1>4, QueueParams DEF Unmap, TQ!Unmap, Instruction, TQ!Instruction, cpu

\* Every instruction is an instruction of the queue.
LEMMA QueueStep ==
  Unwrapped /\ IInv /\ ClockInv /\ ClockInv' /\ [Next]_vars => [TQ!Next]_(TQ!vars)
<1> SUFFICES ASSUME Unwrapped, IInv, ClockInv, ClockInv', [Next]_vars
             PROVE  TQ!Next \/ UNCHANGED TQ!vars
  OBVIOUS
<1> USE QueueParams DEF Instruction, TQ!Instruction, Live, memory
<1>1. UNCHANGED cache => UNCHANGED TQ!queue
  BY SameQueue DEF cache, TQ!queue
<1>2. UNCHANGED tlb => UNCHANGED TQ!queue
  BY SameQueue DEF TQ!queue
<1>3. Exit /\ UNCHANGED tlb => TQ!Exit
  BY <1>2 DEF Exit, TQ!Exit, TQ!queue
<1>4. CASE UNCHANGED vars
  BY <1>1, <1>4 DEF vars, cpu, TQ!vars
<1> SUFFICES ASSUME Step, UNCHANGED strategy PROVE TQ!Next
  BY <1>4 DEF Next
<1> SUFFICES TQ!Step
  BY DEF TQ!Next
<1>5. CASE BeforeDefine
  BY <1>3, <1>5 DEF BeforeDefine, TQ!BeforeDefine, TQ!Step, cache
<1>6. CASE Define
  <2>1. UNCHANGED TQ!queue
    <3>1. CASE UNCHANGED cache
      BY <1>1, <3>1
    <3>2. CASE ~UNCHANGED cache
      <4>1. \A i \in Slots : ~tlb'[i].valid
        BY <1>6, <3>2 DEF Define
      <4>2. Used = {} /\ Used' = {}
        BY <1>6, <4>1 DEF Define, ClockInv, Used
      <4> QED BY <4>2 DEF TQ!queue, Pages, Before
    <3> QED BY <3>1, <3>2
  <2>2. TQ!Define
    BY <1>6, <2>1 DEF Define, TQ!Define
  <2> QED BY <2>2 DEF TQ!Step
<1>7. ASSUME NEW toks, Instruction(toks), Exit, UNCHANGED tlb,
             \/ toks \in {<<"define">>, <<"inspect">>}
             \/ \E dst \in RegOperands, value \in Words : toks = <<"load#", dst, value>>
             \/ \E dst \in RegOperands, vaddr \in VAddrs : toks = <<"load", dst, vaddr>>
             \/ \E vaddr \in VAddrs, value \in Words : toks = <<"store#", vaddr, value>>
             \/ \E vaddr \in VAddrs, src \in RegOperands : toks = <<"store", vaddr, src>>
             \/ \E pid \in {-1, NUM_PROCESSES} : toks = <<"ctxswitch", pid>>
      PROVE  TQ!Step
  <2>1. TQ!Other
    BY <1>3, <1>7 DEF TQ!Other
  <2> QED BY <2>1 DEF TQ!Step
<1>8. ASSUME NEW toks, Instruction(toks), UNCHANGED <<defined, halted, current_pid, page_tables>>,
             UNCHANGED tlb, toks[1] \in {"add", "inspect", "load#"},
             \/ toks \in {<<"add">>, <<"inspect">>}
             \/ \E dst \in RegOperands, value \in Words : toks = <<"load#", dst, value>>
      PROVE  TQ!Step
  <2>1. TQ!Uncached
    BY <1>2, <1>8 DEF TQ!Uncached
  <2>2. TQ!Other
    BY <1>8, <2>1 DEF TQ!Other
  <2> QED BY <2>2 DEF TQ!Step
<1>9. CASE DefineAgain
  BY <1>7, <1>9 DEF DefineAgain, cache
<1>10. CASE Add
  BY <1>8, <1>10 DEF Add, SetReg
<1>11. ASSUME NEW pid \in -1..NUM_PROCESSES, CtxSwitch(pid) PROVE TQ!Step
  <2>1. CASE pid \in Pids
    <3>1. TQ!CtxSwitch(pid)
      BY <1>2, <1>11, <2>1 DEF CtxSwitch, TQ!CtxSwitch
    <3> QED BY <2>1, <3>1 DEF TQ!Step
  <2>2. CASE pid \notin Pids
    <3>1. pid \in {-1, NUM_PROCESSES}
      BY <2>2 DEF Pids
    <3> QED BY <1>7, <1>11, <2>2, <3>1 DEF CtxSwitch, cache
  <2> QED BY <2>1, <2>2
<1>12. ASSUME NEW dst \in RegOperands, NEW value \in Words, LoadImmediate(dst, value)
       PROVE  TQ!Step
  <2>1. CASE dst \in Regs
    BY <1>8, <1>12, <2>1 DEF LoadImmediate, SetReg, cache
  <2>2. CASE dst \notin Regs
    BY <1>7, <1>12, <2>2 DEF LoadImmediate, cache
  <2> QED BY <2>1, <2>2
<1>13. ASSUME NEW vaddr \in VAddrs, NEW pfn \in Pfns, NEW toks, Instruction(toks),
              Translate(VpnOf(vaddr), pfn), UNCHANGED <<defined, halted, current_pid, page_tables>>
       PROVE  TQ!Access(VpnOf(vaddr))
  <2>1. Now = global_timestamp + 1
    BY <1>13, NoWrap DEF IInv
  <2> QED BY <1>13, <2>1, VpnRange, TranslateQueues
<1>14. ASSUME NEW dst \in RegOperands, NEW vaddr \in VAddrs, Load(dst, vaddr) PROVE TQ!Step
  <2>1. CASE Exit /\ UNCHANGED cache
    BY <1>7, <1>14, <2>1 DEF Load, cache
  <2>2. CASE ~(Exit /\ UNCHANGED cache)
    <3>1. PICK pfn \in Pfns : /\ dst \in Regs /\ Translate(VpnOf(vaddr), pfn)
                              /\ UNCHANGED <<defined, halted, current_pid, page_tables>>
      BY <1>14, <2>2 DEF Load, SetReg
    <3>2. TQ!Load(dst, vaddr)
      BY <1>13, <1>14, <3>1 DEF Load, TQ!Load
    <3> QED BY <3>1, <3>2 DEF TQ!Step
  <2> QED BY <2>1, <2>2
<1>15. ASSUME NEW vaddr \in VAddrs, NEW value, NEW toks, Instruction(toks), Write(vaddr, value)
       PROVE  (Exit /\ UNCHANGED cache) \/ TQ!Access(VpnOf(vaddr))
  BY <1>13, <1>15 DEF Write, cpu
<1>16. ASSUME NEW vaddr \in VAddrs, NEW value \in Words, StoreImmediate(vaddr, value)
       PROVE  TQ!Step
  <2>1. CASE Exit /\ UNCHANGED cache
    BY <1>7, <1>16, <2>1 DEF StoreImmediate, cache
  <2>2. CASE ~(Exit /\ UNCHANGED cache)
    <3>1. TQ!StoreImmediate(vaddr, value)
      BY <1>15, <1>16, <2>2 DEF StoreImmediate, TQ!StoreImmediate
    <3> QED BY <3>1 DEF TQ!Step
  <2> QED BY <2>1, <2>2
<1>17. ASSUME NEW vaddr \in VAddrs, NEW src \in RegOperands, Store(vaddr, src) PROVE TQ!Step
  <2>1. CASE Exit /\ UNCHANGED cache
    BY <1>7, <1>17, <2>1 DEF Store, cache
  <2>2. CASE ~(Exit /\ UNCHANGED cache)
    <3>1. src \in Regs /\ Write(vaddr, regs[current_pid][src])
      BY <1>17, <2>2 DEF Store
    <3>2. TQ!Store(vaddr, src)
      BY <1>15, <1>17, <2>2, <3>1 DEF Store, TQ!Store
    <3> QED BY <3>1, <3>2 DEF TQ!Step
  <2> QED BY <2>1, <2>2
<1>18. ASSUME NEW vpn \in Vpns, NEW pfn \in Pfns, Map(vpn, pfn) PROVE TQ!Step
  BY <1>18, MapQueues DEF TQ!Step
<1>19. ASSUME NEW vpn \in Vpns, Unmap(vpn) PROVE TQ!Step
  BY <1>19, UnmapQueues DEF TQ!Step
<1>20. ASSUME NEW exists, Inspect(exists) PROVE TQ!Step
  <2>1. CASE Exit
    BY <1>7, <1>20, <2>1 DEF Inspect
  <2>2. CASE ~Exit
    BY <1>8, <1>20, <2>2 DEF Inspect, cpu
  <2> QED BY <2>1, <2>2
<1>21. CASE \/ \E dst \in RegOperands : RInspect(dst)
            \/ \E vpn \in 0..NUM_VPNS : PInspect(vpn)
            \/ \E pl \in 0..(NUM_PFNS * PAGE_SIZE) : LInspect(pl)
            \/ \E tlbn \in -1..TLB_SIZE : TInspect(tlbn)
  BY <1>20, <1>21 DEF RInspect, PInspect, LInspect, TInspect
<1> QED
  BY <1>5, <1>6, <1>9, <1>10, <1>11, <1>12, <1>14, <1>16, <1>17, <1>18, <1>19, <1>21 DEF Step

\* As long as the trace ends before the clock wraps, the timestamps implement
\* the replacement strategy, LRU or FIFO: a miss and a map on a full TLB
\* replace the page at the front of the queue, and no other step reorders it.
THEOREM OldestReplaced == ASSUME Unwrapped PROVE Spec => ReplacesOldest
<1>1. Init => TQ!Init /\ ClockInv
  <2> SUFFICES ASSUME Init PROVE TQ!Init /\ ClockInv
    OBVIOUS
  <2>1. Used = {}
    BY DEF Init, Used
  <2>2. Pages = {} /\ Before = {}
    BY <2>1 DEF Pages, Before
  <2> QED BY <2>1, <2>2, QueueParams DEF Init, TQ!Init, ClockInv
<1>2. IInv /\ ClockInv /\ [Next]_vars => ClockInv'
  BY ClockStep DEF IInv
<1>3. IInv /\ ClockInv /\ ClockInv' /\ [Next]_vars => [TQ!Next]_(TQ!vars)
  BY QueueStep
<1> QED BY <1>1, <1>2, <1>3, IInvHolds, PTL DEF Spec, ReplacesOldest, TQ!Spec
=============================================================================
