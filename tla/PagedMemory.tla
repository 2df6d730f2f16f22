----------------------------- MODULE PagedMemory -----------------------------
(***************************************************************************)
(* What the simulator of memsym.c promises a trace: the machine without    *)
(* its TLB.  Every access goes through the page table of the running       *)
(* process; a register or an access that is not valid ends the run.        *)
(***************************************************************************)
EXTENDS MemsymParams

VARIABLES
  tokens,           \* the last instruction of the trace
  defined,          \* define has run
  halted,           \* exit() was called
  current_pid,
  page_tables,      \* pid -> vpn -> entry
  physical_memory,  \* address -> word
  regs              \* pid -> register -> word

vars == <<tokens, defined, halted, current_pid, page_tables, physical_memory, regs>>

Init ==
  /\ tokens = <<>>
  /\ defined = FALSE
  /\ halted = FALSE
  /\ current_pid = 0
  /\ page_tables = Unallocated
  /\ physical_memory = Unallocated
  /\ regs = [p \in Pids |-> [r \in Regs |-> 0]]

-----------------------------------------------------------------------------
Instruction(toks) == defined /\ ~halted /\ tokens' = toks

Exit ==
  /\ halted' = TRUE
  /\ UNCHANGED <<defined, current_pid, page_tables, physical_memory, regs>>

SetReg(reg, value) ==
  /\ regs' = [regs EXCEPT ![current_pid][reg] = value]
  /\ UNCHANGED <<defined, halted, current_pid, page_tables, physical_memory>>

SetPte(vpn, pte) ==
  /\ page_tables' = [page_tables EXCEPT ![current_pid][vpn] = pte]
  /\ UNCHANGED <<defined, halted, current_pid, physical_memory, regs>>

Pte(vpn) == page_tables[current_pid][vpn]
Location(vaddr) == PhysAddr(Pte(VpnOf(vaddr)).pfn, vaddr)

-----------------------------------------------------------------------------
BeforeDefine ==
  /\ ~defined /\ ~halted
  /\ tokens' = <<"other">>
  /\ Exit

Define ==
  /\ ~defined /\ ~halted
  /\ tokens' = <<"define">>
  /\ defined' = TRUE
  /\ \/ /\ physical_memory' = [a \in PAddrs |-> 0]
        /\ page_tables' = [p \in Pids |-> [v \in Vpns |-> InvalidPte]]
        /\ UNCHANGED halted
     \/ /\ halted' = TRUE
        /\ UNCHANGED <<physical_memory, page_tables>>
  /\ UNCHANGED <<current_pid, regs>>

DefineAgain == Instruction(<<"define">>) /\ Exit

CtxSwitch(pid) ==
  /\ Instruction(<<"ctxswitch", pid>>)
  /\ IF pid \in Pids
     THEN /\ current_pid' = pid
          /\ UNCHANGED <<defined, halted, page_tables, physical_memory, regs>>
     ELSE Exit

LoadImmediate(dst, value) ==
  /\ Instruction(<<"load#", dst, value>>)
  /\ IF dst \in Regs THEN SetReg(dst, value) ELSE Exit

Load(dst, vaddr) ==
  /\ Instruction(<<"load", dst, vaddr>>)
  /\ IF dst \in Regs /\ Pte(VpnOf(vaddr)).valid
     THEN SetReg(dst, physical_memory[Location(vaddr)])
     ELSE Exit

Write(vaddr, value) ==
  /\ physical_memory' = [physical_memory EXCEPT ![Location(vaddr)] = value]
  /\ UNCHANGED <<defined, halted, current_pid, page_tables, regs>>

StoreImmediate(vaddr, value) ==
  /\ Instruction(<<"store#", vaddr, value>>)
  /\ IF Pte(VpnOf(vaddr)).valid THEN Write(vaddr, value) ELSE Exit

Store(vaddr, src) ==
  /\ Instruction(<<"store", vaddr, src>>)
  /\ IF src \in Regs /\ Pte(VpnOf(vaddr)).valid
     THEN Write(vaddr, regs[current_pid][src])
     ELSE Exit

Add ==
  /\ Instruction(<<"add">>)
  /\ SetReg("r1", (regs[current_pid]["r1"] + regs[current_pid]["r2"]) % WORD_SIZE)

Map(vpn, pfn) ==
  /\ Instruction(<<"map", vpn, pfn>>)
  /\ SetPte(vpn, [pfn |-> pfn, valid |-> TRUE])

Unmap(vpn) ==
  /\ Instruction(<<"unmap", vpn>>)
  /\ SetPte(vpn, InvalidPte)

\* rinspect, pinspect, linspect and tinspect only report, or end the run when
\* what they are asked for does not exist.
Inspect ==
  /\ Instruction(<<"inspect">>)
  /\ \/ UNCHANGED <<defined, halted, current_pid, page_tables, physical_memory, regs>>
     \/ Exit

Next ==
  \/ BeforeDefine \/ Define \/ DefineAgain \/ Add \/ Inspect
  \/ \E pid \in -1..NUM_PROCESSES : CtxSwitch(pid)
  \/ \E dst \in RegOperands : \/ \E value \in Words : LoadImmediate(dst, value)
                              \/ \E vaddr \in VAddrs : Load(dst, vaddr)
  \/ \E vaddr \in VAddrs : \/ \E value \in Words : StoreImmediate(vaddr, value)
                           \/ \E src \in RegOperands : Store(vaddr, src)
  \/ \E vpn \in Vpns : \/ \E pfn \in Pfns : Map(vpn, pfn)
                       \/ Unmap(vpn)

Spec == Init /\ [][Next]_vars
=============================================================================
