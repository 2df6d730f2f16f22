------------------------------ MODULE TlbQueue ------------------------------
(***************************************************************************)
(* What a replacement strategy of memsym.c promises: the cached pages      *)
(* stand in a queue of at most TLB_SIZE pages, the next to be replaced in  *)
(* front.  A page that enters a full queue replaces the front.  Under LRU  *)
(* a hit sends its page to the back, under FIFO it does not; mapping a     *)
(* page always does.  No timestamp and no slot number appears here.        *)
(***************************************************************************)
EXTENDS MemsymParams, FiniteSets

CONSTANTS TLB_SIZE, STRATEGIES

VARIABLES
  strategy, tokens, defined, halted, current_pid, page_tables,
  pages,        \* the cached pages
  before        \* the pairs <<p, q>> of cached pages with p in front of q

queue == <<pages, before>>
vars == <<strategy, tokens, defined, halted, current_pid, page_tables, queue>>

Init ==
  /\ strategy \in STRATEGIES
  /\ tokens = <<>>
  /\ defined = FALSE /\ halted = FALSE
  /\ current_pid = 0
  /\ page_tables = Unallocated
  /\ pages = {} /\ before = {}

IsPage(vpn, p) == p.pid = current_pid /\ p.vpn = vpn
Cached(vpn) == \E p \in pages : IsPage(vpn, p)
Others(vpn) == {p \in pages : ~IsPage(vpn, p)}

\* The pages that stay when one that is not cached enters.
Front(p) == \A q \in pages \ {p} : <<p, q>> \in before
Survivors == IF Cardinality(pages) = TLB_SIZE THEN {p \in pages : ~Front(p)} ELSE pages

\* The queue becomes the pages of S, in their order, and may get one at the back.
Keep(S) == pages' = S /\ before' = before \cap (S \X S)
Requeue(S, p) ==
  /\ pages' = S \cup {p}
  /\ before' = (before \cap (S \X S)) \cup (S \X {p})

Enter(vpn, pfn) ==
  Requeue(IF Cached(vpn) THEN Others(vpn) ELSE Survivors,
          [pid |-> current_pid, vpn |-> vpn, pfn |-> pfn])

\* An access to vpn: the page table is consulted only if the page is not cached.
Access(vpn) ==
  LET pte == page_tables[current_pid][vpn] IN
  /\ Cached(vpn) \/ pte.valid
  /\ IF Cached(vpn) /\ strategy # "LRU" THEN UNCHANGED queue ELSE Enter(vpn, pte.pfn)
  /\ UNCHANGED <<defined, halted, current_pid, page_tables>>

Exit ==
  /\ halted' = TRUE
  /\ UNCHANGED <<defined, current_pid, page_tables, queue>>

Instruction(toks) == defined /\ ~halted /\ tokens' = toks
Uncached == UNCHANGED <<defined, halted, current_pid, page_tables, queue>>

BeforeDefine == ~defined /\ ~halted /\ tokens' = <<"other">> /\ Exit

Define ==
  /\ ~defined /\ ~halted
  /\ tokens' = <<"define">>
  /\ defined' = TRUE
  /\ \/ /\ page_tables' = [p \in Pids |-> [v \in Vpns |-> InvalidPte]]
        /\ UNCHANGED halted
     \/ halted' = TRUE /\ UNCHANGED page_tables
  /\ UNCHANGED <<current_pid, queue>>

CtxSwitch(pid) ==
  /\ Instruction(<<"ctxswitch", pid>>)
  /\ current_pid' = pid
  /\ UNCHANGED <<defined, halted, page_tables, queue>>

Load(dst, vaddr) == Instruction(<<"load", dst, vaddr>>) /\ Access(VpnOf(vaddr))
StoreImmediate(vaddr, value) == Instruction(<<"store#", vaddr, value>>) /\ Access(VpnOf(vaddr))
Store(vaddr, src) == Instruction(<<"store", vaddr, src>>) /\ Access(VpnOf(vaddr))

Map(vpn, pfn) ==
  /\ Instruction(<<"map", vpn, pfn>>)
  /\ page_tables' = [page_tables EXCEPT ![current_pid][vpn] = [pfn |-> pfn, valid |-> TRUE]]
  /\ Enter(vpn, pfn)
  /\ UNCHANGED <<defined, halted, current_pid>>

Unmap(vpn) ==
  /\ Instruction(<<"unmap", vpn>>)
  /\ page_tables' = [page_tables EXCEPT ![current_pid][vpn] = InvalidPte]
  /\ Keep(Others(vpn))
  /\ UNCHANGED <<defined, halted, current_pid>>

\* Instructions that access no page, and exits, leave the queue alone.
Other ==
  \E toks \in {<<"define">>, <<"add">>, <<"inspect">>}
      \cup {<<"load#", dst, value>> : dst \in RegOperands, value \in Words}
      \cup {<<"load", dst, vaddr>> : dst \in RegOperands, vaddr \in VAddrs}
      \cup {<<"store#", vaddr, value>> : vaddr \in VAddrs, value \in Words}
      \cup {<<"store", vaddr, src>> : vaddr \in VAddrs, src \in RegOperands}
      \cup {<<"ctxswitch", pid>> : pid \in {-1, NUM_PROCESSES}} :
    /\ Instruction(toks)
    /\ Exit \/ (toks[1] \in {"add", "inspect", "load#"} /\ Uncached)

Step ==
  \/ BeforeDefine \/ Define \/ Other
  \/ \E pid \in Pids : CtxSwitch(pid)
  \/ \E vaddr \in VAddrs : \/ \E dst \in Regs : Load(dst, vaddr)
                           \/ \E value \in Words : StoreImmediate(vaddr, value)
                           \/ \E src \in Regs : Store(vaddr, src)
  \/ \E vpn \in Vpns : \/ \E pfn \in Pfns : Map(vpn, pfn)
                       \/ Unmap(vpn)

Next == Step /\ UNCHANGED strategy

Spec == Init /\ [][Next]_vars
=============================================================================
