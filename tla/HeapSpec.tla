------------------------------ MODULE HeapSpec ------------------------------
(***************************************************************************)
(* What the allocator lab05-Group12/myalloc.c promises its client, with no *)
(* chunk list: a block of the asked size, disjoint from every live block   *)
(* and its header, and a refusal only when the gaps between the live       *)
(* blocks are all too small.                                               *)
(***************************************************************************)
EXTENDS Integers

CONSTANTS
  HDR,             \* sizeof(node_t)
  REQUESTS         \* sizes a client asks for

VARIABLES
  arena,    \* its size, 0 when there is none
  blocks,   \* live pointer -> capacity of its block
  call,     \* the call in progress, or the last one
  busy      \* a myalloc is searching

vars == <<arena, blocks, call, busy>>

Init == arena = 0 /\ blocks = <<>> /\ call = <<"none">> /\ busy = FALSE

\* The bytes from a (inclusive) to b (exclusive) touch no live block.
Vacant(a, b) == \A q \in DOMAIN blocks : b <= q - HDR \/ q + blocks[q] <= a

Open ==
  /\ ~busy /\ arena = 0
  /\ call' = <<"myinit">>
  /\ arena' \in Nat \ {0}
  /\ UNCHANGED <<blocks, busy>>

Close ==
  /\ ~busy
  /\ call' = <<"mydestroy">>
  /\ arena' = 0 /\ blocks' = <<>>
  /\ UNCHANGED busy

\* Calls that are refused and change nothing.
Reject(c) == ~busy /\ call' = c /\ UNCHANGED <<arena, blocks, busy>>

Ask(n) ==
  /\ ~busy
  /\ call' = <<"myalloc", n>>
  /\ busy' = TRUE
  /\ UNCHANGED <<arena, blocks>>

\* The block may be larger than asked when what is left could not hold a chunk.
Grant(p, cap) ==
  /\ busy
  /\ call[2] <= cap /\ cap <= call[2] + HDR
  /\ p - HDR >= 0 /\ p + cap <= arena
  /\ Vacant(p - HDR, p + cap)
  /\ blocks' = [q \in DOMAIN blocks \cup {p} |-> IF q = p THEN cap ELSE blocks[q]]
  /\ busy' = FALSE
  /\ UNCHANGED <<arena, call>>

Refuse ==
  /\ busy
  /\ \A a \in 0..(arena - HDR - call[2]) : ~Vacant(a, a + HDR + call[2])
  /\ busy' = FALSE
  /\ UNCHANGED <<arena, blocks, call>>

Release(p) ==
  /\ ~busy
  /\ call' = <<"myfree", p>>
  /\ blocks' = [q \in DOMAIN blocks \ {p} |-> blocks[q]]
  /\ UNCHANGED <<arena, busy>>

Next ==
  \/ Open \/ Close \/ Refuse
  \/ \E n \in REQUESTS : \/ Ask(n)
                         \/ (n = 0 \/ arena = 0) /\ Reject(<<"myalloc", n>>)
  \/ Reject(<<"myinit">>) \/ Reject(<<"myfree", -1>>)
  \/ \E p, cap \in 0..arena : Grant(p, cap)
  \/ \E p \in DOMAIN blocks : Release(p)

Spec == Init /\ [][Next]_vars
=============================================================================
