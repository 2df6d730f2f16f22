------------------------------ MODULE MyAlloc ------------------------------
(***************************************************************************)
(* lab05-Group12/myalloc.c: a first-fit allocator over one mmap'ed arena,  *)
(* with a header in front of every chunk, a doubly linked list of headers, *)
(* splitting on allocation and coalescing on free.                         *)
(*                                                                         *)
(* Addresses are offsets into the arena.  The search of myalloc takes one  *)
(* step per hop of the list.  The client is the one the tests are: it      *)
(* frees only what it holds, and does not call myinit on a mapped arena.   *)
(***************************************************************************)
EXTENDS Integers

CONSTANTS
  HDR,             \* sizeof(node_t)
  PAGE_SIZE,       \* getpagesize()
  MAX_ARENA_SIZE,  \* 0x7FFFFFFF in the code, also the largest int
  INIT_SIZES,      \* arguments of myinit
  REQUESTS         \* arguments of myalloc

ASSUME HdrAssumption == HDR \in Nat \ {0}
ASSUME PageSizeAssumption == PAGE_SIZE \in Nat /\ PAGE_SIZE > HDR
ASSUME MaxArenaAssumption == MAX_ARENA_SIZE \in Nat
ASSUME ArgumentsAssumption == INIT_SIZES \subseteq Nat /\ REQUESTS \subseteq Nat

NULL == -1
ERR_OUT_OF_MEMORY == -1
ERR_BAD_ARGUMENTS == -2
ERR_SYSCALL_FAILED == -3
ERR_UNINITIALIZED == -5

VARIABLES
  arena_start,  \* "NULL", "MAPPED" or "MAP_FAILED"
  arena_size,
  head,
  hdr,          \* header address -> the node_t there
  statusno,
  ret,          \* what the last call returned
  pc,           \* "idle", or "search" inside the loop of myalloc
  temp,         \* the header the search looks at
  call,         \* the call in progress, or the last one
  live          \* ghost: pointer the client holds -> size it asked for

arena == <<arena_start, arena_size, head>>
vars == <<arena, hdr, statusno, ret, pc, temp, call, live>>

Init ==
  /\ arena_start = "NULL" /\ arena_size = 0 /\ head = NULL
  /\ hdr = <<>>
  /\ statusno = 0 /\ ret = 0
  /\ pc = "idle" /\ temp = NULL
  /\ call = <<"none">>
  /\ live = <<>>

-----------------------------------------------------------------------------
(* The list of headers. *)

DataOf(h) == h + HDR
EndOf(H, h) == DataOf(h) + H[h].size

\* Mutant of Absorb: the chunk after n still points back at n.
AbsorbOneLink(H, h, n) ==
  [x \in DOMAIN H \ {n} |->
     IF x = h THEN [H[h] EXCEPT !.size = @ + HDR + H[n].size, !.fwd = H[n].fwd] ELSE H[x]]
\* Header h takes over the chunk of n, the header after it.
Absorb(H, h, n) ==
  [x \in DOMAIN H \ {n} |->
     IF x = h THEN [H[h] EXCEPT !.size = @ + HDR + H[n].size, !.fwd = H[n].fwd]
     ELSE IF x = H[n].fwd THEN [H[x] EXCEPT !.bwd = h]
     ELSE H[x]]

MergeNext(H, h) ==
  LET n == H[h].fwd
  IN IF n # NULL /\ H[n].is_free /\ EndOf(H, h) = n THEN Absorb(H, h, n) ELSE H

\* Mutant of MergePrev: only the next chunk is coalesced.
MergePrevNever(H, h) == H
MergePrev(H, h) ==
  LET p == H[h].bwd
  IN IF p # NULL /\ H[p].is_free /\ EndOf(H, p) = h THEN Absorb(H, p, h) ELSE H

\* Mutant of RestSize: the header of the rest is not paid for.
RestSizeNoHeader(H, h, size) == H[h].size - size
RestSize(H, h, size) == H[h].size - size - HDR

\* Header h keeps size bytes; the rest becomes a free chunk after it.
Split(H, h, size) ==
  LET new == DataOf(h) + size
  IN [x \in DOMAIN H \cup {new} |->
        IF x = new THEN [size |-> RestSize(H, h, size), is_free |-> TRUE,
                         fwd |-> H[h].fwd, bwd |-> h]
        ELSE IF x = h THEN [H[h] EXCEPT !.size = size, !.fwd = new]
        ELSE IF x = H[h].fwd THEN [H[x] EXCEPT !.bwd = new]
        ELSE H[x]]

NeedsSplit(H, h, size) == H[h].size - size > HDR
Carve(H, h, size) == IF NeedsSplit(H, h, size) THEN Split(H, h, size) ELSE H
\* Mutants of Fits: off by one; a chunk in use qualifies.
FitsShort(H, h, size) == H[h].is_free /\ H[h].size + 1 >= size
FitsUsed(H, h, size) == H[h].size >= size
Fits(H, h, size) == H[h].is_free /\ H[h].size >= size

-----------------------------------------------------------------------------
(* The operations. *)

Call(c) == pc = "idle" /\ call' = c
Return(value) == ret' = value /\ UNCHANGED <<pc, temp>>
Fail(code, value) ==
  statusno' = code /\ Return(value) /\ UNCHANGED <<arena, hdr, live>>

RoundUp(size) == ((size + PAGE_SIZE - 1) \div PAGE_SIZE) * PAGE_SIZE

\* The conversion of the size_t result to the int myinit returns.
ToInt(n) == IF n > MAX_ARENA_SIZE THEN n - 2 * (MAX_ARENA_SIZE + 1) ELSE n

BadInitSize(size) == size = 0 \/ size > MAX_ARENA_SIZE

InitRejected(size) ==
  /\ Call(<<"myinit">>)
  /\ BadInitSize(size)
  /\ Fail(ERR_BAD_ARGUMENTS, ERR_BAD_ARGUMENTS)

MyInit(size) ==
  /\ Call(<<"myinit">>)
  /\ arena_start # "MAPPED"
  /\ ~BadInitSize(size)
  /\ arena_start' = "MAPPED"
  /\ arena_size' = RoundUp(size)
  /\ head' = 0
  /\ hdr' = [h \in {0} |-> [size |-> RoundUp(size) - HDR, is_free |-> TRUE,
                            fwd |-> NULL, bwd |-> NULL]]
  /\ Return(ToInt(RoundUp(size)))
  /\ UNCHANGED <<statusno, live>>

\* arena_start keeps the MAP_FAILED that mmap returned.
MmapFails(size) ==
  /\ Call(<<"myinit">>)
  /\ arena_start # "MAPPED"
  /\ ~BadInitSize(size)
  /\ arena_start' = "MAP_FAILED"
  /\ statusno' = ERR_SYSCALL_FAILED
  /\ Return(ERR_SYSCALL_FAILED)
  /\ UNCHANGED <<arena_size, head, hdr, live>>

\* munmap refuses MAP_FAILED; the globals are reset before its result is looked at.
MyDestroy ==
  /\ Call(<<"mydestroy">>)
  /\ IF arena_start = "NULL"
     THEN Fail(ERR_UNINITIALIZED, ERR_UNINITIALIZED)
     ELSE LET result == IF arena_start = "MAPPED" THEN 0 ELSE ERR_SYSCALL_FAILED
          IN /\ arena_start' = "NULL" /\ arena_size' = 0 /\ head' = NULL
             /\ hdr' = <<>> /\ live' = <<>>
             /\ statusno' = result
             /\ Return(result)

AllocRejected(size) ==
  /\ Call(<<"myalloc", size>>)
  /\ \/ arena_start = "NULL" /\ Fail(ERR_UNINITIALIZED, NULL)
     \/ arena_start # "NULL" /\ size = 0 /\ Fail(ERR_BAD_ARGUMENTS, NULL)

MyAlloc(size) ==
  /\ Call(<<"myalloc", size>>)
  /\ arena_start # "NULL" /\ size > 0
  /\ pc' = "search"
  /\ temp' = head
  /\ UNCHANGED <<arena, hdr, statusno, ret, live>>

\* Mutant of Following: the list is closed to a ring.
FollowingRing(h) == IF hdr[h].fwd = NULL THEN head ELSE hdr[h].fwd
Following(h) == hdr[h].fwd

NextChunk ==
  /\ pc = "search" /\ temp # NULL
  /\ ~Fits(hdr, temp, call[2])
  /\ temp' = Following(temp)
  /\ UNCHANGED <<arena, hdr, statusno, ret, pc, call, live>>

\* The chunk is marked and its split rest linked.
Found ==
  /\ pc = "search" /\ temp # NULL
  /\ Fits(hdr, temp, call[2])
  /\ hdr' = [Carve(hdr, temp, call[2]) EXCEPT ![temp].is_free = FALSE]
  /\ live' = [p \in DOMAIN live \cup {DataOf(temp)} |->
                IF p = DataOf(temp) THEN call[2] ELSE live[p]]
  /\ ret' = DataOf(temp)
  /\ pc' = "idle" /\ temp' = NULL
  /\ UNCHANGED <<arena, statusno, call>>

NotFound ==
  /\ pc = "search" /\ temp = NULL
  /\ statusno' = ERR_OUT_OF_MEMORY
  /\ ret' = NULL
  /\ pc' = "idle"
  /\ UNCHANGED <<arena, hdr, temp, call, live>>

FreeRejected ==
  /\ Call(<<"myfree", NULL>>)
  /\ statusno' = IF arena_start = "NULL" THEN ERR_UNINITIALIZED ELSE ERR_BAD_ARGUMENTS
  /\ UNCHANGED <<arena, hdr, ret, pc, temp, live>>

Freed(H, h) == [H EXCEPT ![h].is_free = TRUE]

MyFree(ptr) ==
  LET h == ptr - HDR IN
  /\ Call(<<"myfree", ptr>>)
  /\ hdr' = MergePrev(MergeNext(Freed(hdr, h), h), h)
  /\ live' = [p \in DOMAIN live \ {ptr} |-> live[p]]
  /\ UNCHANGED <<arena, statusno, ret, pc, temp>>

Next ==
  \/ \E size \in INIT_SIZES : InitRejected(size) \/ MyInit(size) \/ MmapFails(size)
  \/ MyDestroy
  \/ \E size \in REQUESTS : AllocRejected(size) \/ MyAlloc(size)
  \/ NextChunk \/ Found \/ NotFound
  \/ FreeRejected
  \/ \E ptr \in DOMAIN live : MyFree(ptr)

Spec == Init /\ [][Next]_vars
SearchSpec == Spec /\ WF_vars(NextChunk \/ Found \/ NotFound)

-----------------------------------------------------------------------------
(* Properties. *)

Headers == DOMAIN hdr

\* The types of the allocator's globals and of its headers.
TypeOK ==
  /\ arena_start \in {"NULL", "MAPPED", "MAP_FAILED"}
  /\ arena_size \in Nat
  /\ Headers \subseteq Nat
  /\ hdr \in [Headers -> [size : Nat, is_free : BOOLEAN, fwd : Headers \cup {NULL},
                          bwd : Headers \cup {NULL}]]
  /\ head \in Headers \cup {NULL}
  /\ pc \in {"idle", "search"} /\ temp \in Headers \cup {NULL}
  /\ pc = "search" => call[2] \in Nat \ {0}
  /\ DOMAIN live \subseteq Nat /\ live \in [DOMAIN live -> Nat \ {0}]

\* The chunks tile the arena: every chunk ends where its fwd link points, or at
\* the end of the arena, and bwd points back.  Nothing is lost or overlaps.
Tiled ==
  /\ Headers # {} => head = 0 /\ 0 \in Headers /\ hdr[0].bwd = NULL
  /\ \A h \in Headers :
       /\ EndOf(hdr, h) = IF hdr[h].fwd = NULL THEN arena_size ELSE hdr[h].fwd
       /\ hdr[h].fwd # NULL => hdr[hdr[h].fwd].bwd = h

\* Coalescing is complete: two neighbours are never both free, the state the
\* tests of part 5 look for after each order of frees.
Coalesced ==
  \A h \in Headers : hdr[h].is_free /\ hdr[h].fwd # NULL => ~hdr[hdr[h].fwd].is_free

\* Exactly the chunks a client holds are marked allocated, each as large as asked.
LiveBlocks ==
  /\ DOMAIN live = {DataOf(h) : h \in {g \in Headers : ~hdr[g].is_free}}
  /\ \A p \in DOMAIN live : hdr[p - HDR].size >= live[p]

\* The allocator implements the contract: blocks are disjoint and inside the
\* arena, and a request is refused only if no gap could hold it.
HS == INSTANCE HeapSpec WITH
        arena <- arena_size,
        blocks <- [p \in DOMAIN live |-> hdr[p - HDR].size],
        busy <- pc = "search"
Contract == HS!Spec

\* The walk along fwd ends: every myalloc returns.
SearchEnds == pc = "search" ~> pc = "idle"

\* A myinit that did not fail returns the size of the arena (the tests assert
\* it, test-part1/tests.c:32).
InitReturnsSize ==
  call = <<"myinit">> /\ arena_start = "MAPPED" /\ ret # ERR_BAD_ARGUMENTS => ret = arena_size

\* After a myinit that failed mydestroy reports ERR_UNINITIALIZED
\* (test-part1/tests.c:58).
FailedInitUninitialized ==
  [][call = <<"myinit">> /\ ret = ERR_SYSCALL_FAILED /\ call' = <<"mydestroy">>
       => ret' = ERR_UNINITIALIZED]_vars
=============================================================================
