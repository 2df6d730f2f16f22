----------------------------- MODULE MCMyAlloc -----------------------------
(***************************************************************************)
(* MyAlloc for TLC: arenas of one and two pages, every request up to one   *)
(* that no arena can hold.                                                 *)
(***************************************************************************)
EXTENDS MyAlloc

MCInitSizes == {0, 1, PAGE_SIZE + 1, MAX_ARENA_SIZE, MAX_ARENA_SIZE + 1}
MCRequests == 0..(2 * PAGE_SIZE)
=============================================================================
