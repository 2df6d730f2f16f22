--------------------------- MODULE MyAllocProofs ---------------------------
(***************************************************************************)
(* What MyAlloc guarantees for any header and page size, any requests and  *)
(* any order of calls: the chunks tile the arena, neighbours are merged,   *)
(* the client's blocks are the chunks in use, and the allocator implements *)
(* the contract HeapSpec.                                                  *)
(***************************************************************************)
EXTENDS MyAlloc, WellFoundedInduction, TLAPS

(* A list H of headers over an arena of the given size. *)

Shape(H) ==
  /\ DOMAIN H \subseteq Nat
  /\ H \in [DOMAIN H -> [size : Nat, is_free : BOOLEAN, fwd : DOMAIN H \cup {NULL},
                         bwd : DOMAIN H \cup {NULL}]]

Linked(H, size) ==
  /\ DOMAIN H # {} => 0 \in DOMAIN H /\ H[0].bwd = NULL
  /\ \A h \in DOMAIN H :
       /\ EndOf(H, h) = IF H[h].fwd = NULL THEN size ELSE H[h].fwd
       /\ H[h].fwd # NULL => H[H[h].fwd].bwd = h
       /\ H[h].bwd # NULL => H[H[h].bwd].fwd = h

\* Tiling alone would admit two lists over the same bytes.
Apart(H, size) ==
  \A h \in DOMAIN H :
    /\ EndOf(H, h) <= size
    /\ \A g \in DOMAIN H : g < h => EndOf(H, g) <= h

Chunks(H, size) == Shape(H) /\ Linked(H, size) /\ Apart(H, size)

\* No two free neighbours.
Merged(H) ==
  \A h \in DOMAIN H : H[h].is_free /\ H[h].fwd # NULL => ~H[H[h].fwd].is_free

\* Without a mapped arena there is no list.
ArenaInv ==
  /\ arena_start \in {"NULL", "MAPPED", "MAP_FAILED"}
  /\ arena_size \in Nat
  /\ arena_start = "MAPPED" => head = 0 /\ Headers # {}
  /\ arena_start # "MAPPED" => head = NULL /\ Headers = {} /\ arena_size = 0

LiveInv ==
  /\ DOMAIN live = {DataOf(h) : h \in {g \in Headers : ~hdr[g].is_free}}
  /\ live \in [DOMAIN live -> Nat \ {0}]
  /\ \A h \in Headers : ~hdr[h].is_free => hdr[h].size >= live[DataOf(h)]

\* The search has seen every header before temp.
SearchInv ==
  /\ pc \in {"idle", "search"} /\ temp \in Headers \cup {NULL}
  /\ pc = "idle" => temp = NULL
  /\ pc = "search" =>
       /\ call[2] \in Nat \ {0}
       /\ \A h \in Headers : (temp = NULL \/ h < temp) => ~Fits(hdr, h, call[2])

IInv ==
  /\ ArenaInv /\ Chunks(hdr, arena_size) /\ Merged(hdr) /\ LiveInv /\ SearchInv

-----------------------------------------------------------------------------
(* What the operations do to a list of chunks. *)

\* A chunk ends after its header; links point forwards, and back.
LEMMA ChunkFacts ==
  ASSUME NEW H, NEW size \in Nat, Chunks(H, size), NEW h \in DOMAIN H
  PROVE  /\ h \in Nat /\ EndOf(H, h) \in Nat /\ EndOf(H, h) = h + HDR + H[h].size
         /\ H[h].size \in Nat /\ H[h].is_free \in BOOLEAN
         /\ h < EndOf(H, h) /\ EndOf(H, h) <= size
         /\ H[h].fwd # NULL => /\ H[h].fwd \in DOMAIN H /\ h < H[h].fwd
                               /\ H[h].fwd = EndOf(H, h) /\ H[H[h].fwd].bwd = h
         /\ H[h].fwd = NULL => EndOf(H, h) = size
         /\ H[h].bwd # NULL => /\ H[h].bwd \in DOMAIN H /\ H[H[h].bwd].fwd = h
                               /\ EndOf(H, H[h].bwd) = h
<1> USE HdrAssumption
<1>1. h \in Nat /\ H[h].size \in Nat /\ H[h].is_free \in BOOLEAN
  BY DEF Chunks, Shape
<1>2. EndOf(H, h) = h + HDR + H[h].size /\ EndOf(H, h) \in Nat /\ h < EndOf(H, h)
  BY <1>1 DEF EndOf, DataOf
<1>3. EndOf(H, h) <= size
  BY DEF Chunks, Apart
<1>4. H[h].fwd # NULL => H[h].fwd \in DOMAIN H
  BY DEF Chunks, Shape
<1>5. H[h].bwd # NULL => H[h].bwd \in DOMAIN H
  BY DEF Chunks, Shape
<1>6. /\ H[h].fwd # NULL => H[h].fwd = EndOf(H, h) /\ H[H[h].fwd].bwd = h
      /\ H[h].fwd = NULL => EndOf(H, h) = size
      /\ H[h].bwd # NULL => H[H[h].bwd].fwd = h
  BY DEF Chunks, Linked
<1>7. H[h].bwd # NULL => EndOf(H, H[h].bwd) = h
  <2> SUFFICES ASSUME H[h].bwd # NULL PROVE EndOf(H, H[h].bwd) = h
    OBVIOUS
  <2>1. H[H[h].bwd].fwd = h /\ h # NULL
    BY <1>1, <1>6 DEF NULL
  <2> QED
    BY <1>5, <2>1 DEF Chunks, Linked
<1> QED
  BY <1>1, <1>2, <1>3, <1>4, <1>5, <1>6, <1>7

\* What matters for the tiling are sizes and links.
LEMMA SameChunks ==
  ASSUME NEW H, NEW size \in Nat, Chunks(H, size), NEW G, Shape(G), DOMAIN G = DOMAIN H,
         \A x \in DOMAIN H : G[x].size = H[x].size /\ G[x].fwd = H[x].fwd /\ G[x].bwd = H[x].bwd
  PROVE  Chunks(G, size)
<1>1. \A x \in DOMAIN H : EndOf(G, x) = EndOf(H, x)
  BY DEF EndOf
<1>2. Apart(G, size)
  BY <1>1 DEF Chunks, Apart
<1>3. Linked(G, size)
  <2>1. DOMAIN G # {} => 0 \in DOMAIN G /\ G[0].bwd = NULL
    BY DEF Chunks, Linked
  <2>2. ASSUME NEW x \in DOMAIN G
        PROVE  /\ EndOf(G, x) = IF G[x].fwd = NULL THEN size ELSE G[x].fwd
               /\ G[x].fwd # NULL => G[G[x].fwd].bwd = x
               /\ G[x].bwd # NULL => G[G[x].bwd].fwd = x
    <3>1. EndOf(G, x) = IF G[x].fwd = NULL THEN size ELSE G[x].fwd
      <4>1. EndOf(H, x) = IF H[x].fwd = NULL THEN size ELSE H[x].fwd
        BY DEF Chunks, Linked
      <4> QED
        BY <1>1, <4>1
    <3>2. G[x].fwd # NULL => G[G[x].fwd].bwd = x
      BY ChunkFacts
    <3>3. G[x].bwd # NULL => G[G[x].bwd].fwd = x
      BY ChunkFacts
    <3> QED
      BY <3>1, <3>2, <3>3
  <2> QED
    BY <2>1, <2>2 DEF Linked
<1> QED
  BY <1>2, <1>3 DEF Chunks

\* Marking a chunk in use moves no chunk,
Taken(H, h) == [H EXCEPT ![h].is_free = FALSE]

LEMMA MarkUsed ==
  ASSUME NEW H, NEW size \in Nat, Chunks(H, size), NEW h \in DOMAIN H,
         NEW G, G = Taken(H, h)
  PROVE  /\ DOMAIN G = DOMAIN H
         /\ \A x \in DOMAIN H :
              /\ G[x].size = H[x].size /\ G[x].fwd = H[x].fwd
              /\ G[x].is_free <=> x # h /\ H[x].is_free
         /\ Chunks(G, size)
<1>1. H \in [DOMAIN H -> [size : Nat, is_free : BOOLEAN, fwd : DOMAIN H \cup {NULL},
                         bwd : DOMAIN H \cup {NULL}]]
  BY DEF Chunks, Shape
<1>2. /\ DOMAIN G = DOMAIN H
      /\ \A x \in DOMAIN H : G[x].size = H[x].size /\ G[x].fwd = H[x].fwd /\ G[x].bwd = H[x].bwd
  BY <1>1 DEF Taken
<1>3. \A x \in DOMAIN H : G[x].is_free <=> x # h /\ H[x].is_free
  BY <1>1 DEF Taken
<1>4. G \in [DOMAIN H -> [size : Nat, is_free : BOOLEAN, fwd : DOMAIN H \cup {NULL},
                         bwd : DOMAIN H \cup {NULL}]]
  BY <1>1 DEF Taken
<1>5. Shape(G)
  BY <1>2, <1>4 DEF Chunks, Shape
<1>6. Chunks(G, size)
  BY <1>2, <1>5, SameChunks
<1> QED
  BY <1>2, <1>3, <1>6

\* nor does marking it free.
LEMMA MarkFree ==
  ASSUME NEW H, NEW size \in Nat, Chunks(H, size), NEW h \in DOMAIN H,
         NEW G, G = Freed(H, h)
  PROVE  /\ DOMAIN G = DOMAIN H
         /\ \A x \in DOMAIN H :
              /\ G[x].size = H[x].size /\ G[x].fwd = H[x].fwd
              /\ G[x].is_free <=> x = h \/ H[x].is_free
         /\ Chunks(G, size)
<1>1. H \in [DOMAIN H -> [size : Nat, is_free : BOOLEAN, fwd : DOMAIN H \cup {NULL},
                         bwd : DOMAIN H \cup {NULL}]]
  BY DEF Chunks, Shape
<1>2. /\ DOMAIN G = DOMAIN H
      /\ \A x \in DOMAIN H : G[x].size = H[x].size /\ G[x].fwd = H[x].fwd /\ G[x].bwd = H[x].bwd
  BY <1>1 DEF Freed
<1>3. \A x \in DOMAIN H : G[x].is_free <=> x = h \/ H[x].is_free
  BY <1>1 DEF Freed
<1>4. G \in [DOMAIN H -> [size : Nat, is_free : BOOLEAN, fwd : DOMAIN H \cup {NULL},
                         bwd : DOMAIN H \cup {NULL}]]
  BY <1>1 DEF Freed
<1>5. Shape(G)
  BY <1>2, <1>4 DEF Chunks, Shape
<1>6. Chunks(G, size)
  BY <1>2, <1>5, SameChunks
<1> QED
  BY <1>2, <1>3, <1>6

\* Absorb joins a chunk and the next one into one that covers both.
LEMMA AbsorbFacts ==
  ASSUME NEW H, NEW size \in Nat, Chunks(H, size), NEW h \in DOMAIN H,
         NEW n \in DOMAIN H, H[h].fwd = n, NEW G, G = Absorb(H, h, n)
  PROVE  /\ DOMAIN G = DOMAIN H \ {n} /\ h \in DOMAIN G
         /\ \A x \in DOMAIN G :
              /\ G[x].is_free = H[x].is_free
              /\ x # h => G[x].size = H[x].size
              /\ G[x].fwd = IF x = h THEN H[n].fwd ELSE H[x].fwd
              /\ G[x].bwd = IF x = H[n].fwd THEN h ELSE H[x].bwd
         /\ Chunks(G, size)
<1> USE HdrAssumption
<1>1. /\ n \in Nat /\ h \in Nat /\ h < n /\ n = EndOf(H, h) /\ H[n].bwd = h /\ n # NULL
      /\ H[h].fwd # NULL /\ H[n].fwd # h /\ H[n].fwd # n
  <2>1. n \in Nat /\ n # NULL
    BY ChunkFacts DEF NULL
  <2>2. H[n].fwd = NULL \/ n < H[n].fwd
    BY ChunkFacts
  <2> QED
    BY <2>1, <2>2, ChunkFacts DEF NULL
<1>2. H \in [DOMAIN H -> [size : Nat, is_free : BOOLEAN, fwd : DOMAIN H \cup {NULL},
                         bwd : DOMAIN H \cup {NULL}]]
  BY DEF Chunks, Shape
<1>3. /\ DOMAIN G = DOMAIN H \ {n}
      /\ G[h] = [H[h] EXCEPT !.size = H[h].size + HDR + H[n].size, !.fwd = H[n].fwd]
      /\ \A x \in DOMAIN G : x # h => G[x] = IF x = H[n].fwd THEN [H[x] EXCEPT !.bwd = h] ELSE H[x]
  BY <1>1 DEF Absorb
<1>4. /\ G[h].size = H[h].size + HDR + H[n].size /\ G[h].fwd = H[n].fwd
      /\ G[h].bwd = H[h].bwd /\ G[h].is_free = H[h].is_free
  BY <1>2, <1>3
<1>5. \A x \in DOMAIN G : x # h =>
        /\ G[x].size = H[x].size /\ G[x].is_free = H[x].is_free /\ G[x].fwd = H[x].fwd
        /\ G[x].bwd = IF x = H[n].fwd THEN h ELSE H[x].bwd
  BY <1>2, <1>3
<1>6. \A x \in DOMAIN G :
        /\ G[x].is_free = H[x].is_free
        /\ x # h => G[x].size = H[x].size
        /\ G[x].fwd = IF x = h THEN H[n].fwd ELSE H[x].fwd
        /\ G[x].bwd = IF x = H[n].fwd THEN h ELSE H[x].bwd
  BY <1>1, <1>4, <1>5
\* Only h was linked to n, on either side.
<1>7. \A x \in DOMAIN G : (x # h => H[x].fwd # n) /\ (H[x].bwd = n => x = H[n].fwd)
  BY <1>1, <1>3, ChunkFacts
<1>8. \A x \in DOMAIN G : G[x] \in [size : Nat, is_free : BOOLEAN, fwd : DOMAIN G \cup {NULL},
                                   bwd : DOMAIN G \cup {NULL}]
  <2> SUFFICES ASSUME NEW x \in DOMAIN G
               PROVE  G[x] \in [size : Nat, is_free : BOOLEAN, fwd : DOMAIN G \cup {NULL},
                                bwd : DOMAIN G \cup {NULL}]
    OBVIOUS
  <2>1. G[x] \in [size : Nat, is_free : BOOLEAN, fwd : DOMAIN H \cup {NULL},
                  bwd : DOMAIN H \cup {NULL}]
    <3>1. H[x] \in [size : Nat, is_free : BOOLEAN, fwd : DOMAIN H \cup {NULL},
                    bwd : DOMAIN H \cup {NULL}]
      BY <1>2, <1>3
    <3>2. H[h].size + HDR + H[n].size \in Nat /\ H[n].fwd \in DOMAIN H \cup {NULL}
      BY <1>2
    <3>3. CASE x = h
      BY <1>3, <3>1, <3>2, <3>3
    <3>4. CASE x # h
      BY <1>3, <3>1, <3>4
    <3> QED
      BY <3>3, <3>4
  <2>2. G[x].fwd \in DOMAIN G \cup {NULL}
    BY <1>1, <1>2, <1>3, <1>6, <1>7
  <2>3. G[x].bwd \in DOMAIN G \cup {NULL}
    BY <1>1, <1>2, <1>3, <1>6, <1>7
  <2> QED
    BY <2>1, <2>2, <2>3
<1>9. Shape(G)
  <2>1. G = [x \in DOMAIN G |-> G[x]]
    BY DEF Absorb
  <2>2. DOMAIN G \subseteq Nat
    BY <1>3 DEF Chunks, Shape
  <2> QED
    BY <1>8, <2>1, <2>2 DEF Shape
<1>10. \A x \in DOMAIN G : EndOf(G, x) = IF x = h THEN EndOf(H, n) ELSE EndOf(H, x)
  <2>1. EndOf(G, h) = EndOf(H, n)
    BY <1>1, <1>2, <1>4 DEF EndOf, DataOf
  <2>2. \A x \in DOMAIN G : x # h => EndOf(G, x) = EndOf(H, x)
    BY <1>5 DEF EndOf
  <2> QED
    BY <2>1, <2>2
<1>11. Apart(G, size)
  <2> SUFFICES ASSUME NEW x \in DOMAIN G
               PROVE  /\ EndOf(G, x) <= size
                      /\ \A g \in DOMAIN G : g < x => EndOf(G, g) <= x
    BY DEF Apart
  <2>1. EndOf(G, x) <= size
    BY <1>3, <1>10, ChunkFacts
  <2>2. ASSUME NEW g \in DOMAIN G, g < x PROVE EndOf(G, g) <= x
    <3>1. EndOf(H, g) <= x
      BY <1>3, <2>2 DEF Chunks, Apart
    <3>2. CASE g = h
      <4>1. n < x
        BY <1>1, <1>3, <3>1, <3>2, ChunkFacts
      <4> QED
        BY <1>3, <1>10, <3>2, <4>1 DEF Chunks, Apart
    <3> QED
      BY <1>10, <3>1, <3>2
  <2> QED
    BY <2>1, <2>2
<1>12. Linked(G, size)
  <2>1. 0 \in DOMAIN G /\ G[0].bwd = NULL
    <3>1. 0 \in DOMAIN H /\ H[0].bwd = NULL
      BY DEF Chunks, Linked
    <3>2. H[n].fwd # 0 /\ n # 0
      BY <1>1, ChunkFacts DEF NULL
    <3> QED
      BY <1>3, <1>6, <3>1, <3>2
  <2>2. ASSUME NEW x \in DOMAIN G
        PROVE  EndOf(G, x) = IF G[x].fwd = NULL THEN size ELSE G[x].fwd
    BY <1>1, <1>3, <1>6, <1>10, ChunkFacts
  <2>3. ASSUME NEW x \in DOMAIN G, G[x].fwd # NULL PROVE G[G[x].fwd].bwd = x
    <3>1. G[x].fwd \in DOMAIN G
      BY <1>8, <2>3
    <3>2. CASE x = h
      BY <1>6, <3>1, <3>2
    <3>3. CASE x # h
      <4>1. G[x].fwd = H[x].fwd /\ H[H[x].fwd].bwd = x /\ x # n
        BY <1>3, <1>6, <2>3, <3>3, ChunkFacts
      <4>2. H[x].fwd # H[n].fwd
        BY <1>1, <2>3, <4>1, ChunkFacts
      <4> QED
        BY <1>6, <3>1, <4>1, <4>2
    <3> QED
      BY <3>2, <3>3
  <2>4. ASSUME NEW x \in DOMAIN G, G[x].bwd # NULL PROVE G[G[x].bwd].fwd = x
    <3>1. G[x].bwd \in DOMAIN G
      BY <1>8, <2>4
    <3>2. CASE x = H[n].fwd
      BY <1>6, <3>1, <3>2
    <3>3. CASE x # H[n].fwd
      <4>1. G[x].bwd = H[x].bwd /\ H[H[x].bwd].fwd = x /\ x # n
        BY <1>3, <1>6, <2>4, <3>3, ChunkFacts
      <4>2. H[x].bwd # h
        BY <4>1
      <4> QED
        BY <1>6, <3>1, <4>1, <4>2
    <3> QED
      BY <3>2, <3>3
  <2> QED
    BY <2>1, <2>2, <2>3, <2>4 DEF Linked
<1> QED
  BY <1>1, <1>3, <1>6, <1>9, <1>11, <1>12 DEF Chunks

\* Split puts a free chunk behind the bytes that h keeps.
LEMMA SplitFacts ==
  ASSUME NEW H, NEW size \in Nat, Chunks(H, size), NEW h \in DOMAIN H,
         NEW s \in Nat, NeedsSplit(H, h, s), NEW G, G = Split(H, h, s),
         NEW new, new = DataOf(h) + s
  PROVE  /\ DOMAIN G = DOMAIN H \cup {new} /\ new \notin DOMAIN H
         /\ G[new].is_free /\ G[new].fwd = H[h].fwd
         /\ G[h].size = s
         /\ \A x \in DOMAIN H :
              /\ G[x].is_free = H[x].is_free
              /\ x # h => G[x].size = H[x].size
              /\ G[x].fwd = IF x = h THEN new ELSE H[x].fwd
         /\ Chunks(G, size)
<1> USE HdrAssumption
<1>1. h \in Nat /\ H[h].size \in Nat /\ H[h].size - s > HDR /\ EndOf(H, h) = h + HDR + H[h].size
  BY ChunkFacts DEF NeedsSplit
<1>2. new \in Nat /\ h < new /\ new < EndOf(H, h) /\ new # NULL /\ new = h + HDR + s /\ new # 0
  BY <1>1 DEF DataOf, NULL
<1>3. new \notin DOMAIN H
  <2> SUFFICES ASSUME new \in DOMAIN H PROVE FALSE
    OBVIOUS
  <2>1. EndOf(H, h) <= new
    BY <1>2 DEF Chunks, Apart
  <2> QED
    BY <1>1, <1>2, <2>1
<1>4. RestSize(H, h, s) \in Nat /\ new + HDR + RestSize(H, h, s) = EndOf(H, h)
  BY <1>1, <1>2 DEF RestSize
<1>5. H \in [DOMAIN H -> [size : Nat, is_free : BOOLEAN, fwd : DOMAIN H \cup {NULL},
                         bwd : DOMAIN H \cup {NULL}]]
  BY DEF Chunks, Shape
<1>6. H[h].fwd # h /\ H[h].fwd # new
  <2>1. CASE H[h].fwd = NULL
    BY <1>1, <1>2, <2>1 DEF NULL
  <2>2. CASE H[h].fwd # NULL
    BY <1>1, <1>3, <2>2, ChunkFacts
  <2> QED
    BY <2>1, <2>2
<1>7. /\ DOMAIN G = DOMAIN H \cup {new}
      /\ G[new] = [size |-> RestSize(H, h, s), is_free |-> TRUE, fwd |-> H[h].fwd, bwd |-> h]
      /\ G[h] = [H[h] EXCEPT !.size = s, !.fwd = new]
      /\ \A x \in DOMAIN H : x # h => G[x] = IF x = H[h].fwd THEN [H[x] EXCEPT !.bwd = new] ELSE H[x]
  BY <1>2, <1>3 DEF Split
<1>8. /\ G[new].size = RestSize(H, h, s) /\ G[new].is_free /\ G[new].fwd = H[h].fwd /\ G[new].bwd = h
      /\ G[h].size = s /\ G[h].is_free = H[h].is_free /\ G[h].fwd = new /\ G[h].bwd = H[h].bwd
  BY <1>5, <1>7
<1>9. \A x \in DOMAIN H : x # h =>
        /\ G[x].size = H[x].size /\ G[x].is_free = H[x].is_free /\ G[x].fwd = H[x].fwd
        /\ G[x].bwd = IF x = H[h].fwd THEN new ELSE H[x].bwd
  BY <1>5, <1>7
<1>10. Shape(G)
  <2>1. \A x \in DOMAIN G : G[x] \in [size : Nat, is_free : BOOLEAN, fwd : DOMAIN G \cup {NULL},
                                     bwd : DOMAIN G \cup {NULL}]
    <3> SUFFICES ASSUME NEW x \in DOMAIN G
                 PROVE  G[x] \in [size : Nat, is_free : BOOLEAN, fwd : DOMAIN G \cup {NULL},
                                  bwd : DOMAIN G \cup {NULL}]
      OBVIOUS
    <3>1. CASE x = new
      <4>1. H[h].fwd \in DOMAIN G \cup {NULL} /\ h \in DOMAIN G \cup {NULL}
        BY <1>5, <1>7
      <4>2. \A r \in Nat, f, b \in DOMAIN G \cup {NULL} :
              [size |-> r, is_free |-> TRUE, fwd |-> f, bwd |-> b]
                \in [size : Nat, is_free : BOOLEAN, fwd : DOMAIN G \cup {NULL},
                    bwd : DOMAIN G \cup {NULL}]
        OBVIOUS
      <4>3. G[new] = [size |-> RestSize(H, h, s), is_free |-> TRUE, fwd |-> H[h].fwd, bwd |-> h]
        BY <1>7
      <4>4. RestSize(H, h, s) \in Nat
        BY <1>4
      <4> QED
        BY ONLY <3>1, <4>1, <4>2, <4>3, <4>4
    <3>2. CASE x = h
      <4>1. new \in DOMAIN G /\ H[h].bwd \in DOMAIN G \cup {NULL}
        BY <1>5, <1>7
      <4>2. \A r \in [size : Nat, is_free : BOOLEAN, fwd : DOMAIN H \cup {NULL},
                      bwd : DOMAIN H \cup {NULL}] :
              \A f \in DOMAIN G \cup {NULL} : r.bwd \in DOMAIN G \cup {NULL} =>
                [r EXCEPT !.size = s, !.fwd = f]
                  \in [size : Nat, is_free : BOOLEAN, fwd : DOMAIN G \cup {NULL},
                      bwd : DOMAIN G \cup {NULL}]
        OBVIOUS
      <4>3. H[h] \in [size : Nat, is_free : BOOLEAN, fwd : DOMAIN H \cup {NULL},
                     bwd : DOMAIN H \cup {NULL}]
        BY <1>5
      <4>4. G[h] = [H[h] EXCEPT !.size = s, !.fwd = new]
        BY <1>7
      <4> QED
        BY ONLY <3>2, <4>1, <4>2, <4>3, <4>4
    <3>3. CASE x \in DOMAIN H /\ x # h
      BY <1>5, <1>7, <3>3
    <3> QED
      BY <1>7, <3>1, <3>2, <3>3
  <2>2. G = [x \in DOMAIN G |-> G[x]]
    BY DEF Split
  <2>3. DOMAIN G \subseteq Nat
    BY <1>2, <1>7 DEF Chunks, Shape
  <2> QED
    BY <2>1, <2>2, <2>3 DEF Shape
<1>11. /\ EndOf(G, new) = EndOf(H, h) /\ EndOf(G, h) = new
       /\ \A x \in DOMAIN H : x # h => EndOf(G, x) = EndOf(H, x)
  BY <1>2, <1>4, <1>8, <1>9 DEF EndOf, DataOf
<1>12. Apart(G, size)
  <2> SUFFICES ASSUME NEW x \in DOMAIN G
               PROVE  /\ EndOf(G, x) <= size
                      /\ \A g \in DOMAIN G : g < x => EndOf(G, g) <= x
    BY DEF Apart
  <2>1. EndOf(G, x) <= size
    BY <1>1, <1>2, <1>7, <1>11, ChunkFacts
  <2>2. ASSUME NEW g \in DOMAIN G, g < x PROVE EndOf(G, g) <= x
    <3>1. CASE x = new /\ g = h
      BY <1>2, <1>11, <3>1
    <3>2. CASE x = new /\ g # h
      <4>1. g \in DOMAIN H /\ g \in Nat
        BY <1>2, <1>7, <2>2, <3>2, ChunkFacts
      <4>2. ~(h < g)
        <5>1. h < g => EndOf(H, h) <= g
          BY <4>1 DEF Chunks, Apart
        <5> QED
          BY <1>1, <1>2, <2>2, <3>2, <4>1, <5>1
      <4>3. EndOf(H, g) <= h
        BY <1>1, <3>2, <4>1, <4>2 DEF Chunks, Apart
      <4> QED
        BY <1>1, <1>2, <1>11, <3>2, <4>1, <4>3, ChunkFacts
    <3>3. CASE x \in DOMAIN H /\ g = new
      <4>1. x \in Nat /\ h < x
        BY <1>1, <1>2, <2>2, <3>3, ChunkFacts
      <4>2. EndOf(H, h) <= x
        BY <3>3, <4>1 DEF Chunks, Apart
      <4> QED
        BY <1>11, <3>3, <4>2
    <3>4. CASE x \in DOMAIN H /\ g \in DOMAIN H
      <4>1. EndOf(H, g) <= x
        BY <2>2, <3>4 DEF Chunks, Apart
      <4>2. g = h => new <= x
        <5>1. x \in Nat
          BY <3>4, ChunkFacts
        <5> QED
          BY <1>1, <1>2, <4>1, <5>1
      <4> QED
        BY <1>11, <3>4, <4>1, <4>2
    <3> QED
      BY <1>7, <2>2, <3>1, <3>2, <3>3, <3>4, <1>2
  <2> QED
    BY <2>1, <2>2
<1>13. Linked(G, size)
  <2>1. 0 \in DOMAIN G /\ G[0].bwd = NULL
    <3>1. 0 \in DOMAIN H /\ H[0].bwd = NULL
      BY DEF Chunks, Linked
    <3>2. H[h].fwd # 0
      BY <1>1, ChunkFacts DEF NULL
    <3>3. CASE h = 0
      BY <1>7, <1>8, <3>1, <3>3
    <3>4. CASE h # 0
      BY <1>7, <1>9, <3>1, <3>2, <3>4
    <3> QED
      BY <3>3, <3>4
  <2>2. ASSUME NEW x \in DOMAIN G
        PROVE  EndOf(G, x) = IF G[x].fwd = NULL THEN size ELSE G[x].fwd
    <3>1. \A y \in DOMAIN H : EndOf(H, y) = IF H[y].fwd = NULL THEN size ELSE H[y].fwd
      BY DEF Chunks, Linked
    <3>2. CASE x = new
      BY <1>8, <1>11, <3>1, <3>2
    <3>3. CASE x = h
      BY <1>2, <1>8, <1>11, <3>3
    <3>4. CASE x \in DOMAIN H /\ x # h
      BY <1>9, <1>11, <3>1, <3>4
    <3> QED
      BY <1>7, <3>2, <3>3, <3>4
  <2>3. ASSUME NEW x \in DOMAIN G, G[x].fwd # NULL PROVE G[G[x].fwd].bwd = x
    <3>1. CASE x = new
      <4>1. H[h].fwd \in DOMAIN H
        BY <1>8, <2>3, <3>1, ChunkFacts
      <4> QED
        BY <1>6, <1>8, <1>9, <3>1, <4>1
    <3>2. CASE x = h
      BY <1>8, <3>2
    <3>3. CASE x \in DOMAIN H /\ x # h
      <4>1. G[x].fwd = H[x].fwd /\ H[x].fwd \in DOMAIN H /\ H[H[x].fwd].bwd = x
        BY <1>9, <2>3, <3>3, ChunkFacts
      <4>2. H[x].fwd # H[h].fwd
        BY <2>3, <3>3, <4>1, ChunkFacts
      <4>3. CASE H[x].fwd = h
        BY <1>8, <4>1, <4>3
      <4>4. CASE H[x].fwd # h
        BY <1>9, <4>1, <4>2, <4>4
      <4> QED
        BY <4>3, <4>4
    <3> QED
      BY <1>7, <3>1, <3>2, <3>3
  <2>4. ASSUME NEW x \in DOMAIN G, G[x].bwd # NULL PROVE G[G[x].bwd].fwd = x
    <3>1. CASE x = new
      BY <1>8, <3>1
    <3>2. CASE x = h
      <4>1. G[x].bwd = H[h].bwd /\ H[h].bwd \in DOMAIN H /\ H[H[h].bwd].fwd = h
        BY <1>8, <2>4, <3>2, ChunkFacts
      <4>2. H[h].bwd # h
        BY <1>6, <4>1
      <4> QED
        BY <1>9, <3>2, <4>1, <4>2
    <3>3. CASE x \in DOMAIN H /\ x # h /\ x = H[h].fwd
      BY <1>8, <1>9, <3>3
    <3>4. CASE x \in DOMAIN H /\ x # h /\ x # H[h].fwd
      <4>1. G[x].bwd = H[x].bwd /\ H[x].bwd \in DOMAIN H /\ H[H[x].bwd].fwd = x
        BY <1>9, <2>4, <3>4, ChunkFacts
      <4> QED
        BY <1>9, <3>4, <4>1
    <3> QED
      BY <1>7, <3>1, <3>2, <3>3, <3>4
  <2> QED
    BY <2>1, <2>2, <2>3, <2>4 DEF Linked
<1> QED
  BY <1>3, <1>7, <1>8, <1>9, <1>10, <1>12, <1>13 DEF Chunks

\* The chunks in use.
Used(H) == {h \in DOMAIN H : ~H[h].is_free}

\* Free neighbours only around h, and only before it.
MergedAround(H, h) ==
  \A x \in DOMAIN H : H[x].is_free /\ H[x].fwd # NULL /\ H[H[x].fwd].is_free => x = h \/ H[x].fwd = h
MergedAfter(H, h) ==
  \A x \in DOMAIN H : H[x].is_free /\ H[x].fwd # NULL /\ H[H[x].fwd].is_free => H[x].fwd = h

\* The first half of coalescing.
LEMMA MergeNextFacts ==
  ASSUME NEW H, NEW size \in Nat, Chunks(H, size), NEW h \in DOMAIN H, H[h].is_free,
         MergedAround(H, h), NEW G, G = MergeNext(H, h)
  PROVE  /\ Chunks(G, size) /\ h \in DOMAIN G /\ G[h].is_free /\ MergedAfter(G, h)
         /\ Used(G) = Used(H) /\ \A x \in Used(G) : G[x].size = H[x].size
<1>1. CASE H[h].fwd # NULL /\ H[H[h].fwd].is_free
  <2> DEFINE n == H[h].fwd
  <2>1. /\ n \in DOMAIN H /\ EndOf(H, h) = n /\ h \in Nat /\ n \in Nat /\ h < n
        /\ H[n].fwd # NULL => n < H[n].fwd /\ H[n].fwd \in DOMAIN H
    BY <1>1, ChunkFacts
  <2>2. G = Absorb(H, h, n)
    BY <1>1, <2>1 DEF MergeNext
  <2> HIDE DEF n
  <2>3. H[h].fwd = n /\ H[n].is_free
    BY <1>1 DEF n
  <2>4. /\ DOMAIN G = DOMAIN H \ {n} /\ h \in DOMAIN G /\ Chunks(G, size)
        /\ \A x \in DOMAIN G :
              /\ G[x].is_free = H[x].is_free
              /\ x # h => G[x].size = H[x].size
              /\ G[x].fwd = IF x = h THEN H[n].fwd ELSE H[x].fwd
    BY <2>1, <2>2, <2>3, AbsorbFacts
  <2>5. MergedAfter(G, h)
    <3> SUFFICES ASSUME NEW x \in DOMAIN G, G[x].is_free, G[x].fwd # NULL, G[G[x].fwd].is_free
                 PROVE  G[x].fwd = h
      BY DEF MergedAfter
    <3>1. G[x].fwd \in DOMAIN G
      BY <2>4, ChunkFacts
    <3>2. H[G[x].fwd].is_free /\ H[x].is_free /\ x \in DOMAIN H
      BY <2>4, <3>1
    <3>3. x # h
      <4> SUFFICES ASSUME x = h PROVE FALSE
        OBVIOUS
      <4>1. H[n].is_free /\ H[n].fwd # NULL /\ H[H[n].fwd].is_free
        BY <2>3, <2>4, <3>2
      <4>2. n = h \/ H[n].fwd = h
        BY <2>1, <4>1 DEF MergedAround
      <4> QED
        BY <2>1, <4>1, <4>2
    <3> QED
      BY <2>4, <3>2, <3>3 DEF MergedAround
  <2>6. Used(G) = Used(H)
    BY <2>3, <2>4 DEF Used
  <2>7. \A x \in Used(G) : G[x].size = H[x].size
    BY <2>4 DEF Used
  <2>8. G[h].is_free
    BY <2>4
  <2> QED
    BY <2>4, <2>5, <2>6, <2>7, <2>8
<1>2. CASE ~(H[h].fwd # NULL /\ H[H[h].fwd].is_free)
  <2>1. G = H
    BY <1>2 DEF MergeNext
  <2>2. MergedAfter(H, h)
    BY <1>2 DEF MergedAround, MergedAfter
  <2> QED
    BY <2>1, <2>2
<1> QED
  BY <1>1, <1>2

\* The second half.
LEMMA MergePrevFacts ==
  ASSUME NEW H, NEW size \in Nat, Chunks(H, size), NEW h \in DOMAIN H, H[h].is_free,
         MergedAfter(H, h), NEW G, G = MergePrev(H, h)
  PROVE  /\ Chunks(G, size) /\ Merged(G) /\ DOMAIN G # {}
         /\ Used(G) = Used(H) /\ \A x \in Used(G) : G[x].size = H[x].size
<1>1. CASE H[h].bwd # NULL /\ H[H[h].bwd].is_free
  <2> DEFINE q == H[h].bwd
  <2>1. /\ q \in DOMAIN H /\ EndOf(H, q) = h /\ H[q].fwd = h
        /\ h \in Nat /\ q \in Nat /\ q < h
        /\ H[h].fwd # NULL => h < H[h].fwd /\ H[h].fwd \in DOMAIN H
    BY <1>1, ChunkFacts
  <2>2. G = Absorb(H, q, h)
    BY <1>1, <2>1 DEF MergePrev
  <2>3. H[q].is_free
    BY <1>1
  <2> HIDE DEF q
  <2>4. /\ DOMAIN G = DOMAIN H \ {h} /\ q \in DOMAIN G /\ Chunks(G, size)
        /\ \A x \in DOMAIN G :
              /\ G[x].is_free = H[x].is_free
              /\ x # q => G[x].size = H[x].size
              /\ G[x].fwd = IF x = q THEN H[h].fwd ELSE H[x].fwd
    BY <2>1, <2>2, AbsorbFacts
  <2>5. Merged(G)
    <3> SUFFICES ASSUME NEW x \in DOMAIN G, G[x].is_free, G[x].fwd # NULL, G[G[x].fwd].is_free
                 PROVE  FALSE
      BY DEF Merged
    <3>1. G[x].fwd \in DOMAIN G /\ G[x].fwd # h
      BY <2>4, ChunkFacts
    <3>2. H[G[x].fwd].is_free /\ H[x].is_free /\ x \in DOMAIN H
      BY <2>4, <3>1
    <3>3. CASE x = q
      <4>1. H[h].fwd # NULL /\ H[H[h].fwd].is_free
        BY <2>4, <3>2, <3>3
      <4>2. H[h].fwd = h
        BY <4>1 DEF MergedAfter
      <4> QED
        BY <2>1, <4>1, <4>2
    <3>4. CASE x # q
      BY <2>4, <3>1, <3>2, <3>4 DEF MergedAfter
    <3> QED
      BY <3>3, <3>4
  <2>6. Used(G) = Used(H)
    BY <2>1, <2>4 DEF Used
  <2>7. \A x \in Used(G) : G[x].size = H[x].size
    BY <2>3, <2>4 DEF Used
  <2> QED
    BY <2>4, <2>5, <2>6, <2>7
<1>2. CASE ~(H[h].bwd # NULL /\ H[H[h].bwd].is_free)
  <2>1. G = H
    BY <1>2 DEF MergePrev
  <2>2. Merged(H)
    <3> SUFFICES ASSUME NEW x \in DOMAIN H, H[x].is_free, H[x].fwd # NULL, H[H[x].fwd].is_free
                 PROVE  FALSE
      BY DEF Merged
    <3>1. H[x].fwd = h /\ H[h].bwd = x
      BY ChunkFacts DEF MergedAfter
    <3>2. x # NULL
      BY ChunkFacts DEF NULL
    <3> QED
      BY <1>2, <3>1, <3>2
  <2> QED
    BY <2>1, <2>2
<1> QED
  BY <1>1, <1>2

\* What Found leaves: h in use with room for s bytes, every other chunk in use
\* as it was.
LEMMA CarveFacts ==
  ASSUME NEW H, NEW size \in Nat, Chunks(H, size), Merged(H), NEW h \in DOMAIN H, NEW s \in Nat,
         Fits(H, h, s), NEW C, C = Carve(H, h, s),
         NEW G, G = Taken(C, h)
  PROVE  /\ Chunks(G, size) /\ Merged(G) /\ h \in DOMAIN G
         /\ Used(G) = Used(H) \cup {h}
         /\ \A x \in Used(H) : G[x].size = H[x].size
         /\ G[h].size >= s /\ G[h].size <= s + HDR
<1> USE HdrAssumption
<1>1. H[h].is_free /\ H[h].size >= s /\ H[h].size \in Nat /\ h \in Nat
  BY ChunkFacts DEF Fits
<1>2. H[h].fwd # NULL => ~H[H[h].fwd].is_free /\ H[h].fwd \in DOMAIN H /\ h < H[h].fwd
  BY <1>1, ChunkFacts DEF Merged
<1>3. CASE NeedsSplit(H, h, s)
  <2> DEFINE new == DataOf(h) + s
  <2>1. C = Split(H, h, s)
    BY <1>3 DEF Carve
  <2>2. /\ DOMAIN C = DOMAIN H \cup {new} /\ new \notin DOMAIN H
        /\ C[new].is_free /\ C[new].fwd = H[h].fwd
        /\ C[h].size = s
        /\ \A x \in DOMAIN H :
             /\ C[x].is_free = H[x].is_free
             /\ x # h => C[x].size = H[x].size
             /\ C[x].fwd = IF x = h THEN new ELSE H[x].fwd
        /\ Chunks(C, size)
    BY <1>3, <2>1, SplitFacts
  <2> HIDE DEF new
  <2>3. /\ DOMAIN G = DOMAIN C
        /\ \A x \in DOMAIN C :
              /\ G[x].size = C[x].size /\ G[x].fwd = C[x].fwd
              /\ G[x].is_free <=> x # h /\ C[x].is_free
        /\ Chunks(G, size)
    BY <2>2, MarkUsed
  <2>4. Merged(G)
    <3> SUFFICES ASSUME NEW x \in DOMAIN G, G[x].is_free, G[x].fwd # NULL, G[G[x].fwd].is_free
                 PROVE  FALSE
      BY DEF Merged
    <3>1. x # h /\ G[x].fwd \in DOMAIN G /\ G[x].fwd # h
      BY <2>2, <2>3, ChunkFacts
    <3>2. CASE x = new
      BY <1>2, <2>2, <2>3, <3>1, <3>2
    <3>3. CASE x # new
      <4>1. x \in DOMAIN H /\ H[x].is_free /\ G[x].fwd = H[x].fwd
        BY <2>2, <2>3, <3>1, <3>3
      <4>2. H[x].fwd \in DOMAIN H /\ ~H[H[x].fwd].is_free
        BY <4>1, ChunkFacts DEF Merged
      <4> QED
        BY <2>2, <2>3, <3>1, <4>1, <4>2
    <3> QED
      BY <3>2, <3>3
  <2>5. Used(G) = Used(H) \cup {h}
    BY <2>2, <2>3 DEF Used
  <2>6. \A x \in Used(H) : G[x].size = H[x].size
    BY <1>1, <2>2, <2>3 DEF Used
  <2>7. h \in DOMAIN G /\ G[h].size = s /\ s <= s + HDR
    BY <2>2, <2>3
  <2> QED
    BY <2>2, <2>3, <2>4, <2>5, <2>6, <2>7
<1>4. CASE ~NeedsSplit(H, h, s)
  <2>1. C = H
    BY <1>4 DEF Carve
  <2>2. /\ DOMAIN G = DOMAIN H
        /\ \A x \in DOMAIN H :
              /\ G[x].size = H[x].size /\ G[x].fwd = H[x].fwd
              /\ G[x].is_free <=> x # h /\ H[x].is_free
        /\ Chunks(G, size)
    BY <2>1, MarkUsed
  <2>3. Merged(G)
    <3> SUFFICES ASSUME NEW x \in DOMAIN G, G[x].is_free, G[x].fwd # NULL
                 PROVE  ~G[G[x].fwd].is_free
      BY DEF Merged
    <3>1. x \in DOMAIN H /\ H[x].is_free /\ G[x].fwd = H[x].fwd /\ H[x].fwd # NULL
      BY <2>2
    <3>2. H[x].fwd \in DOMAIN H /\ ~H[H[x].fwd].is_free
      BY <3>1, ChunkFacts DEF Merged
    <3> QED
      BY <2>2, <3>1, <3>2
  <2>4. Used(G) = Used(H) \cup {h}
    BY <2>2 DEF Used
  <2>5. \A x \in Used(H) : G[x].size = H[x].size
    BY <2>2 DEF Used
  <2>6. G[h].size = H[h].size /\ H[h].size <= s + HDR
    BY <1>1, <1>4, <2>2 DEF NeedsSplit
  <2> QED
    BY <1>1, <2>2, <2>3, <2>4, <2>5, <2>6
<1> QED
  BY <1>3, <1>4

\* What MyFree leaves: every chunk in use but h, as it was.
LEMMA FreeFacts ==
  ASSUME NEW H, NEW size \in Nat, Chunks(H, size), Merged(H), NEW h \in Used(H),
         NEW G, G = MergePrev(MergeNext(Freed(H, h), h), h)
  PROVE  /\ Chunks(G, size) /\ Merged(G) /\ DOMAIN G # {}
         /\ Used(G) = Used(H) \ {h}
         /\ \A x \in Used(G) : G[x].size = H[x].size
<1> DEFINE F == Freed(H, h)
           M == MergeNext(F, h)
<1>1. h \in DOMAIN H
  BY DEF Used
<1>2. /\ DOMAIN F = DOMAIN H
      /\ \A x \in DOMAIN H :
           /\ F[x].size = H[x].size /\ F[x].fwd = H[x].fwd
           /\ F[x].is_free <=> x = h \/ H[x].is_free
      /\ Chunks(F, size)
  BY <1>1, MarkFree
<1> HIDE DEF F
<1>3. MergedAround(F, h)
  <2> SUFFICES ASSUME NEW x \in DOMAIN F, F[x].is_free, F[x].fwd # NULL, F[F[x].fwd].is_free,
                      x # h, F[x].fwd # h
               PROVE  FALSE
    BY DEF MergedAround
  <2>1. x \in DOMAIN H /\ H[x].is_free /\ F[x].fwd = H[x].fwd
    BY <1>2
  <2>2. H[x].fwd \in DOMAIN H /\ ~H[H[x].fwd].is_free
    BY <2>1, ChunkFacts DEF Merged
  <2> QED
    BY <1>2, <2>1, <2>2
<1>4. F[h].is_free
  BY <1>1, <1>2
<1>5. /\ Chunks(M, size) /\ h \in DOMAIN M /\ M[h].is_free /\ MergedAfter(M, h)
      /\ Used(M) = Used(F) /\ \A x \in Used(M) : M[x].size = F[x].size
  BY <1>1, <1>2, <1>3, <1>4, MergeNextFacts
<1> HIDE DEF M
<1>6. G = MergePrev(M, h)
  BY DEF F, M
<1>7. /\ Chunks(G, size) /\ Merged(G) /\ DOMAIN G # {}
      /\ Used(G) = Used(M) /\ \A x \in Used(G) : G[x].size = M[x].size
  BY <1>5, <1>6, MergePrevFacts
<1>8. Used(F) = Used(H) \ {h} /\ \A x \in Used(F) : F[x].size = H[x].size
  BY <1>2 DEF Used
<1> QED
  BY <1>5, <1>7, <1>8

-----------------------------------------------------------------------------
(* The invariant. *)

LEMMA NoChunks ==
  ASSUME NEW H, H = <<>>, NEW size
  PROVE  DOMAIN H = {} /\ Chunks(H, size) /\ Merged(H) /\ Used(H) = {}
<1>1. DOMAIN H = {}
  OBVIOUS
<1>2. H \in [DOMAIN H -> [size : Nat, is_free : BOOLEAN, fwd : DOMAIN H \cup {NULL},
                         bwd : DOMAIN H \cup {NULL}]]
  BY <1>1
<1> QED
  BY <1>1, <1>2 DEF Chunks, Shape, Linked, Apart, Merged, Used

LEMMA InitIInv == Init => IInv
<1> SUFFICES ASSUME Init PROVE IInv
  OBVIOUS
<1>1. Headers = {} /\ Chunks(hdr, arena_size) /\ Merged(hdr) /\ Used(hdr) = {}
  BY NoChunks DEF Init, Headers
<1>2. ArenaInv /\ SearchInv
  BY <1>1 DEF Init, ArenaInv, SearchInv
<1>3. LiveInv
  <2>1. DOMAIN live = {} /\ live \in [DOMAIN live -> Nat \ {0}]
    BY DEF Init
  <2> QED
    BY <1>1, <2>1 DEF LiveInv, Headers
<1> QED
  BY <1>1, <1>2, <1>3 DEF IInv

\* mmap gives whole pages, at least one.
LEMMA RoundUpBound ==
  ASSUME NEW size \in Nat, size > 0
  PROVE  RoundUp(size) \in Nat /\ RoundUp(size) >= PAGE_SIZE
<1> DEFINE pages == (size + PAGE_SIZE - 1) \div PAGE_SIZE
<1>1. PAGE_SIZE \in Nat /\ PAGE_SIZE > 0
  BY PageSizeAssumption, HdrAssumption
<1>2. pages \in Nat /\ pages >= 1
  BY <1>1
<1>3. RoundUp(size) = pages * PAGE_SIZE
  BY DEF RoundUp
<1> HIDE DEF pages
<1>4. pages * PAGE_SIZE >= PAGE_SIZE /\ pages * PAGE_SIZE \in Nat
  BY <1>1, <1>2
<1> QED
  BY <1>3, <1>4

\* The arena's first list is one free chunk.
LEMMA FirstChunk ==
  ASSUME NEW size \in Nat, size > HDR, NEW H,
         H = [h \in {0} |-> [size |-> size - HDR, is_free |-> TRUE, fwd |-> NULL, bwd |-> NULL]]
  PROVE  DOMAIN H = {0} /\ Chunks(H, size) /\ Merged(H) /\ Used(H) = {}
<1> USE HdrAssumption
<1>1. /\ DOMAIN H = {0} /\ H[0].size = size - HDR /\ H[0].is_free /\ H[0].fwd = NULL
      /\ H[0].bwd = NULL
  OBVIOUS
<1>2. Shape(H)
  <2>1. size - HDR \in Nat
    OBVIOUS
  <2>2. \A S : \A r \in Nat : [size |-> r, is_free |-> TRUE, fwd |-> NULL, bwd |-> NULL]
          \in [size : Nat, is_free : BOOLEAN, fwd : S \cup {NULL}, bwd : S \cup {NULL}]
    OBVIOUS
  <2>3. [size |-> size - HDR, is_free |-> TRUE, fwd |-> NULL, bwd |-> NULL]
          \in [size : Nat, is_free : BOOLEAN, fwd : {0} \cup {NULL}, bwd : {0} \cup {NULL}]
    BY ONLY <2>1, <2>2
  <2>4. H \in [{0} -> [size : Nat, is_free : BOOLEAN, fwd : {0} \cup {NULL}, bwd : {0} \cup {NULL}]]
    BY <2>3
  <2> QED
    BY <1>1, <2>4 DEF Shape
<1>3. EndOf(H, 0) = size
  BY <1>1 DEF EndOf, DataOf
<1>4. Linked(H, size)
  <2>1. EndOf(H, 0) = IF H[0].fwd = NULL THEN size ELSE H[0].fwd
    BY <1>1, <1>3
  <2> QED
    BY <1>1, <2>1 DEF Linked
<1>5. Apart(H, size)
  BY <1>1, <1>3 DEF Apart
<1> QED
  BY <1>1, <1>2, <1>4, <1>5 DEF Chunks, Merged, Used

\* Calls that are refused, and the first step of a search, touch no chunk.
LEMMA QuietStep ==
  ASSUME IInv, UNCHANGED <<head, arena_size, hdr, live>>,
         \/ arena_start' = arena_start
         \/ arena_start # "MAPPED" /\ arena_start' \in {"NULL", "MAP_FAILED"}
  PROVE  /\ ArenaInv' /\ Chunks(hdr, arena_size)' /\ Merged(hdr)' /\ LiveInv'
<1> USE DEF IInv
<1>1. ArenaInv'
  BY DEF ArenaInv, Headers
<1>2. Chunks(hdr, arena_size)' /\ Merged(hdr)'
  OBVIOUS
<1>3. LiveInv'
  BY DEF LiveInv, Headers
<1> QED
  BY <1>1, <1>2, <1>3

LEMMA IInvStep == IInv /\ [Next]_vars => IInv'
<1> SUFFICES ASSUME IInv, [Next]_vars PROVE IInv'
  OBVIOUS
<1>0. arena_size \in Nat /\ Chunks(hdr, arena_size) /\ Merged(hdr)
  BY DEF IInv, ArenaInv
<1>1. ASSUME NEW size \in INIT_SIZES, InitRejected(size) \/ MmapFails(size) PROVE IInv'
  <2>1. /\ UNCHANGED <<head, arena_size, hdr, live>> /\ UNCHANGED <<pc, temp>> /\ pc = "idle"
        /\ \/ arena_start' = arena_start
           \/ arena_start # "MAPPED" /\ arena_start' \in {"NULL", "MAP_FAILED"}
    BY <1>1 DEF InitRejected, MmapFails, Call, Fail, Return, arena
  <2>2. SearchInv'
    BY <2>1 DEF IInv, SearchInv, Headers
  <2> QED
    BY <2>1, <2>2, QuietStep DEF IInv
<1>2. ASSUME NEW size \in INIT_SIZES, MyInit(size) PROVE IInv'
  <2>1. /\ arena_start' = "MAPPED" /\ arena_size' = RoundUp(size) /\ head' = 0
        /\ hdr' = [h \in {0} |-> [size |-> RoundUp(size) - HDR, is_free |-> TRUE,
                                  fwd |-> NULL, bwd |-> NULL]]
        /\ UNCHANGED <<live, pc, temp>> /\ pc = "idle" /\ arena_start # "MAPPED" /\ size # 0
    BY <1>2 DEF MyInit, Call, Return, BadInitSize
  <2>2. RoundUp(size) \in Nat /\ RoundUp(size) > HDR
    BY <2>1, RoundUpBound, ArgumentsAssumption, PageSizeAssumption, HdrAssumption
  <2>3. Headers' = {0} /\ Chunks(hdr, arena_size)' /\ Merged(hdr)' /\ Used(hdr)' = {}
    BY <2>1, <2>2, FirstChunk DEF Headers
  <2>4. ArenaInv'
    BY <2>1, <2>2, <2>3 DEF ArenaInv
  <2>5. LiveInv'
    <3>1. DOMAIN live = {} /\ live \in [DOMAIN live -> Nat \ {0}]
      BY <2>1 DEF IInv, ArenaInv, LiveInv
    <3>2. \A h \in Headers' : hdr'[h].is_free
      BY <2>3 DEF Used, Headers
    <3> QED
      BY <2>1, <3>1, <3>2 DEF LiveInv
  <2>6. SearchInv'
    BY <2>1, <2>3 DEF IInv, SearchInv
  <2> QED
    BY <2>3, <2>4, <2>5, <2>6 DEF IInv
<1>3. CASE MyDestroy
  <2>1. CASE arena_start = "NULL"
    <3>1. UNCHANGED <<arena_start, head, arena_size, hdr, live, pc, temp>> /\ pc = "idle"
      BY <1>3, <2>1 DEF MyDestroy, Call, Fail, Return, arena
    <3>2. SearchInv'
      BY <3>1 DEF IInv, SearchInv, Headers
    <3> QED
      BY <3>1, <3>2, QuietStep DEF IInv
  <2>2. CASE arena_start # "NULL"
    <3>1. /\ arena_start' = "NULL" /\ arena_size' = 0 /\ head' = NULL
          /\ hdr' = <<>> /\ live' = <<>> /\ UNCHANGED <<pc, temp>> /\ pc = "idle"
      BY <1>3, <2>2 DEF MyDestroy, Call, Return
    <3>2. Headers' = {} /\ Chunks(hdr, arena_size)' /\ Merged(hdr)'
      BY <3>1, NoChunks DEF Headers
    <3>3. DOMAIN live' = {} /\ live' \in [DOMAIN live' -> Nat \ {0}]
      BY <3>1
    <3>4. LiveInv'
      BY <3>2, <3>3 DEF LiveInv
    <3>5. ArenaInv' /\ SearchInv'
      BY <3>1, <3>2 DEF ArenaInv, SearchInv, IInv
    <3> QED
      BY <3>2, <3>4, <3>5 DEF IInv
  <2> QED
    BY <2>1, <2>2
<1>4. ASSUME NEW size \in REQUESTS, AllocRejected(size) PROVE IInv'
  <2>1. UNCHANGED <<arena_start, head, arena_size, hdr, live, pc, temp>> /\ pc = "idle"
    BY <1>4 DEF AllocRejected, Call, Fail, Return, arena
  <2>2. SearchInv'
    BY <2>1 DEF IInv, SearchInv, Headers
  <2> QED
    BY <2>1, <2>2, QuietStep DEF IInv
<1>5. ASSUME NEW size \in REQUESTS, MyAlloc(size) PROVE IInv'
  <2>1. /\ UNCHANGED <<arena_start, head, arena_size, hdr, live>>
        /\ pc' = "search" /\ temp' = head /\ call' = <<"myalloc", size>> /\ size > 0
    BY <1>5 DEF MyAlloc, Call, arena
  <2>2. head \in Headers \cup {NULL} /\ \A h \in Headers : h \in Nat /\ head = 0
    BY <1>0, ChunkFacts DEF IInv, ArenaInv, Headers, Chunks, Linked
  <2>3. \A h \in Headers : ~(head = NULL \/ h < head)
    BY <2>2 DEF NULL
  <2>4. size \in Nat \ {0} /\ call'[2] = size
    BY <2>1, ArgumentsAssumption
  <2>5. SearchInv'
    BY <2>1, <2>2, <2>3, <2>4 DEF SearchInv, Headers
  <2> QED
    BY <2>1, <2>5, QuietStep DEF IInv
<1>6. CASE NextChunk
  <2>1. /\ UNCHANGED <<arena_start, head, arena_size, hdr, live, pc, call>>
        /\ pc = "search" /\ temp # NULL /\ temp' = hdr[temp].fwd /\ ~Fits(hdr, temp, call[2])
    BY <1>6 DEF NextChunk, Following, arena
  <2>2. temp \in Headers
    BY <2>1 DEF IInv, SearchInv
  <2>3. temp' \in Headers \cup {NULL}
    BY <1>0, <2>1, <2>2, ChunkFacts DEF Headers
  <2>4. ASSUME NEW h \in Headers, temp' = NULL \/ h < temp' PROVE h < temp \/ h = temp
    <3>1. SUFFICES ASSUME temp < h PROVE FALSE
      BY <1>0, <2>2, ChunkFacts DEF Headers
    <3>2. EndOf(hdr, temp) <= h /\ EndOf(hdr, temp) \in Nat /\ h \in Nat
      BY <1>0, <2>2, <3>1, ChunkFacts DEF Headers, Chunks, Apart
    <3>3. h < EndOf(hdr, h) /\ EndOf(hdr, h) <= arena_size /\ EndOf(hdr, h) \in Nat
      BY <1>0, ChunkFacts DEF Headers
    <3>4. EndOf(hdr, temp) = IF temp' = NULL THEN arena_size ELSE temp'
      BY <1>0, <2>1, <2>2 DEF Headers, Chunks, Linked
    <3> QED
      BY <1>0, <2>4, <3>2, <3>3, <3>4
  <2>5. SearchInv'
    BY <2>1, <2>2, <2>3, <2>4 DEF IInv, SearchInv, Headers
  <2> QED
    BY <2>1, <2>5, QuietStep DEF IInv
<1>7. CASE Found
  <2> DEFINE h == temp
             n == call[2]
  <2>1. /\ pc = "search" /\ h # NULL /\ Fits(hdr, h, n)
        /\ hdr' = Taken(Carve(hdr, h, n), h)
        /\ live' = [q \in DOMAIN live \cup {DataOf(h)} |-> IF q = DataOf(h) THEN n ELSE live[q]]
        /\ UNCHANGED <<arena_start, arena_size, head>> /\ pc' = "idle" /\ temp' = NULL
    BY <1>7 DEF Found, arena, Taken
  <2>2. h \in Headers /\ n \in Nat \ {0}
    BY <2>1 DEF IInv, SearchInv
  <2> HIDE DEF h, n
  <2>3. /\ Chunks(hdr', arena_size) /\ Merged(hdr') /\ h \in Headers'
        /\ Used(hdr') = Used(hdr) \cup {h}
        /\ \A x \in Used(hdr) : hdr'[x].size = hdr[x].size
        /\ hdr'[h].size >= n
    BY <1>0, <2>1, <2>2, CarveFacts DEF Headers
  <2>4. h \notin Used(hdr) /\ \A x \in Used(hdr) : DataOf(x) # DataOf(h)
    <3>1. h \in Nat /\ \A x \in Used(hdr) : x \in Nat
      BY <1>0, <2>2, ChunkFacts DEF Headers, Used
    <3> QED
      BY <2>1, <3>1, HdrAssumption DEF Fits, Used, DataOf
  <2>5. LiveInv'
    <3>1. DOMAIN live = {DataOf(x) : x \in Used(hdr)} /\ live \in [DOMAIN live -> Nat \ {0}]
          /\ \A x \in Used(hdr) : hdr[x].size >= live[DataOf(x)]
      BY DEF IInv, LiveInv, Used, Headers
    <3>2. DOMAIN live' = DOMAIN live \cup {DataOf(h)}
      BY <2>1
    <3>3. DOMAIN live' = {DataOf(x) : x \in Used(hdr')}
      BY <2>3, <3>1, <3>2
    <3>4. live' \in [DOMAIN live' -> Nat \ {0}]
      BY <2>1, <2>2, <3>1, <3>2
    <3>5. \A x \in Used(hdr') : hdr'[x].size >= live'[DataOf(x)]
      BY <2>1, <2>3, <2>4, <3>1
    <3> QED
      BY <3>3, <3>4, <3>5 DEF LiveInv, Used, Headers
  <2>6. ArenaInv' /\ SearchInv'
    BY <2>1, <2>2, <2>3 DEF IInv, ArenaInv, SearchInv
  <2> QED
    BY <2>1, <2>3, <2>5, <2>6 DEF IInv
<1>8. CASE NotFound
  <2>1. /\ UNCHANGED <<arena_start, head, arena_size, hdr, live, temp>>
        /\ pc' = "idle" /\ temp = NULL
    BY <1>8 DEF NotFound, arena
  <2>2. SearchInv'
    BY <2>1 DEF SearchInv
  <2> QED
    BY <2>1, <2>2, QuietStep DEF IInv
<1>9. CASE FreeRejected
  <2>1. UNCHANGED <<arena_start, head, arena_size, hdr, live, pc, temp>> /\ pc = "idle"
    BY <1>9 DEF FreeRejected, Call, arena
  <2>2. SearchInv'
    BY <2>1 DEF IInv, SearchInv, Headers
  <2> QED
    BY <2>1, <2>2, QuietStep DEF IInv
<1>10. ASSUME NEW ptr \in DOMAIN live, MyFree(ptr) PROVE IInv'
  <2>1. PICK h \in Used(hdr) : ptr = DataOf(h)
    BY DEF IInv, LiveInv, Used, Headers
  <2>2. h = ptr - HDR /\ h \in Headers
    BY <1>0, <2>1, ChunkFacts, HdrAssumption DEF DataOf, Used, Headers
  <2>3. /\ hdr' = MergePrev(MergeNext(Freed(hdr, h), h), h)
        /\ live' = [q \in DOMAIN live \ {ptr} |-> live[q]]
        /\ UNCHANGED <<arena_start, arena_size, head, pc, temp>> /\ pc = "idle"
    BY <1>10, <2>2 DEF MyFree, Call, arena
  <2>4. /\ Chunks(hdr', arena_size) /\ Merged(hdr') /\ Headers' # {}
        /\ Used(hdr') = Used(hdr) \ {h}
        /\ \A x \in Used(hdr') : hdr'[x].size = hdr[x].size
    BY <1>0, <2>3, FreeFacts DEF Headers
  <2>5. LiveInv'
    <3>1. DOMAIN live = {DataOf(x) : x \in Used(hdr)} /\ live \in [DOMAIN live -> Nat \ {0}]
          /\ \A x \in Used(hdr) : hdr[x].size >= live[DataOf(x)]
      BY DEF IInv, LiveInv, Used, Headers
    <3>2. \A x \in Used(hdr) : DataOf(x) = DataOf(h) => x = h
      <4>1. h \in Nat /\ \A x \in Used(hdr) : x \in Nat
        BY <1>0, ChunkFacts DEF Used
      <4> QED
        BY <4>1, HdrAssumption DEF DataOf
    <3>3. DOMAIN live' = DOMAIN live \ {ptr}
      BY <2>3
    <3>4. DOMAIN live' = {DataOf(x) : x \in Used(hdr')}
      BY <2>1, <2>4, <3>1, <3>2, <3>3
    <3>5. live' \in [DOMAIN live' -> Nat \ {0}]
      BY <2>3, <3>1, <3>3
    <3>6. \A x \in Used(hdr') : hdr'[x].size >= live'[DataOf(x)]
      BY <2>3, <2>4, <3>1, <3>3, <3>4
    <3> QED
      BY <3>4, <3>5, <3>6 DEF LiveInv, Used, Headers
  <2>6. ArenaInv'
    BY <2>2, <2>3, <2>4 DEF IInv, ArenaInv
  <2>7. SearchInv'
    BY <2>3 DEF IInv, SearchInv
  <2> QED
    BY <2>3, <2>4, <2>5, <2>6, <2>7 DEF IInv
<1>11. CASE UNCHANGED vars
  <2>1. UNCHANGED <<arena_start, head, arena_size, hdr, live, pc, temp, call>>
    BY <1>11 DEF vars, arena
  <2>2. SearchInv'
    BY <2>1 DEF IInv, SearchInv, Headers
  <2> QED
    BY <2>1, <2>2, QuietStep DEF IInv
<1> QED
  BY <1>1, <1>2, <1>3, <1>4, <1>5, <1>6, <1>7, <1>8, <1>9, <1>10, <1>11 DEF Next

-----------------------------------------------------------------------------
(* The theorems. *)

LEMMA Inductive == Spec => []IInv
<1>1. IInv /\ [Next]_vars => IInv'
  BY IInvStep
<1> QED
  BY InitIInv, <1>1, PTL DEF Spec

\* Every global and every header keeps its type; no link leaves the list.
THEOREM TypeCorrect == Spec => []TypeOK
<1>1. IInv => TypeOK
  <2> SUFFICES ASSUME IInv PROVE TypeOK
    OBVIOUS
  <2>1. /\ Headers \subseteq Nat
        /\ hdr \in [Headers -> [size : Nat, is_free : BOOLEAN, fwd : Headers \cup {NULL},
                                bwd : Headers \cup {NULL}]]
    BY DEF IInv, Chunks, Shape, Headers
  <2>2. head \in Headers \cup {NULL}
    BY DEF IInv, ArenaInv, Chunks, Linked, Headers
  <2>3. DOMAIN live \subseteq Nat /\ live \in [DOMAIN live -> Nat \ {0}]
    BY <2>1, HdrAssumption DEF IInv, LiveInv, DataOf
  <2> QED
    BY <2>1, <2>2, <2>3 DEF IInv, ArenaInv, SearchInv, TypeOK
<1> QED
  BY Inductive, <1>1, PTL

\* No byte of the arena is lost or in two chunks, after any order of calls.
THEOREM ArenaTiled == Spec => []Tiled
<1>1. IInv => Tiled
  BY DEF IInv, ArenaInv, Chunks, Linked, Tiled, Headers
<1> QED
  BY Inductive, <1>1, PTL

\* Two free chunks are never neighbours.
THEOREM AlwaysCoalesced == Spec => []Coalesced
<1>1. IInv => Coalesced
  BY DEF IInv, Merged, Coalesced, Headers
<1> QED
  BY Inductive, <1>1, PTL

\* The chunks in use are the blocks of the client, each large enough.
THEOREM BlocksLive == Spec => []LiveBlocks
<1>1. IInv => LiveBlocks
  <2> SUFFICES ASSUME IInv PROVE LiveBlocks
    OBVIOUS
  <2>1. \A h \in Headers : DataOf(h) - HDR = h
    BY HdrAssumption DEF IInv, Chunks, Shape, Headers, DataOf
  <2> QED
    BY <2>1 DEF IInv, LiveInv, LiveBlocks
<1> QED
  BY Inductive, <1>1, PTL

-----------------------------------------------------------------------------
(* The refinement. *)

LEMMA Largest ==
  ASSUME NEW T, T \subseteq Nat, T # {}, NEW a \in Nat, \A x \in T : x <= a
  PROVE  \E x \in T : \A y \in T : y <= x
<1> DEFINE Less == OpToRel(<, Nat)
           S == {a - x : x \in T}
<1>1. S # {} /\ \A y \in S : y \in Nat
  OBVIOUS
<1>2. S \subseteq Nat
  BY <1>1
<1>3. PICK m \in S : \A y \in S : ~(<<y, m>> \in Less)
  <2> HIDE DEF S
  <2>1. IsWellFoundedOn(Less, Nat)
    BY NatLessThanWellFounded
  <2> HIDE DEF Less
  <2> QED
    BY <1>1, <1>2, <2>1, WFMin
<1>4. \A y \in S : ~(y < m)
  BY <1>2, <1>3 DEF OpToRel
<1>5. PICK x \in T : m = a - x
  OBVIOUS
<1> QED
  BY <1>4, <1>5

\* Every byte of a mapped arena is in a chunk.
LEMMA InSomeChunk ==
  ASSUME NEW H, NEW size \in Nat, Chunks(H, size), DOMAIN H # {}, NEW a \in Nat, a < size
  PROVE  \E h \in DOMAIN H : h <= a /\ a < EndOf(H, h)
<1> DEFINE T == {h \in DOMAIN H : h <= a}
<1>1. T \subseteq Nat /\ 0 \in T /\ \A x \in T : x <= a
  BY DEF Chunks, Shape, Linked
<1>2. T # {}
  BY <1>1
<1>3. PICK h \in T : \A y \in T : y <= h
  <2> HIDE DEF T
  <2> QED
    BY <1>1, <1>2, Largest
<1>4. SUFFICES ASSUME EndOf(H, h) <= a PROVE FALSE
  BY <1>3, ChunkFacts
<1>5. H[h].fwd # NULL
  BY <1>4, ChunkFacts
<1>6. H[h].fwd \in T /\ h < H[h].fwd /\ h \in Nat /\ H[h].fwd \in Nat
  BY <1>4, <1>5, ChunkFacts
<1> QED
  BY <1>3, <1>6

Blocks == [p \in DOMAIN live |-> hdr[p - HDR].size]

\* A chunk in use is a block of the contract, header and all.
LEMMA BlockFacts ==
  ASSUME IInv
  PROVE  /\ DOMAIN Blocks = {DataOf(h) : h \in Used(hdr)}
         /\ \A h \in Used(hdr) : /\ h \in Nat /\ DataOf(h) - HDR = h
                                 /\ Blocks[DataOf(h)] = hdr[h].size
                                 /\ DataOf(h) + Blocks[DataOf(h)] = EndOf(hdr, h)
<1>1. DOMAIN live = {DataOf(h) : h \in Used(hdr)}
  BY DEF IInv, LiveInv, Used, Headers
<1>2. \A h \in Used(hdr) : h \in Nat /\ DataOf(h) - HDR = h
  BY HdrAssumption DEF IInv, Chunks, Shape, Used, DataOf
<1> QED
  BY <1>1, <1>2 DEF Blocks, EndOf

\* First fit refuses only what fits nowhere: a free chunk that is too small has
\* blocks on both sides, since free neighbours are merged.
LEMMA RefusalJustified ==
  ASSUME IInv, pc = "search", temp = NULL, NEW a \in 0..(arena_size - HDR - call[2])
  PROVE  \E q \in DOMAIN Blocks : ~(a + HDR + call[2] <= q - HDR) /\ ~(q + Blocks[q] <= a)
<1> DEFINE n == call[2]
<1>1. n \in Nat \ {0} /\ \A h \in Headers : ~Fits(hdr, h, n)
  BY DEF IInv, SearchInv
<1> HIDE DEF n
<1>2. /\ arena_size \in Nat /\ a \in Nat /\ a + HDR + n <= arena_size /\ a < arena_size
      /\ HDR \in Nat \ {0}
  BY <1>1, HdrAssumption DEF IInv, ArenaInv, n
<1>3. Chunks(hdr, arena_size) /\ Merged(hdr)
  BY DEF IInv
<1>4. Headers # {}
  BY <1>2 DEF IInv, ArenaInv
<1>5. PICK h \in Headers : h <= a /\ a < EndOf(hdr, h)
  BY <1>2, <1>3, <1>4, InSomeChunk DEF Headers
<1>6. h \in Nat /\ EndOf(hdr, h) \in Nat /\ EndOf(hdr, h) = h + HDR + hdr[h].size
      /\ hdr[h].size \in Nat
  BY <1>2, <1>3, ChunkFacts DEF Headers
<1>7. CASE ~hdr[h].is_free
  <2>1. h \in Used(hdr)
    BY <1>7 DEF Used, Headers
  <2>2. DataOf(h) \in DOMAIN Blocks /\ DataOf(h) - HDR = h
        /\ DataOf(h) + Blocks[DataOf(h)] = EndOf(hdr, h)
    BY <2>1, BlockFacts
  <2>3. ~(a + HDR + n <= h) /\ ~(EndOf(hdr, h) <= a)
    BY <1>1, <1>2, <1>5, <1>6
  <2> QED
    BY <2>2, <2>3 DEF n
<1>8. CASE hdr[h].is_free
  <2>1. hdr[h].size < n
    BY <1>1, <1>6, <1>8 DEF Fits
  <2>2. EndOf(hdr, h) < a + HDR + n
    BY <1>1, <1>2, <1>5, <1>6, <2>1
  <2>3. hdr[h].fwd # NULL
    BY <1>2, <1>3, <1>6, <2>2, ChunkFacts, <1>1 DEF Headers
  <2> DEFINE g == hdr[h].fwd
  <2>4. g = EndOf(hdr, h) /\ g \in Used(hdr)
    BY <1>2, <1>3, <1>8, <2>3, ChunkFacts DEF Merged, Used, Headers
  <2> HIDE DEF g
  <2>5. g < EndOf(hdr, g) /\ EndOf(hdr, g) \in Nat
    BY <1>2, <1>3, <2>4, ChunkFacts DEF Used
  <2>6. DataOf(g) \in DOMAIN Blocks /\ DataOf(g) - HDR = g
        /\ DataOf(g) + Blocks[DataOf(g)] = EndOf(hdr, g)
    BY <2>4, BlockFacts
  <2>7. ~(a + HDR + n <= g) /\ ~(EndOf(hdr, g) <= a)
    BY <1>1, <1>2, <1>5, <1>6, <2>2, <2>4, <2>5
  <2> QED
    BY <2>6, <2>7 DEF n
<1> QED
  BY <1>7, <1>8

LEMMA RefineInit == Init => HS!Init
<1> SUFFICES ASSUME Init PROVE HS!Init
  OBVIOUS
<1>1. [p \in DOMAIN live |-> hdr[p - HDR].size] = <<>>
  BY DEF Init
<1> QED
  BY <1>1 DEF Init, HS!Init

\* What Found gives the client: a block that touches no other.
LEMMA GrantStep ==
  ASSUME IInv, Found
  PROVE  \E p, cap \in 0..arena_size : HS!Grant(p, cap)
<1> DEFINE h == temp
           n == call[2]
<1>1. /\ pc = "search" /\ h # NULL /\ Fits(hdr, h, n)
      /\ hdr' = Taken(Carve(hdr, h, n), h)
      /\ live' = [q \in DOMAIN live \cup {DataOf(h)} |-> IF q = DataOf(h) THEN n ELSE live[q]]
      /\ UNCHANGED <<arena_size, call>> /\ pc' = "idle"
  BY DEF Found, arena, Taken
<1>2. /\ h \in Headers /\ n \in Nat \ {0} /\ arena_size \in Nat
      /\ Chunks(hdr, arena_size) /\ Merged(hdr)
  BY <1>1 DEF IInv, SearchInv, ArenaInv
<1> HIDE DEF h, n
<1>3. /\ Chunks(hdr', arena_size) /\ h \in DOMAIN hdr'
      /\ Used(hdr') = Used(hdr) \cup {h}
      /\ \A x \in Used(hdr) : hdr'[x].size = hdr[x].size
      /\ hdr'[h].size >= n /\ hdr'[h].size <= n + HDR
  BY <1>1, <1>2, CarveFacts DEF Headers
<1> DEFINE p == DataOf(h)
           cap == hdr'[h].size
<1>4. /\ p - HDR = h /\ p + cap = EndOf(hdr', h) /\ h \in Nat /\ cap \in Nat /\ HDR \in Nat
      /\ EndOf(hdr', h) <= arena_size /\ EndOf(hdr', h) \in Nat /\ p = h + HDR
  BY <1>2, <1>3, ChunkFacts, HdrAssumption DEF DataOf, EndOf
<1>5. p \in 0..arena_size /\ cap \in 0..arena_size
  BY <1>2, <1>4
<1>6. \A q \in DOMAIN Blocks : p + cap <= q - HDR \/ q + Blocks[q] <= p - HDR
  <2> SUFFICES ASSUME NEW g \in Used(hdr)
               PROVE  EndOf(hdr', h) <= g \/ EndOf(hdr, g) <= h
    BY <1>4, BlockFacts
  <2>1. g # h /\ g \in Headers /\ g \in Nat
    BY <1>1, <1>2, ChunkFacts DEF Fits, Used, Headers
  <2>2. g < h => EndOf(hdr, g) <= h
    BY <1>2, <2>1 DEF Chunks, Apart, Headers
  <2>3. g \in DOMAIN hdr' /\ (h < g => EndOf(hdr', h) <= g)
    BY <1>3 DEF Chunks, Apart, Used
  <2> QED
    BY <1>4, <2>1, <2>2, <2>3
<1>7. Blocks' = [q \in DOMAIN Blocks \cup {p} |-> IF q = p THEN cap ELSE Blocks[q]]
  <2>1. DOMAIN live' = DOMAIN Blocks \cup {p}
    BY <1>1 DEF Blocks
  <2>2. \A q \in DOMAIN Blocks : q # p => hdr'[q - HDR].size = Blocks[q]
    BY <1>3, BlockFacts
  <2>3. hdr'[p - HDR].size = cap
    BY <1>4
  <2> HIDE DEF p, cap
  <2>4. Blocks' = [q \in DOMAIN live' |-> hdr'[q - HDR].size]
    BY DEF Blocks
  <2> QED
    BY <2>1, <2>2, <2>3, <2>4
<1>8. n <= cap /\ cap <= n + HDR /\ p - HDR >= 0 /\ p + cap <= arena_size
  BY <1>2, <1>3, <1>4
<1> HIDE DEF p, cap
<1>9. PICK ptr \in 0..arena_size, room \in 0..arena_size : ptr = p /\ room = cap
  BY <1>5
<1>10. HS!Grant(ptr, room)
  <2>1. HS!Vacant(ptr - HDR, ptr + room)
    BY <1>6, <1>9 DEF HS!Vacant, Blocks
  <2> QED
    BY <1>1, <1>7, <1>8, <1>9, <2>1 DEF HS!Grant, Blocks, n
<1> QED
  BY <1>10

LEMMA RefineStep == IInv /\ [Next]_vars => [HS!Next]_(HS!vars)
<1> SUFFICES ASSUME IInv, [Next]_vars PROVE [HS!Next]_(HS!vars)
  OBVIOUS
<1>0. UNCHANGED <<live, hdr>> => Blocks' = Blocks
  BY DEF Blocks
<1>1. ASSUME NEW size \in INIT_SIZES, InitRejected(size) \/ MmapFails(size) PROVE HS!Next
  <2>1. UNCHANGED <<arena_size, hdr, live, pc>> /\ pc = "idle" /\ call' = <<"myinit">>
    BY <1>1 DEF InitRejected, MmapFails, Call, Fail, Return, arena
  <2>2. HS!Reject(<<"myinit">>)
    BY <1>0, <2>1 DEF HS!Reject, Blocks
  <2> QED
    BY <2>2 DEF HS!Next
<1>2. ASSUME NEW size \in INIT_SIZES, MyInit(size) PROVE HS!Next
  <2>1. /\ arena_size' = RoundUp(size) /\ DOMAIN live = {} /\ arena_size = 0
        /\ UNCHANGED <<live, pc>> /\ pc = "idle" /\ call' = <<"myinit">> /\ size # 0
    BY <1>2 DEF MyInit, Call, Return, BadInitSize, IInv, ArenaInv, LiveInv
  <2>2. RoundUp(size) \in Nat \ {0}
    BY <2>1, RoundUpBound, ArgumentsAssumption, PageSizeAssumption, HdrAssumption
  <2>3. Blocks' = Blocks
    BY <2>1 DEF Blocks
  <2>4. HS!Open
    BY <2>1, <2>2, <2>3 DEF HS!Open, Blocks
  <2> QED
    BY <2>4 DEF HS!Next
<1>3. CASE MyDestroy
  <2>1. /\ arena_size' = 0 /\ DOMAIN live' = {}
        /\ UNCHANGED pc /\ pc = "idle" /\ call' = <<"mydestroy">>
    <3>1. arena_start = "NULL" => arena_size = 0 /\ DOMAIN live = {}
      BY DEF IInv, ArenaInv, LiveInv
    <3> QED
      BY <1>3, <3>1 DEF MyDestroy, Call, Fail, Return, arena
  <2>2. Blocks' = <<>>
    BY <2>1 DEF Blocks
  <2>3. HS!Close
    BY <2>1, <2>2 DEF HS!Close, Blocks
  <2> QED
    BY <2>3 DEF HS!Next
<1>4. ASSUME NEW size \in REQUESTS, AllocRejected(size) PROVE HS!Next
  <2>1. /\ UNCHANGED <<arena_size, hdr, live, pc>> /\ pc = "idle"
        /\ call' = <<"myalloc", size>>
        /\ size = 0 \/ arena_size = 0
    BY <1>4 DEF AllocRejected, Call, Fail, Return, arena, IInv, ArenaInv
  <2>2. HS!Reject(<<"myalloc", size>>)
    BY <1>0, <2>1 DEF HS!Reject, Blocks
  <2> QED
    BY <2>1, <2>2 DEF HS!Next
<1>5. ASSUME NEW size \in REQUESTS, MyAlloc(size) PROVE HS!Next
  <2>1. /\ UNCHANGED <<arena_size, hdr, live>> /\ pc = "idle" /\ pc' = "search"
        /\ call' = <<"myalloc", size>>
    BY <1>5 DEF MyAlloc, Call, arena
  <2>2. HS!Ask(size)
    BY <1>0, <2>1 DEF HS!Ask, Blocks
  <2> QED
    BY <2>2 DEF HS!Next
<1>6. CASE NextChunk
  <2>1. UNCHANGED <<arena_size, hdr, live, pc, call>>
    BY <1>6 DEF NextChunk, arena
  <2> QED
    BY <1>0, <2>1 DEF HS!vars, Blocks
<1>7. CASE Found
  <2>1. \E p, cap \in 0..arena_size : HS!Grant(p, cap)
    BY <1>7, GrantStep
  <2> QED
    BY <2>1 DEF HS!Next
<1>8. CASE NotFound
  <2>1. UNCHANGED <<arena_size, hdr, live, call>> /\ pc = "search" /\ temp = NULL /\ pc' = "idle"
    BY <1>8 DEF NotFound, arena
  <2>2. \A a \in 0..(arena_size - HDR - call[2]) : ~HS!Vacant(a, a + HDR + call[2])
    BY <2>1, RefusalJustified DEF HS!Vacant, Blocks
  <2>3. HS!Refuse
    BY <1>0, <2>1, <2>2 DEF HS!Refuse, Blocks
  <2> QED
    BY <2>3 DEF HS!Next
<1>9. CASE FreeRejected
  <2>1. /\ UNCHANGED <<arena_size, hdr, live, pc>> /\ pc = "idle"
        /\ call' = <<"myfree", -1>>
    BY <1>9 DEF FreeRejected, Call, arena, NULL
  <2>2. HS!Reject(<<"myfree", -1>>)
    BY <1>0, <2>1 DEF HS!Reject, Blocks
  <2> QED
    BY <2>2 DEF HS!Next
<1>10. ASSUME NEW ptr \in DOMAIN live, MyFree(ptr) PROVE HS!Next
  <2>1. PICK h \in Used(hdr) : ptr = DataOf(h)
    BY DEF IInv, LiveInv, Used, Headers
  <2>2. h = ptr - HDR
    BY <2>1, BlockFacts
  <2>3. /\ hdr' = MergePrev(MergeNext(Freed(hdr, h), h), h)
        /\ live' = [q \in DOMAIN live \ {ptr} |-> live[q]]
        /\ UNCHANGED <<arena_size, pc>> /\ pc = "idle" /\ call' = <<"myfree", ptr>>
    BY <1>10, <2>2 DEF MyFree, Call, arena
  <2>4. Used(hdr') = Used(hdr) \ {h} /\ \A x \in Used(hdr') : hdr'[x].size = hdr[x].size
    BY <2>3, FreeFacts DEF IInv, ArenaInv
  <2>5. DOMAIN live' = DOMAIN Blocks \ {ptr}
    BY <2>3 DEF Blocks
  <2>6. \A q \in DOMAIN live' : hdr'[q - HDR].size = Blocks[q]
    BY <2>1, <2>4, <2>5, BlockFacts
  <2>7. Blocks' = [q \in DOMAIN Blocks \ {ptr} |-> Blocks[q]]
    <3>1. Blocks' = [q \in DOMAIN live' |-> hdr'[q - HDR].size]
      BY DEF Blocks
    <3> QED
      BY <2>5, <2>6, <3>1
  <2>8. HS!Release(ptr)
    BY <2>3, <2>7 DEF HS!Release, Blocks
  <2> QED
    BY <2>8 DEF HS!Next
<1>11. CASE UNCHANGED vars
  <2>1. UNCHANGED <<arena_size, hdr, live, pc, call>>
    BY <1>11 DEF vars, arena
  <2> QED
    BY <1>0, <2>1 DEF HS!vars, Blocks
<1> QED
  BY <1>1, <1>2, <1>3, <1>4, <1>5, <1>6, <1>7, <1>8, <1>9, <1>10, <1>11 DEF Next

\* The allocator keeps its contract for arenas, headers and requests of any
\* size: blocks are disjoint, and a request is refused only if no gap holds it.
THEOREM ContractKept == Spec => Contract
<1>1. IInv /\ [Next]_vars => [HS!Next]_(HS!vars)
  BY RefineStep
<1> QED
  BY RefineInit, Inductive, <1>1, PTL DEF Spec, Contract, HS!Spec

=============================================================================
