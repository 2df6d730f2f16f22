-------------------------- MODULE CsvReaderProofs --------------------------
(***************************************************************************)
(* The buffer of read_next_line is large enough for every line: for any    *)
(* file and any initial capacity no number is written outside it, and the  *)
(* list never points outside itself.  What is written are the rows of the  *)
(* file, in order.                                                         *)
(***************************************************************************)
EXTENDS CsvReader, SequenceTheorems, WellFoundedInduction, TLAPS

Token == Nat \union {Comma, Newline}
Node == [row : Seq(Int), next : Nat]
Filling == {"first", "more", "append"}

\* The file is read up to its end, and not beyond before the flag is set.
ReadInv ==
  /\ fin \in Seq(Token)
  /\ pos \in 1..(Len(fin) + 2) /\ feof \in BOOLEAN
  /\ pc \in {"first", "more"} \/ (pc \in {"start", "read", "append"} /\ ~feof) => pos <= Len(fin) + 1

\* The buffer has room for one more number than it holds.
BufferInv ==
  pc \in Filling =>
    /\ capacity \in Nat /\ count \in Nat /\ count < capacity
    /\ arr \in [0..(capacity - 1) -> Int]
    /\ \A k \in 1..count : arr[k] # Unset
    /\ pc = "first" => count = 0 /\ 1 < capacity
    /\ pc = "append" => arr[0] = count

\* The records point at records of the list.
ListInv ==
  /\ node \in Seq(Node)
  /\ \A k \in 1..Len(node) : node[k].next \in 0..Len(node)
  /\ head \in 0..Len(node) /\ curr \in 0..Len(node)

IInv ==
  /\ pc \in {"start", "read", "first", "more", "append", "close", "write", "exit"}
  /\ ReadInv /\ BufferInv /\ ListInv

-----------------------------------------------------------------------------
LEMMA LeastOf ==
  ASSUME NEW T \in SUBSET Nat, T # {}
  PROVE  \E x \in T : \A y \in T : x <= y
<1> DEFINE Less == OpToRel(<, Nat)
<1>1. IsWellFoundedOn(Less, Nat)
  BY NatLessThanWellFounded
<1>2. PICK x \in T : \A y \in T : ~(<<y, x>> \in Less)
  <2> HIDE DEF Less
  <2> QED
    BY <1>1, WFMin
<1>3. \A y \in T : ~(y < x)
  BY <1>2 DEF OpToRel
<1> QED
  BY <1>3

\* What fscanf skips before a number.
LEMMA SkippedFacts ==
  ASSUME fin \in Seq(Token), NEW p \in 1..(Len(fin) + 1)
  PROVE  /\ Skipped(p) \in p..(Len(fin) + 1)
         /\ Skipped(p) <= Len(fin) => fin[Skipped(p)] # Newline
         /\ \A r \in p..(Skipped(p) - 1) : fin[r] = Newline
         /\ IsInt(Skipped(p)) => Skipped(p) <= Len(fin) /\ fin[Skipped(p)] \in Nat
<1>1. Len(fin) \in Nat
  OBVIOUS
<1> DEFINE T == {q \in p..(Len(fin) + 1) : q <= Len(fin) => fin[q] # Newline}
<1>2. T \in SUBSET Nat /\ Len(fin) + 1 \in T
  BY <1>1
<1>3. PICK q \in T : \A r \in T : q <= r
  BY <1>2, LeastOf
<1>4. \A r \in p..(q - 1) : fin[r] = Newline
  <2> SUFFICES ASSUME NEW r \in p..(q - 1), fin[r] # Newline PROVE FALSE
    OBVIOUS
  <2>1. r \in T
    BY <1>1, <1>3
  <2> QED
    BY <1>1, <1>3, <2>1
<1>5. /\ Skipped(p) \in p..(Len(fin) + 1)
      /\ Skipped(p) <= Len(fin) => fin[Skipped(p)] # Newline
      /\ \A r \in p..(Skipped(p) - 1) : fin[r] = Newline
  BY <1>3, <1>4 DEF Skipped
<1>6. ASSUME IsInt(Skipped(p)) PROVE Skipped(p) <= Len(fin) /\ fin[Skipped(p)] \in Nat
  <2>1. PICK s \in 1..Len(fin) : s = Skipped(p)
    BY <1>1, <1>5, <1>6 DEF IsInt
  <2>2. fin[s] \in Token
    BY <2>1
  <2> QED
    BY <1>6, <2>1, <2>2 DEF IsInt, Token
<1> QED
  BY <1>5, <1>6

LEMMA LineEndFacts ==
  ASSUME fin \in Seq(Token), pos \in 1..(Len(fin) + 1)
  PROVE  /\ LineEnd \in (pos + 1)..(Len(fin) + 2)
         /\ LineEnd - 1 <= Len(fin) => fin[LineEnd - 1] = Newline
         /\ \A r \in pos..(LineEnd - 2) : fin[r] # Newline
<1>1. Len(fin) \in Nat
  OBVIOUS
<1> DEFINE T == {q \in (pos + 1)..(Len(fin) + 2) : q - 1 <= Len(fin) => fin[q - 1] = Newline}
<1>2. T \in SUBSET Nat /\ Len(fin) + 2 \in T
  BY <1>1
<1>3. PICK q \in T : \A r \in T : q <= r
  BY <1>2, LeastOf
<1>4. \A r \in pos..(q - 2) : fin[r] # Newline
  <2> SUFFICES ASSUME NEW r \in pos..(q - 2), fin[r] = Newline PROVE FALSE
    OBVIOUS
  <2>1. r + 1 \in T /\ r + 1 < q
    BY <1>1, <1>3
  <2> QED
    BY <1>1, <1>3, <2>1
<1> QED
  BY <1>3, <1>4 DEF LineEnd

-----------------------------------------------------------------------------
LEMMA InitInv == Init => IInv
<1> SUFFICES ASSUME Init PROVE IInv
  OBVIOUS
<1>1. fin \in Seq(Token)
  BY FilesAssumption DEF Init, WellFormed, Token
<1>2. ReadInv
  <2>1. Len(fin) \in Nat
    BY <1>1
  <2>2. pos = 1
    BY DEF Init
  <2>3. feof \in BOOLEAN
    BY DEF Init
  <2> QED
    BY <1>1, <2>1, <2>2, <2>3 DEF ReadInv
<1>3. BufferInv /\ ListInv
  BY DEF Init, BufferInv, Filling, ListInv, NULL
<1> QED
  BY <1>2, <1>3 DEF Init, IInv

\* The file is opened, or the program gives up before it reads.
LEMMA StartInv == ASSUME IInv, Usage \/ OpenInput \/ OpenInputFails PROVE IInv'
<1>1. /\ pc = "start" /\ pc' \in {"read", "exit"}
      /\ UNCHANGED <<fin, pos, feof, node, head, curr>>
  BY DEF Usage, OpenInput, OpenInputFails, reading, list
<1> QED
  BY <1>1 DEF IInv, ReadInv, BufferInv, ListInv, Filling

\* The buffer is allocated, and the first number of a line is read.
LEMMA MallocInv == ASSUME IInv, Malloc PROVE IInv'
<1>1. /\ pc = "read" /\ ~feof /\ pc' = "first" /\ capacity' = CAPACITY /\ count' = 0
      /\ arr' = Block(CAPACITY) /\ UNCHANGED <<fin, pos, feof, node, head, curr>>
  BY DEF Malloc, reading, list
<1>2. CAPACITY \in Nat /\ 1 < CAPACITY
  BY CapacityAssumption
<1>3. Block(CAPACITY) \in [0..(CAPACITY - 1) -> Int]
  BY DEF Block, Unset
<1>4. BufferInv'
  BY <1>1, <1>2, <1>3 DEF BufferInv
<1> QED
  BY <1>1, <1>4 DEF IInv, ReadInv, ListInv

LEMMA FirstNumberInv == ASSUME IInv, FirstNumber PROVE IInv'
<1>1. PICK s : s = Skipped(pos)
  OBVIOUS
<1>2. /\ pc = "first" /\ IsInt(s) /\ pos' = s + 1 /\ feof' = (feof \/ s + 1 > Len(fin))
      /\ count' = count + 1 /\ arr' = [arr EXCEPT ![count + 1] = fin[s]]
      /\ pc' = "more" /\ UNCHANGED <<fin, capacity, node, head, curr>>
  BY <1>1 DEF FirstNumber, Read, list
<1>3. fin \in Seq(Token) /\ pos \in 1..(Len(fin) + 1) /\ Len(fin) \in Nat
  BY <1>2 DEF IInv, ReadInv
<1>4. s \in 1..Len(fin) /\ fin[s] \in Nat
  BY <1>1, <1>2, <1>3, SkippedFacts
<1>5. /\ capacity \in Nat /\ count = 0 /\ 1 < capacity /\ arr \in [0..(capacity - 1) -> Int]
  BY <1>2 DEF IInv, BufferInv, Filling
<1>6. BufferInv'
  <2>1. count' = 1 /\ arr' = [arr EXCEPT ![1] = fin[s]]
    BY <1>2, <1>5
  <2>2. arr' \in [0..(capacity - 1) -> Int] /\ arr'[1] # Unset
    BY <1>4, <1>5, <2>1 DEF Unset
  <2> QED
    BY <1>2, <1>5, <2>1, <2>2 DEF BufferInv
<1>7. ReadInv'
  BY <1>2, <1>3, <1>4 DEF ReadInv
<1> QED
  BY <1>2, <1>6, <1>7 DEF IInv, ListInv

\* A number more: the buffer is doubled before it would be full.
LEMMA NextNumberInv == ASSUME IInv, NextNumber PROVE IInv'
<1>1. PICK s : s = Skipped(pos + 1)
  OBVIOUS
<1>2. PICK cap : cap = IF BufferFull THEN capacity * 2 ELSE capacity
  OBVIOUS
<1>3. /\ pc = "more" /\ pos <= Len(fin) /\ IsInt(s)
      /\ pos' = s + 1 /\ feof' = (feof \/ s + 1 > Len(fin))
      /\ count' = count + 1 /\ capacity' = cap
      /\ arr' = [Resized(cap) EXCEPT ![count + 1] = fin[s]]
      /\ pc' = "more" /\ UNCHANGED <<fin, node, head, curr>>
  BY <1>1, <1>2 DEF NextNumber, More, Read, list
<1>4. fin \in Seq(Token) /\ Len(fin) \in Nat /\ pos + 1 \in 1..(Len(fin) + 1)
  BY <1>3 DEF IInv, ReadInv
<1>5. s \in 1..Len(fin) /\ fin[s] \in Nat
  BY <1>1, <1>3, <1>4, SkippedFacts
<1>6. /\ capacity \in Nat /\ count \in Nat /\ count < capacity
      /\ arr \in [0..(capacity - 1) -> Int] /\ \A k \in 1..count : arr[k] # Unset
  BY <1>3 DEF IInv, BufferInv, Filling
<1>7. cap \in Nat /\ capacity <= cap /\ count + 1 < cap
  BY <1>2, <1>6 DEF BufferFull
<1>8. PICK old : old = Resized(cap)
  OBVIOUS
<1>9. old \in [0..(cap - 1) -> Int] /\ \A k \in 1..count : old[k] = arr[k]
  BY <1>6, <1>7, <1>8 DEF Resized, Unset
<1>10. BufferInv'
  <2>1. arr' = [old EXCEPT ![count + 1] = fin[s]]
    BY <1>3, <1>8
  <2>0. count + 1 \in 0..(cap - 1) /\ fin[s] \in Int
    BY <1>5, <1>6, <1>7
  <2>2. arr' \in [0..(cap - 1) -> Int]
    BY <1>9, <2>0, <2>1
  <2>3. \A k \in 1..(count + 1) : arr'[k] # Unset
    <3> SUFFICES ASSUME NEW k \in 1..(count + 1) PROVE arr'[k] # Unset
      OBVIOUS
    <3>1. CASE k = count + 1
      BY <1>5, <1>6, <1>7, <1>9, <2>1, <3>1 DEF Unset
    <3>2. CASE k # count + 1
      BY <1>6, <1>7, <1>9, <2>1, <3>2
    <3> QED
      BY <3>1, <3>2
  <2> QED
    BY <1>3, <1>6, <1>7, <2>2, <2>3 DEF BufferInv
<1>11. ReadInv'
  BY <1>3, <1>4, <1>5 DEF ReadInv
<1> QED
  BY <1>3, <1>10, <1>11 DEF IInv, ListInv

LEMMA LastNumberInv == ASSUME IInv, LastNumber PROVE IInv'
<1>1. /\ pc = "more" /\ pos' = LineEnd /\ feof' = (feof \/ LineEnd > Len(fin) + 1)
      /\ arr' = [arr EXCEPT ![0] = count] /\ pc' = "append"
      /\ UNCHANGED <<fin, capacity, count, node, head, curr>>
  BY DEF LastNumber, list
<1>2. fin \in Seq(Token) /\ Len(fin) \in Nat /\ pos \in 1..(Len(fin) + 1)
  BY <1>1 DEF IInv, ReadInv
<1>3. ReadInv'
  <2>1. PICK end : end = LineEnd
    OBVIOUS
  <2>2. end \in (pos + 1)..(Len(fin) + 2)
    BY <1>2, <2>1, LineEndFacts
  <2>3. pos' = end /\ feof' \in BOOLEAN /\ (~feof' => end <= Len(fin) + 1)
    <3>1. feof \in BOOLEAN
      BY DEF IInv, ReadInv
    <3>2. pos' = end
      BY <1>1, <2>1
    <3>3. feof' = (feof \/ end > Len(fin) + 1)
      BY <1>1, <2>1
    <3>4. feof' \in BOOLEAN
      BY <3>1, <3>3, Zenon
    <3>5. ~feof' => ~(end > Len(fin) + 1)
      BY <3>3, Zenon
    <3>6. end \in Int /\ Len(fin) \in Int
      BY <1>2, <2>2
    <3> QED
      BY <3>2, <3>4, <3>5, <3>6
  <2> QED
    BY <1>1, <1>2, <2>2, <2>3 DEF ReadInv
<1>4. BufferInv'
  <2>1. /\ capacity \in Nat /\ count \in Nat /\ count < capacity
        /\ arr \in [0..(capacity - 1) -> Int] /\ \A k \in 1..count : arr[k] # Unset
    BY <1>1 DEF IInv, BufferInv, Filling
  <2>2. /\ arr' \in [0..(capacity - 1) -> Int] /\ arr'[0] = count
        /\ \A k \in 1..count : arr'[k] # Unset
    BY <1>1, <2>1
  <2> QED
    BY <1>1, <2>1, <2>2 DEF BufferInv
<1> QED
  BY <1>1, <1>3, <1>4 DEF IInv, ListInv

\* A file that ends, or memory that does: the loop of main is left.
LEMMA LeaveInv ==
  ASSUME IInv, NoMoreLines \/ MallocFails \/ NoNumber \/ ReallocFails PROVE IInv'
<1>1. pc' = "close" /\ UNCHANGED <<fin, node, head, curr>>
  BY DEF NoMoreLines, MallocFails, NoNumber, ReallocFails, Starves, list
<1>2. fin \in Seq(Token) /\ Len(fin) \in Nat
  BY DEF IInv, ReadInv
<1>3. pos' \in 1..(Len(fin) + 2) /\ feof' \in BOOLEAN
  <2>1. CASE NoMoreLines \/ MallocFails
    BY <2>1 DEF NoMoreLines, MallocFails, reading, IInv, ReadInv
  <2>2. CASE NoNumber
    <3>1. pos \in 1..(Len(fin) + 1)
      BY <1>2, <2>2 DEF NoNumber, IInv, ReadInv
    <3>2. pos' = Skipped(pos) /\ feof' = (feof \/ Skipped(pos) > Len(fin))
      BY <2>2 DEF NoNumber, Read
    <3> QED
      BY <1>2, <3>1, <3>2, SkippedFacts
  <2>3. CASE ReallocFails
    <3>1. pos + 1 \in 1..(Len(fin) + 1) /\ IsInt(Skipped(pos + 1))
      BY <1>2, <2>3 DEF ReallocFails, More, IInv, ReadInv
    <3>2. pos' = Skipped(pos + 1) + 1 /\ feof' = (feof \/ Skipped(pos + 1) + 1 > Len(fin))
      BY <2>3 DEF ReallocFails, Read
    <3> QED
      BY <1>2, <3>1, <3>2, SkippedFacts
  <2> QED
    BY <2>1, <2>2, <2>3
<1> QED
  BY <1>1, <1>2, <1>3 DEF IInv, ReadInv, BufferInv, ListInv, Filling

LEMMA AppendRecordInv == ASSUME IInv, AppendRecord PROVE IInv'
<1>1. PICK new : new = [row |-> Row, next |-> NULL]
  OBVIOUS
<1>2. /\ pc = "append" /\ pc' = "read" /\ node' = Append(Linked, new) /\ curr' = Len(node) + 1
      /\ head' = (IF head = NULL THEN curr' ELSE head) /\ UNCHANGED <<fin, pos, feof>>
  BY <1>1 DEF AppendRecord, reading
<1>3. /\ node \in Seq(Node) /\ Len(node) \in Nat
      /\ \A k \in 1..Len(node) : node[k].next \in 0..Len(node)
      /\ head \in 0..Len(node) /\ curr \in 0..Len(node)
  BY DEF IInv, ListInv
<1>4. new \in Node /\ new.next = 0
  <2>1. /\ capacity \in Nat /\ count \in Nat /\ count < capacity
        /\ arr \in [0..(capacity - 1) -> Int] /\ arr[0] = count
    BY <1>2 DEF IInv, BufferInv, Filling
  <2>2. Row \in [1..count -> Int]
    BY <2>1 DEF Row
  <2>3. Row \in Seq(Int)
    BY <2>1, <2>2
  <2> QED
    BY <1>1, <2>3 DEF Node, NULL
<1>5. PICK m \in Nat : m = Len(node)
  BY <1>3
<1>6. PICK old : old = Linked
  OBVIOUS
<1>7. old \in Seq(Node) /\ Len(old) = m /\ \A k \in 1..m : old[k].next \in 0..(m + 1)
  <2>1. CASE curr = NULL
    BY <1>3, <1>5, <1>6, <2>1 DEF Linked
  <2>2. CASE curr # NULL
    <3>1. curr \in 1..m
      BY <1>3, <1>5, <2>2 DEF NULL
    <3>2. PICK last : last = [node[curr] EXCEPT !.next = m + 1]
      OBVIOUS
    <3>3. node[curr] \in Node
      BY <1>3, <1>5, <3>1
    <3>4. last \in Node /\ last.next = m + 1
      BY <3>2, <3>3 DEF Node
    <3>5. old = [node EXCEPT ![curr] = last]
      BY <1>5, <1>6, <2>2, <3>2 DEF Linked
    <3>6. old \in Seq(Node) /\ Len(old) = m
      BY <1>3, <1>5, <3>1, <3>4, <3>5
    <3>7. \A k \in 1..m : old[k] = IF k = curr THEN last ELSE node[k]
      BY <1>3, <1>5, <3>1, <3>5
    <3> QED
      BY <1>3, <1>5, <3>4, <3>6, <3>7
  <2> QED
    BY <2>1, <2>2
<1>8. PICK g : g = node'
  OBVIOUS
<1>9. /\ g \in Seq(Node) /\ Len(g) = m + 1 /\ g[m + 1] = new
      /\ \A k \in 1..m : g[k] = old[k]
  <2>1. g = Append(old, new)
    BY <1>2, <1>6, <1>8
  <2> QED
    BY <1>4, <1>7, <2>1
<1>10. \A k \in 1..(m + 1) : g[k].next \in 0..(m + 1)
  <2>1. \A k \in 1..(m + 1) : k \in 1..m \/ k = m + 1
    OBVIOUS
  <2> QED
    BY <1>4, <1>7, <1>9, <2>1
<1>11. ListInv'
  <2>1. curr' = m + 1 /\ head' \in 0..(m + 1)
    BY <1>2, <1>3, <1>5 DEF NULL
  <2> QED
    BY <1>8, <1>9, <1>10, <2>1 DEF ListInv
<1>12. ReadInv' /\ BufferInv'
  <2>1. ~feof => pos <= Len(fin) + 1
    BY <1>2 DEF IInv, ReadInv
  <2> QED
    BY <1>2, <2>1 DEF IInv, ReadInv, BufferInv, Filling
<1> QED
  BY <1>2, <1>11, <1>12 DEF IInv

\* After the file has been read only the list is used.
LEMMA OutputInv ==
  ASSUME IInv, AppendFails \/ Open \/ OpenFails \/ Write \/ Return \/ ReturnLoses PROVE IInv'
<1>1. pc' \in {"write", "exit"} /\ UNCHANGED <<fin, pos, feof, node>>
  BY DEF AppendFails, Open, OpenFails, Write, Return, ReturnLoses, reading, list
<1>2. Len(node) \in Nat
  BY DEF IInv, ListInv
<1>3. head' \in 0..Len(node) /\ curr' \in 0..Len(node)
  <2>1. CASE Write
    BY <2>1 DEF Write, IInv, ListInv, NULL
  <2>2. CASE AppendFails \/ Open \/ OpenFails \/ Return \/ ReturnLoses
    BY <1>2, <2>2 DEF AppendFails, Open, OpenFails, Return, ReturnLoses, list, IInv, ListInv, NULL
  <2> QED
    BY <2>1, <2>2
<1> QED
  BY <1>1, <1>3 DEF IInv, ReadInv, BufferInv, ListInv, Filling

LEMMA NextInv == IInv /\ [Next]_vars => IInv'
<1> SUFFICES ASSUME IInv, [Next]_vars PROVE IInv'
  OBVIOUS
<1>1. CASE UNCHANGED vars
  BY <1>1 DEF vars, reading, buffers, list, IInv, ReadInv, BufferInv, ListInv
<1> QED
  BY <1>1, StartInv, MallocInv, FirstNumberInv, NextNumberInv, LastNumberInv, LeaveInv, AppendRecordInv,
     OutputInv DEF Next, Ended

\* read_next_line (parsecsv.c) never writes outside its buffer, and the list stays
\* within itself, whatever the file and whichever allocation fails.
THEOREM TypeCorrect == Spec => []TypeOK
<1>1. Init => IInv
  BY InitInv
<1>2. IInv /\ [Next]_vars => IInv'
  BY NextInv
<1>3. IInv => TypeOK
  BY DEF IInv, ReadInv, BufferInv, ListInv, Filling, TypeOK
<1> QED
  BY <1>1, <1>2, <1>3, PTL DEF Spec
-----------------------------------------------------------------------------
(* Counting down. *)

LEMMA CountDown ==
  ASSUME NEW lo \in Nat, NEW hi \in Nat, NEW T, hi \in T,
         \A i \in lo..hi : i < hi /\ i + 1 \in T => i \in T
  PROVE  \A i \in lo..hi : i \in T
<1> SUFFICES ASSUME NEW i \in lo..hi, i \notin T PROVE FALSE
  OBVIOUS
<1> DEFINE D == {d \in Nat : d <= hi - lo /\ hi - d \notin T}
<1>1. D \in SUBSET Nat /\ D # {}
  <2>1. hi - i \in Nat /\ hi - i <= hi - lo /\ hi - (hi - i) = i
    OBVIOUS
  <2>2. hi - i \in D
    BY <2>1
  <2> QED
    BY <2>2
<1>2. PICK d \in D : \A e \in D : d <= e
  <2> HIDE DEF D
  <2> QED
    BY <1>1, LeastOf
<1>3. d \in Nat /\ d <= hi - lo /\ hi - d \notin T /\ d # 0
  BY <1>2
<1>4. d - 1 \in Nat /\ d - 1 <= hi - lo /\ d - 1 \notin D
  BY <1>2, <1>3
<1>5. hi - (d - 1) \in T
  BY <1>4
<1>6. hi - d \in lo..hi /\ hi - d < hi /\ (hi - d) + 1 = hi - (d - 1)
  BY <1>3
<1> QED
  BY <1>3, <1>5, <1>6

\* A function on 1..n + 1 may be defined from its end: each value from the next.
FromEnd(f, n, S, base, H) ==
  /\ f \in [1..(n + 1) -> S]
  /\ \A i \in 1..(n + 1) : f[i] = IF i > n THEN base ELSE H[i][f[i + 1]]

LEMMA FromTheEnd ==
  ASSUME NEW n \in Nat, NEW S, NEW base \in S, NEW H \in [1..n -> [S -> S]]
  PROVE  \E f : FromEnd(f, n, S, base, H)
<1> DEFINE Good(k) == \E f \in [k..(n + 1) -> S] :
                        \A i \in k..(n + 1) : f[i] = IF i > n THEN base ELSE H[i][f[i + 1]]
           T == {k \in 1..(n + 1) : Good(k)}
<1>1. n + 1 \in T
  <2> DEFINE f == [i \in (n + 1)..(n + 1) |-> base]
  <2>1. f \in [(n + 1)..(n + 1) -> S] /\ \A i \in (n + 1)..(n + 1) : i > n /\ f[i] = base
    OBVIOUS
  <2>2. Good(n + 1)
    <3> HIDE DEF f
    <3> QED
      BY <2>1
  <2> QED
    BY <2>2
<1>2. ASSUME NEW k \in 1..n, k + 1 \in T PROVE k \in T
  <2>1. PICK f \in [(k + 1)..(n + 1) -> S] :
          \A i \in (k + 1)..(n + 1) : f[i] = IF i > n THEN base ELSE H[i][f[i + 1]]
    BY <1>2
  <2>2. PICK v \in S : v = H[k][f[k + 1]]
    <3>1. k + 1 \in (k + 1)..(n + 1)
      OBVIOUS
    <3>2. f[k + 1] \in S /\ H[k] \in [S -> S]
      BY <2>1, <3>1
    <3>3. H[k][f[k + 1]] \in S
      BY <3>2
    <3> QED
      BY ONLY <3>3, Zenon
  <2> DEFINE g == [i \in k..(n + 1) |-> IF i = k THEN v ELSE f[i]]
  <2>3. g \in [k..(n + 1) -> S] /\ g[k] = v /\ \A i \in (k + 1)..(n + 1) : g[i] = f[i]
    <3>1. \A i \in k..(n + 1) : i = k \/ i \in (k + 1)..(n + 1)
      OBVIOUS
    <3>2. \A i \in (k + 1)..(n + 1) : i \in k..(n + 1) /\ i # k
      OBVIOUS
    <3> QED
      BY <2>1, <2>2, <3>1, <3>2
  <2> HIDE DEF g
  <2>4. ASSUME NEW i \in k..(n + 1) PROVE g[i] = IF i > n THEN base ELSE H[i][g[i + 1]]
    <3>1. CASE i = k
      <4>1. k + 1 \in (k + 1)..(n + 1) /\ ~(k > n)
        OBVIOUS
      <4> QED
        BY <2>2, <2>3, <3>1, <4>1
    <3>2. CASE i # k
      <4>1. i \in (k + 1)..(n + 1) /\ (~(i > n) => i + 1 \in (k + 1)..(n + 1))
        BY <3>2
      <4> QED
        BY <2>1, <2>3, <4>1
    <3> QED
      BY <3>1, <3>2
  <2>5. Good(k)
    BY <2>3, <2>4
  <2>6. k \in 1..(n + 1)
    OBVIOUS
  <2> HIDE DEF Good
  <2> QED
    BY <2>5, <2>6
<1>3. 1 \in T
  <2> HIDE DEF T
  <2>3. n + 1 \in Nat /\ 1 \in Nat /\ \A k \in 1..(n + 1) : k < n + 1 => k \in 1..n
    OBVIOUS
  <2>1. \A k \in 1..(n + 1) : k < n + 1 /\ k + 1 \in T => k \in T
    BY <1>2, <2>3
  <2>2. \A i \in 1..(n + 1) : i \in T
    BY <1>1, <2>1, <2>3, CountDown
  <2> QED
    BY <2>2
<1>4. \E f \in [1..(n + 1) -> S] :
        \A i \in 1..(n + 1) : f[i] = IF i > n THEN base ELSE H[i][f[i + 1]]
  BY <1>3
<1> QED
  BY ONLY <1>4, Zenon DEF FromEnd

-----------------------------------------------------------------------------
(* The rows of the file. *)

Table == Seq(Seq(Int))

NumbersFrom(f, i) ==
  IF i > Len(fin) \/ fin[i] = Newline THEN <<>>
  ELSE (IF fin[i] = Comma THEN <<>> ELSE <<fin[i]>>) \o f[i + 1]

RowsFrom(f, i) ==
  IF i > Len(fin) THEN <<>>
  ELSE (IF BeginsLine(i) /\ Numbers[i] # <<>> THEN <<Numbers[i]>> ELSE <<>>) \o f[i + 1]

\* Every place has its numbers.
LEMMA NumbersUnfold ==
  ASSUME fin \in Seq(Token)
  PROVE  \A i \in 1..(Len(fin) + 1) : Numbers[i] = NumbersFrom(Numbers, i) /\ Numbers[i] \in Seq(Int)
<1>1. PICK n \in Nat : n = Len(fin)
  OBVIOUS
<1>2. \A i \in 1..n : fin[i] \in Int
  BY <1>1 DEF Token, Comma, Newline
<1> DEFINE H == [i \in 1..n |-> [s \in Seq(Int) |->
                   IF fin[i] = Newline THEN <<>>
                   ELSE (IF fin[i] = Comma THEN <<>> ELSE <<fin[i]>>) \o s]]
<1>3. H \in [1..n -> [Seq(Int) -> Seq(Int)]]
  <2>1. ASSUME NEW i \in 1..n, NEW s \in Seq(Int)
        PROVE  (IF fin[i] = Newline THEN <<>>
                ELSE (IF fin[i] = Comma THEN <<>> ELSE <<fin[i]>>) \o s) \in Seq(Int)
    <3>1. <<>> \in Seq(Int) /\ <<fin[i]>> \in Seq(Int)
      BY <1>2
    <3>2. <<>> \o s \in Seq(Int) /\ <<fin[i]>> \o s \in Seq(Int)
      BY <3>1
    <3> QED
      BY <3>1, <3>2
  <2> QED
    BY <2>1
<1>12. PICK f : FromEnd(f, n, Seq(Int), <<>>, H)
  <2>1. <<>> \in Seq(Int)
    OBVIOUS
  <2> HIDE DEF H
  <2> QED
    BY <1>3, <2>1, FromTheEnd
<1>4. /\ f \in [1..(n + 1) -> Seq(Int)]
      /\ \A i \in 1..(n + 1) : f[i] = IF i > n THEN <<>> ELSE H[i][f[i + 1]]
  <2> HIDE DEF H
  <2> QED
    BY ONLY <1>12, Zenon DEF FromEnd
<1>5. ASSUME NEW i \in 1..(n + 1) PROVE f[i] = NumbersFrom(f, i)
  <2>1. CASE i > n
    BY <1>1, <1>4, <2>1 DEF NumbersFrom
  <2>2. CASE ~(i > n)
    <3>1. i \in 1..n /\ i + 1 \in 1..(n + 1) /\ f[i + 1] \in Seq(Int)
      BY <1>4, <2>2
    <3>2. f[i] = H[i][f[i + 1]]
      BY <1>4, <2>2
    <3>3. ~(i > Len(fin))
      BY <1>1, <2>2
    <3> QED
      BY <3>1, <3>2, <3>3 DEF NumbersFrom
  <2> QED
    BY <2>1, <2>2
<1>6. f = [i \in 1..(Len(fin) + 1) |-> NumbersFrom(f, i)]
  <2>1. f = [i \in 1..(n + 1) |-> f[i]]
    BY ONLY <1>4
  <2>2. f = [i \in 1..(n + 1) |-> NumbersFrom(f, i)]
    BY ONLY <1>5, <2>1
  <2> QED
    BY <1>1, <2>2
<1>7. Numbers = [i \in 1..(Len(fin) + 1) |-> NumbersFrom(Numbers, i)]
  BY <1>6 DEF Numbers, NumbersFrom
<1>8. \A i \in 1..(n + 1) : Numbers[i] = NumbersFrom(Numbers, i)
  BY <1>1, <1>7
<1> DEFINE T == {i \in 1..(n + 1) : Numbers[i] \in Seq(Int)}
<1>9. n + 1 \in T
  <2>1. NumbersFrom(Numbers, n + 1) = <<>>
    BY <1>1 DEF NumbersFrom
  <2>2. Numbers[n + 1] = <<>>
    BY <1>8, <2>1
  <2>3. <<>> \in Seq(Int) /\ n + 1 \in 1..(n + 1)
    OBVIOUS
  <2> QED
    BY <2>2, <2>3
<1>10. ASSUME NEW i \in 1..n, i + 1 \in T PROVE i \in T
  <2>1. <<>> \in Seq(Int) /\ <<fin[i]>> \in Seq(Int) /\ Numbers[i + 1] \in Seq(Int)
    BY <1>2, <1>10
  <2>2. <<>> \o Numbers[i + 1] \in Seq(Int) /\ <<fin[i]>> \o Numbers[i + 1] \in Seq(Int)
    BY <2>1
  <2>3. NumbersFrom(Numbers, i) \in {<<>>, <<>> \o Numbers[i + 1], <<fin[i]>> \o Numbers[i + 1]}
    BY Zenon DEF NumbersFrom
  <2>5. Numbers[i] = NumbersFrom(Numbers, i) /\ i \in 1..(n + 1)
    BY <1>8
  <2>4. Numbers[i] \in Seq(Int)
    BY ONLY <2>1, <2>2, <2>3, <2>5
  <2> QED
    BY <2>4, <2>5
<1>11. \A i \in 1..(n + 1) : i \in T
  <2> HIDE DEF T
  <2>2. n + 1 \in Nat /\ 1 \in Nat /\ \A k \in 1..(n + 1) : k < n + 1 => k \in 1..n
    OBVIOUS
  <2>1. \A i \in 1..(n + 1) : i < n + 1 /\ i + 1 \in T => i \in T
    BY <1>10, <2>2
  <2> QED
    BY <1>9, <2>1, <2>2, CountDown
<1> QED
  BY <1>1, <1>8, <1>11

LEMMA RowsUnfold ==
  ASSUME fin \in Seq(Token)
  PROVE  \A i \in 1..(Len(fin) + 1) : Rows[i] = RowsFrom(Rows, i) /\ Rows[i] \in Table
<1>1. PICK n \in Nat : n = Len(fin)
  OBVIOUS
<1>2. \A i \in 1..n : Numbers[i] \in Seq(Int)
  BY <1>1, NumbersUnfold
<1>13. <<>> \in Table /\ \A i \in 1..n : <<Numbers[i]>> \in Table
  BY <1>2 DEF Table
<1>14. \A p \in Table, q \in Table : p \o q \in Table
  BY DEF Table
<1> DEFINE H == [i \in 1..n |-> [s \in Table |->
                   (IF BeginsLine(i) /\ Numbers[i] # <<>> THEN <<Numbers[i]>> ELSE <<>>) \o s]]
<1>3. H \in [1..n -> [Table -> Table]]
  BY <1>13, <1>14
<1>12. PICK f : FromEnd(f, n, Table, <<>>, H)
  <2> HIDE DEF H
  <2> QED
    BY <1>3, <1>13, FromTheEnd
<1>4. /\ f \in [1..(n + 1) -> Table]
      /\ \A i \in 1..(n + 1) : f[i] = IF i > n THEN <<>> ELSE H[i][f[i + 1]]
  <2> HIDE DEF H
  <2> QED
    BY ONLY <1>12, Zenon DEF FromEnd
<1>5. ASSUME NEW i \in 1..(n + 1) PROVE f[i] = RowsFrom(f, i)
  <2>1. CASE i > n
    BY <1>1, <1>4, <2>1 DEF RowsFrom
  <2>2. CASE ~(i > n)
    <3>1. i \in 1..n /\ i + 1 \in 1..(n + 1) /\ f[i + 1] \in Table
      BY <1>4, <2>2
    <3>2. f[i] = H[i][f[i + 1]]
      BY <1>4, <2>2
    <3>3. ~(i > Len(fin))
      BY <1>1, <2>2
    <3> QED
      BY <3>1, <3>2, <3>3 DEF RowsFrom
  <2> QED
    BY <2>1, <2>2
<1>6. f = [i \in 1..(Len(fin) + 1) |-> RowsFrom(f, i)]
  <2>1. f = [i \in 1..(n + 1) |-> f[i]]
    BY ONLY <1>4
  <2>2. f = [i \in 1..(n + 1) |-> RowsFrom(f, i)]
    BY ONLY <1>5, <2>1
  <2> QED
    BY <1>1, <2>2
<1>7. Rows = [i \in 1..(Len(fin) + 1) |-> RowsFrom(Rows, i)]
  BY <1>6 DEF Rows, RowsFrom
<1>8. \A i \in 1..(n + 1) : Rows[i] = RowsFrom(Rows, i)
  BY <1>1, <1>7
<1> DEFINE T == {i \in 1..(n + 1) : Rows[i] \in Table}
<1>9. n + 1 \in T
  <2>1. RowsFrom(Rows, n + 1) = <<>>
    BY <1>1 DEF RowsFrom
  <2>2. Rows[n + 1] = <<>> /\ n + 1 \in 1..(n + 1)
    BY <1>8, <2>1
  <2> QED
    BY <1>13, <2>2
<1>10. ASSUME NEW i \in 1..n, i + 1 \in T PROVE i \in T
  <2>1. Rows[i + 1] \in Table
    BY <1>10
  <2>2. <<>> \o Rows[i + 1] \in Table /\ <<Numbers[i]>> \o Rows[i + 1] \in Table
    BY <1>13, <1>14, <2>1
  <2>3. RowsFrom(Rows, i) \in {<<>>, <<>> \o Rows[i + 1], <<Numbers[i]>> \o Rows[i + 1]}
    BY Zenon DEF RowsFrom
  <2>5. Rows[i] = RowsFrom(Rows, i) /\ i \in 1..(n + 1)
    BY <1>8
  <2>4. Rows[i] \in Table
    BY ONLY <1>13, <2>2, <2>3, <2>5
  <2> QED
    BY <2>4, <2>5
<1>11. \A i \in 1..(n + 1) : i \in T
  <2> HIDE DEF T
  <2>2. n + 1 \in Nat /\ 1 \in Nat /\ \A k \in 1..(n + 1) : k < n + 1 => k \in 1..n
    OBVIOUS
  <2>1. \A i \in 1..(n + 1) : i < n + 1 /\ i + 1 \in T => i \in T
    BY <1>10, <2>2
  <2> QED
    BY <1>9, <2>1, <2>2, CountDown
<1> QED
  BY <1>1, <1>8, <1>11

\* The rows to come from a place on, which may lie behind the end.
RowsAt(i) == IF i > Len(fin) THEN <<>> ELSE Rows[i]

\* A line that begins with a number has a row; the numbers end at the line's
\* end; and no row begins in a line or with a line's end.
LEMMA RowsAtFacts ==
  ASSUME fin \in Seq(Token), NEW i \in 1..(Len(fin) + 1)
  PROVE  /\ RowsAt(i) \in Table /\ Numbers[i] \in Seq(Int)
         /\ i > Len(fin) => RowsAt(i) = <<>> /\ Numbers[i] = <<>>
         /\ i <= Len(fin) /\ fin[i] = Newline => Numbers[i] = <<>> /\ RowsAt(i) = RowsAt(i + 1)
         /\ i <= Len(fin) /\ ~BeginsLine(i) => RowsAt(i) = RowsAt(i + 1)
         /\ i <= Len(fin) /\ fin[i] = Comma => Numbers[i] = Numbers[i + 1]
         /\ i <= Len(fin) /\ fin[i] \in Nat => Numbers[i] = <<fin[i]>> \o Numbers[i + 1]
         /\ i <= Len(fin) /\ fin[i] \in Nat /\ BeginsLine(i) => RowsAt(i) = <<Numbers[i]>> \o RowsAt(i + 1)
<1>1. PICK n \in Nat : n = Len(fin)
  OBVIOUS
<1>2. /\ Numbers[i] = NumbersFrom(Numbers, i) /\ Numbers[i] \in Seq(Int)
      /\ Rows[i] = RowsFrom(Rows, i) /\ Rows[i] \in Table
  BY NumbersUnfold, RowsUnfold
<1>3. CASE i > Len(fin)
  <2>1. Numbers[i] = <<>>
    BY ONLY <1>2, <1>3, Zenon DEF NumbersFrom
  <2>2. RowsAt(i) = <<>> /\ <<>> \in Table /\ ~(i <= Len(fin))
    BY <1>1, <1>3 DEF RowsAt, Table
  <2> QED
    BY <1>2, <1>3, <2>1, <2>2
<1>4. CASE ~(i > Len(fin))
  <2>1. i + 1 \in 1..(Len(fin) + 1) /\ i \in 1..n
    BY <1>1, <1>4
  <2>2. Numbers[i + 1] \in Seq(Int) /\ Rows[i + 1] \in Table /\ Rows[i + 1] = RowsFrom(Rows, i + 1)
    BY <2>1, NumbersUnfold, RowsUnfold
  <2>3. RowsAt(i) = Rows[i] /\ RowsAt(i + 1) = Rows[i + 1]
    <3>1. i + 1 > Len(fin) => RowsFrom(Rows, i + 1) = <<>>
      BY DEF RowsFrom
    <3> QED
      BY <1>4, <2>2, <3>1 DEF RowsAt
  <2>4. <<>> \o Numbers[i + 1] = Numbers[i + 1] /\ <<>> \o Rows[i + 1] = Rows[i + 1]
    BY <2>2, ConcatEmptySeq DEF Table
  <2>5. fin[i] = Newline => Numbers[i] = <<>>
    BY ONLY <1>2, Zenon DEF NumbersFrom
  <2>6. fin[i] # Newline => Numbers[i] = (IF fin[i] = Comma THEN <<>> ELSE <<fin[i]>>) \o Numbers[i + 1]
    BY ONLY <1>2, <1>4, Zenon DEF NumbersFrom
  <2>7. RowsAt(i) = (IF BeginsLine(i) /\ Numbers[i] # <<>> THEN <<Numbers[i]>> ELSE <<>>) \o RowsAt(i + 1)
    BY ONLY <1>2, <1>4, <2>3, Zenon DEF RowsFrom
  <2>8. Comma # Newline /\ Comma \notin Nat /\ Newline \notin Nat
    BY DEF Comma, Newline
  <2>9. fin[i] = Comma => Numbers[i] = Numbers[i + 1]
    BY <2>4, <2>6, <2>8
  <2>10. fin[i] \in Nat => Numbers[i] = <<fin[i]>> \o Numbers[i + 1]
    BY <2>6, <2>8
  <2>11. fin[i] \in Nat => Numbers[i] # <<>>
    <3>1. ASSUME NEW x \in Int, NEW s \in Seq(Int) PROVE <<x>> \o s # <<>>
      OBVIOUS
    <3> QED
      BY <2>2, <2>10, <3>1
  <2>12. ~(BeginsLine(i) /\ Numbers[i] # <<>>) => RowsAt(i) = RowsAt(i + 1)
    BY <2>3, <2>4, <2>7
  <2>13. BeginsLine(i) /\ Numbers[i] # <<>> => RowsAt(i) = <<Numbers[i]>> \o RowsAt(i + 1)
    BY <2>7
  <2> QED
    BY <1>2, <1>4, <2>3, <2>5, <2>9, <2>10, <2>11, <2>12, <2>13
<1> QED
  BY <1>3, <1>4

-----------------------------------------------------------------------------
(* What the file still holds for the list. *)

Reading == {"start", "read", "first", "more", "append"}
Found == [k \in 1..Len(node) |-> node[k].row]
Current == [k \in 1..count |-> arr[k]]

\* The rows the list will still get: those of the lines to come, and that of
\* the line being read.
Rest ==
  IF pc = "more" THEN <<Current \o Numbers[pos]>> \o RowsAt(pos)
  ELSE IF pc = "append" THEN <<Current>> \o RowsAt(pos)
  ELSE RowsAt(pos)

\* Where the file is read, and what has been found of it.
FileInv ==
  /\ WellFormed(fin)
  /\ feof => pos > Len(fin)
  /\ pc \in {"start", "read", "first", "append"} => pos > Len(fin) \/ BeginsLine(pos)
  /\ pc = "more" => 1 < pos /\ fin[pos - 1] \in Nat
  /\ pc \in Reading => ~lost /\ Found \o Rest = FileRows
  /\ pc \notin Reading =>
       /\ ~lost /\ status = 0 => Found = FileRows
       /\ \E r \in Table : Found \o r = FileRows

\* The records are linked in order, and the rows written are those walked past.
LinkInv ==
  /\ fout \in Table /\ Len(fout) <= Len(node)
  /\ \A k \in 1..Len(fout) : fout[k] = node[k].row
  /\ \A k \in 1..Len(node) : node[k].next = IF k < Len(node) THEN k + 1 ELSE NULL
  /\ pc # "exit" => status = 0 /\ head = IF Len(node) = 0 THEN NULL ELSE 1
  /\ pc \notin {"write", "exit"} => fout = <<>> /\ curr = Len(node)
  /\ pc = "write" => curr = IF Len(fout) < Len(node) THEN Len(fout) + 1 ELSE NULL
  /\ pc = "exit" /\ status = 0 /\ ~lost => Len(fout) = Len(node)

-----------------------------------------------------------------------------
\* The line ends that are skipped before a line give no row.
LEMMA BlankLines ==
  ASSUME fin \in Seq(Token), NEW p \in 1..(Len(fin) + 1), p > Len(fin) \/ BeginsLine(p)
  PROVE  /\ RowsAt(p) = RowsAt(Skipped(p))
         /\ Skipped(p) <= Len(fin) => BeginsLine(Skipped(p))
<1>0. Len(fin) \in Nat
  OBVIOUS
<1>1. PICK s \in p..(Len(fin) + 1) : s = Skipped(p)
  BY SkippedFacts
<1>2. \A r \in p..(s - 1) : fin[r] = Newline
  BY <1>1, SkippedFacts
<1> DEFINE T == {i \in p..s : RowsAt(i) = RowsAt(s)}
<1>3. \A i \in p..s : i < s /\ i + 1 \in T => i \in T
  <2> SUFFICES ASSUME NEW i \in p..s, i < s, i + 1 \in T PROVE RowsAt(i) = RowsAt(s)
    OBVIOUS
  <2>1. i \in 1..(Len(fin) + 1) /\ i <= Len(fin) /\ i \in p..(s - 1)
    BY <1>0
  <2>2. RowsAt(i) = RowsAt(i + 1)
    BY <1>2, <2>1, RowsAtFacts
  <2> QED
    BY <2>2
<1>4. p \in T
  <2>1. s \in T /\ p \in Nat /\ s \in Nat /\ p \in p..s
    BY <1>0
  <2> HIDE DEF T
  <2> QED
    BY <1>3, <2>1, CountDown
<1>5. s <= Len(fin) => BeginsLine(s)
  <2>1. CASE s = p
    BY <1>0, <2>1
  <2>2. CASE s # p
    <3>1. s - 1 \in p..(s - 1)
      BY <1>0, <2>2
    <3> QED
      BY <1>2, <3>1 DEF BeginsLine
  <2> QED
    BY <2>1, <2>2
<1> QED
  BY <1>1, <1>4, <1>5

\* Behind a comma there is a number, and scanf has nothing to skip.
LEMMA AfterComma ==
  ASSUME fin \in Seq(Token), WellFormed(fin), NEW p \in 1..Len(fin), fin[p] = Comma
  PROVE  p + 1 \in 1..Len(fin) /\ fin[p + 1] \in Nat /\ Skipped(p + 1) = p + 1 /\ IsInt(p + 1)
<1>0. Len(fin) \in Nat
  OBVIOUS
<1>1. p < Len(fin) /\ fin[p + 1] \in Nat
  BY DEF WellFormed
<1>2. p + 1 \in 1..Len(fin) /\ p + 1 \in 1..(Len(fin) + 1)
  BY <1>0, <1>1
<1>3. Comma \notin Nat /\ Newline \notin Nat
  BY DEF Comma, Newline
<1>4. PICK s \in (p + 1)..(Len(fin) + 1) : s = Skipped(p + 1)
  BY <1>2, SkippedFacts
<1>5. \A r \in (p + 1)..(s - 1) : fin[r] = Newline
  BY <1>2, <1>4, SkippedFacts
<1>6. s = p + 1
  <2> SUFFICES ASSUME s # p + 1 PROVE FALSE
    OBVIOUS
  <2>1. p + 1 \in (p + 1)..(s - 1)
    BY <1>0
  <2> QED
    BY <1>1, <1>3, <1>5, <2>1
<1>7. IsInt(p + 1)
  BY <1>1, <1>2, <1>3 DEF IsInt
<1> QED
  BY <1>1, <1>2, <1>4, <1>6, <1>7

\* The file does not change, nor do its rows.
LEMMA FileKept ==
  ASSUME fin' = fin
  PROVE  Numbers' = Numbers /\ Rows' = Rows /\ FileRows' = FileRows
<1>1. Numbers' = Numbers
  BY DEF Numbers
<1>2. Rows' = Rows
  BY <1>1 DEF Rows, BeginsLine
<1> QED
  BY <1>1, <1>2 DEF FileRows

LEMMA FoundFacts == ASSUME IInv PROVE Found \in Table /\ Len(Found) = Len(node)
<1>1. node \in Seq(Node) /\ Len(node) \in Nat
  BY DEF IInv, ListInv
<1>2. \A k \in 1..Len(node) : node[k].row \in Seq(Int)
  <2>1. \A k \in 1..Len(node) : node[k] \in Node
    BY <1>1
  <2>2. \A r \in Node : r.row \in Seq(Int)
    BY DEF Node
  <2> QED
    BY <2>1, <2>2
<1> QED
  BY <1>1, <1>2 DEF Found, Table

\* The line being read, and the rows to come, are rows.
LEMMA RestFacts ==
  ASSUME IInv, pc \in Reading
  PROVE  /\ RowsAt(pos) \in Table /\ Rest \in Table
         /\ pc \in Filling => Current \in Seq(Int) /\ Len(Current) = count
<1>1. fin \in Seq(Token) /\ pos \in 1..(Len(fin) + 2) /\ Len(fin) \in Nat
  BY DEF IInv, ReadInv
<1>2. RowsAt(pos) \in Table
  <2>1. CASE pos = Len(fin) + 2
    BY <1>1, <2>1 DEF RowsAt, Table
  <2>2. CASE pos # Len(fin) + 2
    <3>1. pos \in 1..(Len(fin) + 1)
      BY <1>1, <2>2
    <3> QED
      BY <1>1, <3>1, RowsAtFacts
  <2> QED
    BY <2>1, <2>2
<1>3. ASSUME pc \in Filling PROVE Current \in Seq(Int) /\ Len(Current) = count
  <2>1. capacity \in Nat /\ count \in Nat /\ count < capacity /\ arr \in [0..(capacity - 1) -> Int]
    BY <1>3 DEF IInv, BufferInv
  <2> QED
    BY <2>1 DEF Current
<1>4. Rest \in Table
  <2>1. \A s \in Seq(Int), t \in Table : <<s>> \o t \in Table
    BY DEF Table
  <2>2. CASE pc = "more"
    <3>1. pos \in 1..(Len(fin) + 1)
      BY <1>1, <2>2 DEF IInv, ReadInv
    <3>2. Numbers[pos] \in Seq(Int)
      BY <1>1, <3>1, RowsAtFacts
    <3>3. Current \o Numbers[pos] \in Seq(Int)
      BY <1>3, <2>2, <3>2 DEF Filling
    <3> QED
      BY <1>2, <2>1, <2>2, <3>3 DEF Rest
  <2>3. CASE pc = "append"
    BY <1>2, <1>3, <2>1, <2>3 DEF Rest, Filling
  <2>4. CASE pc \in {"start", "read", "first"}
    BY <1>2, <2>4 DEF Rest
  <2> QED
    BY <2>2, <2>3, <2>4 DEF Reading
<1> QED
  BY <1>2, <1>3, <1>4

-----------------------------------------------------------------------------
LEMMA FileInit == ASSUME Init PROVE FileInv /\ LinkInv
<1>1. WellFormed(fin) /\ fin \in Seq(Token)
  BY FilesAssumption DEF Init, WellFormed, Token
<1>2. FileRows = RowsAt(1) /\ RowsAt(1) \in Table
  <2>1. Len(fin) \in Nat /\ 1 \in 1..(Len(fin) + 1)
    BY <1>1
  <2>2. RowsAt(1) \in Table /\ (1 > Len(fin) => Rows[1] = <<>>)
    BY <1>1, <2>1, RowsAtFacts, RowsUnfold DEF RowsFrom
  <2> QED
    BY <2>2 DEF FileRows, RowsAt
<1>3. Found = <<>> /\ Rest = RowsAt(1)
  BY DEF Init, Found, Rest
<1>4. Found \o Rest = FileRows
  BY <1>2, <1>3, ConcatEmptySeq DEF Table
<1>5. FileInv
  BY <1>1, <1>4 DEF Init, FileInv, Reading, BeginsLine
<1>6. LinkInv
  BY DEF Init, LinkInv, Table, NULL
<1> QED
  BY <1>5, <1>6

\* A step that reads on in the line moves what it reads from the rows to come
\* into the line.
LEMMA ReadingOn ==
  ASSUME IInv, FileInv, pc \in Reading, pc' \in Reading, fin' = fin, node' = node,
         lost' = lost, Rest' = Rest,
         feof' => pos' > Len(fin),
         pc' \in {"start", "read", "first", "append"} => pos' > Len(fin) \/ BeginsLine(pos'),
         pc' = "more" => 1 < pos' /\ fin[pos' - 1] \in Nat
  PROVE  FileInv'
<1>1. Found' = Found /\ FileRows' = FileRows
  BY FileKept DEF Found
<1>2. WellFormed(fin)'
  BY DEF FileInv, WellFormed
<1>3. (pc \in {"start", "read", "first", "append"} => pos > Len(fin) \/ BeginsLine(pos))'
  BY DEF BeginsLine
<1>4. ~lost' /\ Found' \o Rest' = FileRows'
  BY <1>1 DEF FileInv
<1> QED
  BY <1>2, <1>3, <1>4 DEF FileInv

\* Opening the file reads nothing of it.
LEMMA OpenInputFile == ASSUME IInv, FileInv, OpenInput PROVE FileInv'
<1>1. /\ pc = "start" /\ pc' = "read" /\ UNCHANGED <<fin, pos, feof, node, lost>>
  BY DEF OpenInput, reading, list
<1>2. RowsAt(pos)' = RowsAt(pos)
  BY <1>1, FileKept DEF RowsAt
<1>3. Rest' = Rest
  BY <1>1, <1>2 DEF Rest
<1>4. (pos > Len(fin) \/ BeginsLine(pos)) /\ (feof' => pos > Len(fin))
  BY <1>1 DEF FileInv
<1> QED
  BY <1>1, <1>3, <1>4, ReadingOn DEF Reading

LEMMA MallocFile == ASSUME IInv, FileInv, Malloc PROVE FileInv'
<1>1. /\ pc = "read" /\ ~feof /\ pc' = "first" /\ UNCHANGED <<fin, pos, feof, node, lost>>
  BY DEF Malloc, reading, list
<1>2. RowsAt(pos)' = RowsAt(pos)
  BY <1>1, FileKept DEF RowsAt
<1>3. Rest' = Rest
  BY <1>1, <1>2 DEF Rest
<1>4. pos > Len(fin) \/ BeginsLine(pos)
  BY <1>1 DEF FileInv
<1> QED
  BY <1>1, <1>3, <1>4, ReadingOn DEF Reading

LEMMA FirstNumberFile == ASSUME IInv, FileInv, FirstNumber PROVE FileInv'
<1>1. PICK s : s = Skipped(pos)
  OBVIOUS
<1>2. /\ pc = "first" /\ IsInt(s) /\ pos' = s + 1 /\ feof' = (feof \/ s + 1 > Len(fin))
      /\ count' = count + 1 /\ arr' = [arr EXCEPT ![count + 1] = fin[s]]
      /\ pc' = "more" /\ UNCHANGED <<fin, node, lost>>
  BY <1>1 DEF FirstNumber, Read, list
<1>3. fin \in Seq(Token) /\ pos \in 1..(Len(fin) + 1) /\ Len(fin) \in Nat
  BY <1>2 DEF IInv, ReadInv
<1>4. s \in 1..Len(fin) /\ fin[s] \in Nat /\ pos <= s
  BY <1>1, <1>2, <1>3, SkippedFacts
<1>5. RowsAt(pos) = RowsAt(s) /\ BeginsLine(s)
  <2>1. pos > Len(fin) \/ BeginsLine(pos)
    BY <1>2 DEF FileInv
  <2> QED
    BY <1>1, <1>3, <1>4, <2>1, BlankLines
<1>6. Numbers[s] = <<fin[s]>> \o Numbers[s + 1] /\ RowsAt(s) = <<Numbers[s]>> \o RowsAt(s + 1)
  <2>1. s \in 1..(Len(fin) + 1) /\ s <= Len(fin)
    BY <1>3, <1>4
  <2> QED
    BY <1>3, <1>4, <1>5, <2>1, RowsAtFacts
<1>7. Current' = <<fin[s]>>
  <2>1. /\ capacity \in Nat /\ count = 0 /\ 1 < capacity /\ arr \in [0..(capacity - 1) -> Int]
    BY <1>2 DEF IInv, BufferInv, Filling
  <2>2. count' = 1 /\ arr'[1] = fin[s]
    BY <1>2, <2>1
  <2>3. Current' = [k \in 1..1 |-> arr'[k]]
    BY <2>2 DEF Current
  <2> QED
    BY <2>2, <2>3
<1>8. Numbers' = Numbers /\ RowsAt(pos)' = RowsAt(s + 1)
  BY <1>2, FileKept DEF RowsAt
<1>9. Rest' = Rest
  <2>1. Rest = RowsAt(pos)
    BY <1>2 DEF Rest
  <2>2. Rest' = <<Current' \o Numbers'[pos']>> \o RowsAt(pos)'
    BY <1>2 DEF Rest
  <2> QED
    BY <1>2, <1>5, <1>6, <1>7, <1>8, <2>1, <2>2
<1>10. feof' => pos' > Len(fin)
  <2>1. feof => pos > Len(fin)
    BY DEF FileInv
  <2>2. ~feof
    BY <1>3, <1>4, <2>1
  <2>3. feof' => s + 1 > Len(fin)
    BY <1>2, <2>2, Zenon
  <2> QED
    BY <1>2, <2>3
<1>11. 1 < pos' /\ fin[pos' - 1] \in Nat
  BY <1>2, <1>4
<1> QED
  BY <1>2, <1>9, <1>10, <1>11, ReadingOn DEF Reading

LEMMA NextNumberFile == ASSUME IInv, FileInv, NextNumber PROVE FileInv'
<1>1. PICK cap : cap = IF BufferFull THEN capacity * 2 ELSE capacity
  OBVIOUS
<1>2. /\ pc = "more" /\ pos <= Len(fin) /\ fin[pos] = Comma
      /\ pos' = Skipped(pos + 1) + 1 /\ feof' = (feof \/ Skipped(pos + 1) + 1 > Len(fin))
      /\ count' = count + 1
      /\ arr' = [Resized(cap) EXCEPT ![count + 1] = fin[Skipped(pos + 1)]]
      /\ pc' = "more" /\ UNCHANGED <<fin, node, lost>>
  BY <1>1 DEF NextNumber, More, Read, list
<1>3. fin \in Seq(Token) /\ pos \in 1..Len(fin) /\ Len(fin) \in Nat /\ WellFormed(fin)
  BY <1>2 DEF IInv, ReadInv, FileInv
<1>4. pos + 1 \in 1..Len(fin) /\ fin[pos + 1] \in Nat /\ Skipped(pos + 1) = pos + 1
  BY <1>2, <1>3, AfterComma
<1>5. pos' = pos + 2 /\ arr' = [Resized(cap) EXCEPT ![count + 1] = fin[pos + 1]]
  <2>1. (pos + 1) + 1 = pos + 2
    BY <1>3
  <2> QED
    BY <1>2, <1>4, <2>1, Zenon
<1>13. /\ pos \in 1..(Len(fin) + 1) /\ pos <= Len(fin)
       /\ pos + 1 \in 1..(Len(fin) + 1) /\ pos + 1 <= Len(fin)
  BY <1>3, <1>4
<1>6. RowsAt(pos) = RowsAt(pos + 2)
  <2>1. 1 < pos /\ fin[pos - 1] \in Nat
    BY <1>2 DEF FileInv
  <2>2. Newline \notin Nat /\ Comma # Newline
    BY DEF Newline, Comma
  <2>3. ~BeginsLine(pos) /\ ~BeginsLine(pos + 1)
    BY <1>2, <1>3, <2>1, <2>2 DEF BeginsLine
  <2>4. RowsAt(pos) = RowsAt(pos + 1)
    BY <1>3, <1>13, <2>3, RowsAtFacts
  <2>5. RowsAt(pos + 1) = RowsAt((pos + 1) + 1)
    BY <1>3, <1>13, <2>3, RowsAtFacts
  <2> QED
    BY <1>3, <2>4, <2>5
<1>7. Numbers[pos] = <<fin[pos + 1]>> \o Numbers[pos + 2] /\ Numbers[pos + 2] \in Seq(Int)
  <2>1. Numbers[pos] = Numbers[pos + 1]
    BY <1>2, <1>3, <1>13, RowsAtFacts
  <2>2. Numbers[pos + 1] = <<fin[pos + 1]>> \o Numbers[(pos + 1) + 1]
    BY <1>3, <1>4, <1>13, RowsAtFacts
  <2>3. pos + 2 \in 1..(Len(fin) + 1) /\ (pos + 1) + 1 = pos + 2
    BY <1>3, <1>4
  <2>4. Numbers[pos + 2] \in Seq(Int)
    BY <1>3, <1>13, <2>3, RowsAtFacts
  <2> QED
    BY <2>1, <2>2, <2>3, <2>4
<1>8. Current \in Seq(Int) /\ Current' = Current \o <<fin[pos + 1]>>
  <2>1. /\ capacity \in Nat /\ count \in Nat /\ count < capacity
        /\ arr \in [0..(capacity - 1) -> Int]
    BY <1>2 DEF IInv, BufferInv, Filling
  <2>2. cap \in Nat /\ capacity <= cap /\ count + 1 < cap
    BY <1>1, <2>1 DEF BufferFull
  <2>3. PICK old : old = Resized(cap)
    OBVIOUS
  <2>4. old \in [0..(cap - 1) -> Int] /\ \A k \in 1..count : old[k] = arr[k]
    BY <2>1, <2>2, <2>3 DEF Resized, Unset
  <2>5. arr' = [old EXCEPT ![count + 1] = fin[pos + 1]]
    BY <1>5, <2>3
  <2>6. arr'[count + 1] = fin[pos + 1] /\ \A k \in 1..count : arr'[k] = arr[k]
    BY <2>1, <2>2, <2>4, <2>5
  <2>7. Current \in Seq(Int) /\ Len(Current) = count /\ \A k \in 1..count : Current[k] = arr[k]
    BY <2>1 DEF Current
  <2>8. fin[pos + 1] \in Int /\ <<fin[pos + 1]>> \in Seq(Int)
    BY <1>4
  <2>9. PICK b \in Seq(Int) : b = Current \o <<fin[pos + 1]>>
    <3>1. Current \o <<fin[pos + 1]>> \in Seq(Int)
      BY <2>7, <2>8
    <3> QED
      BY ONLY <3>1, Zenon
  <2>10. /\ Len(b) = count + 1 /\ b[count + 1] = fin[pos + 1]
         /\ \A k \in 1..count : b[k] = arr[k]
    <3>1. PICK x \in Int : x = fin[pos + 1]
      BY <2>8
    <3>2. PICK q \in Seq(Int) : q = Current
      BY <2>7
    <3>3. Len(q) = count /\ \A k \in 1..count : q[k] = arr[k]
      BY <2>7, <3>2
    <3>4. b = q \o <<x>>
      BY <2>9, <3>1, <3>2
    <3>5. Len(b) = count + 1 /\ b[count + 1] = x /\ \A k \in 1..count : b[k] = q[k]
      <4>1. b = Append(q, x)
        BY <3>4, AppendIsConcat
      <4> QED
        BY <3>3, <4>1, AppendProperties
    <3> QED
      BY <3>1, <3>3, <3>5
  <2>11. Current' = [k \in 1..(count + 1) |-> arr'[k]]
    BY <1>2 DEF Current
  <2>12. \A k \in 1..(count + 1) : k \in 1..count \/ k = count + 1
    BY <2>1
  <2>13. \A k \in 1..(count + 1) : b[k] = arr'[k]
    BY <2>6, <2>10, <2>12
  <2>14. b = [k \in 1..(count + 1) |-> b[k]]
    BY <2>9, <2>10
  <2>15. Current' = b
    BY <2>11, <2>13, <2>14
  <2> QED
    BY <2>7, <2>9, <2>15
<1>9. Numbers' = Numbers /\ RowsAt(pos)' = RowsAt(pos + 2)
  BY <1>2, <1>5, FileKept DEF RowsAt
<1>10. Rest' = Rest
  <2>1. Rest = <<Current \o Numbers[pos]>> \o RowsAt(pos)
    BY <1>2 DEF Rest
  <2>2. Rest' = <<Current' \o Numbers'[pos']>> \o RowsAt(pos)'
    BY <1>2 DEF Rest
  <2>3. Current' \o Numbers[pos + 2] = Current \o Numbers[pos]
    <3>1. Current \in Seq(Int) /\ <<fin[pos + 1]>> \in Seq(Int) /\ Numbers[pos + 2] \in Seq(Int)
      BY <1>4, <1>7, <1>8
    <3>2. (Current \o <<fin[pos + 1]>>) \o Numbers[pos + 2]
            = Current \o (<<fin[pos + 1]>> \o Numbers[pos + 2])
      <4>1. \A u, v, w \in Seq(Int) : (u \o v) \o w = u \o (v \o w)
        BY ONLY ConcatAssociative
      <4> QED
        BY ONLY <3>1, <4>1, Zenon
    <3> QED
      BY <1>7, <1>8, <3>2, Zenon
  <2> QED
    BY <1>5, <1>6, <1>9, <2>1, <2>2, <2>3
<1>11. feof' => pos' > Len(fin)
  <2>1. feof => pos > Len(fin)
    BY DEF FileInv
  <2>2. ~feof
    BY <1>3, <2>1
  <2>3. feof' => Skipped(pos + 1) + 1 > Len(fin)
    BY <1>2, <2>2, Zenon
  <2> QED
    BY <1>2, <2>3
<1>12. 1 < pos' /\ fin[pos' - 1] \in Nat
  <2>1. pos' - 1 = pos + 1
    BY <1>3, <1>5
  <2> QED
    BY <1>3, <1>4, <1>5, <2>1
<1> QED
  BY <1>2, <1>10, <1>11, <1>12, ReadingOn DEF Reading

LEMMA LastNumberFile == ASSUME IInv, FileInv, LastNumber PROVE FileInv'
<1>1. /\ pc = "more" /\ ~More /\ pos' = LineEnd /\ feof' = (feof \/ LineEnd > Len(fin) + 1)
      /\ arr' = [arr EXCEPT ![0] = count] /\ pc' = "append"
      /\ UNCHANGED <<fin, count, node, lost>>
  BY DEF LastNumber, list
<1>2. fin \in Seq(Token) /\ Len(fin) \in Nat /\ pos \in 1..(Len(fin) + 1) /\ WellFormed(fin)
  BY <1>1 DEF IInv, ReadInv, FileInv
<1>3. 1 < pos /\ fin[pos - 1] \in Nat
  BY <1>1 DEF FileInv
<1>4. PICK end \in (pos + 1)..(Len(fin) + 2) : end = LineEnd
  BY <1>2, LineEndFacts
<1>5. \A r \in pos..(end - 2) : fin[r] # Newline
  BY <1>2, <1>4, LineEndFacts
<1>6. pos <= Len(fin) => fin[pos] = Newline
  <2> SUFFICES ASSUME pos <= Len(fin) PROVE fin[pos] = Newline
    OBVIOUS
  <2>1. pos \in 1..Len(fin) /\ fin[pos] \in Token
    BY <1>2
  <2>2. fin[pos] \notin Nat
    <3>1. pos - 1 \in 1..(Len(fin) - 1) /\ (pos - 1) + 1 = pos
      BY <1>2, <1>3, <2>1
    <3> QED
      BY <1>2, <1>3, <3>1 DEF WellFormed
  <2>3. fin[pos] # Comma
    <3> SUFFICES ASSUME fin[pos] = Comma PROVE FALSE
      OBVIOUS
    <3>1. Skipped(pos + 1) = pos + 1 /\ IsInt(pos + 1)
      BY <1>2, <2>1, AfterComma
    <3>2. More
      BY <2>1, <3>1 DEF More
    <3> QED
      BY <1>1, <3>2
  <2> QED
    BY <2>1, <2>2, <2>3 DEF Token
<1>7. end = pos + 1
  <2>1. CASE pos > Len(fin)
    BY <1>2, <1>4, <2>1
  <2>2. CASE pos <= Len(fin)
    <3> SUFFICES ASSUME end # pos + 1 PROVE FALSE
      OBVIOUS
    <3>1. pos \in pos..(end - 2)
      BY <1>2, <1>4
    <3> QED
      BY <1>5, <1>6, <2>2, <3>1
  <2> QED
    BY <1>2, <2>1, <2>2
<1>8. Numbers[pos] = <<>> /\ RowsAt(pos) = RowsAt(pos + 1)
  <2>1. CASE pos > Len(fin)
    <3>1. RowsAt(pos + 1) = <<>>
      BY <1>2, <2>1 DEF RowsAt
    <3> QED
      BY <1>2, <2>1, <3>1, RowsAtFacts
  <2>2. CASE pos <= Len(fin)
    BY <1>2, <1>6, <2>2, RowsAtFacts
  <2> QED
    BY <1>2, <2>1, <2>2
<1>9. Current' = Current /\ Current \in Seq(Int)
  <2>1. /\ capacity \in Nat /\ count \in Nat /\ count < capacity
        /\ arr \in [0..(capacity - 1) -> Int]
    BY <1>1 DEF IInv, BufferInv, Filling
  <2>2. \A k \in 1..count : arr'[k] = arr[k]
    BY <1>1, <2>1
  <2> QED
    BY <1>1, <2>1, <2>2 DEF Current
<1>10. RowsAt(pos)' = RowsAt(pos + 1)
  BY <1>1, <1>4, <1>7, FileKept DEF RowsAt
<1>11. Rest' = Rest
  <2>1. Rest = <<Current \o Numbers[pos]>> \o RowsAt(pos)
    BY <1>1 DEF Rest
  <2>2. Rest' = <<Current'>> \o RowsAt(pos)'
    BY <1>1 DEF Rest
  <2>3. Current \o <<>> = Current
    BY <1>9, ConcatEmptySeq
  <2> QED
    BY <1>8, <1>9, <1>10, <2>1, <2>2, <2>3
<1>12. feof' => pos' > Len(fin)
  <2>1. feof => pos > Len(fin)
    BY DEF FileInv
  <2>2. pos' = pos + 1 /\ (feof' => feof \/ pos + 1 > Len(fin) + 1)
    BY <1>1, <1>4, <1>7, Zenon
  <2> QED
    BY <1>2, <2>1, <2>2
<1>13. pos' > Len(fin) \/ BeginsLine(pos')
  <2>1. pos' = pos + 1 /\ pos' - 1 = pos
    BY <1>1, <1>2, <1>4, <1>7
  <2> QED
    BY <1>2, <1>6, <2>1 DEF BeginsLine
<1> QED
  BY <1>1, <1>11, <1>12, <1>13, ReadingOn DEF Reading

\* The row of the line is kept, as the last of those found.
LEMMA AppendRecordFile == ASSUME IInv, FileInv, AppendRecord PROVE FileInv'
<1>1. PICK new : new = [row |-> Row, next |-> NULL]
  OBVIOUS
<1>2. /\ pc = "append" /\ pc' = "read" /\ node' = Append(Linked, new)
      /\ UNCHANGED <<fin, pos, feof, lost>>
  BY <1>1 DEF AppendRecord, reading
<1>3. Found \in Table /\ Current \in Seq(Int) /\ RowsAt(pos) \in Table
  BY <1>2, FoundFacts, RestFacts DEF Reading, Filling
<1>4. Row = Current
  BY <1>2 DEF IInv, BufferInv, Filling, Row, Current
<1>5. PICK m \in Nat : m = Len(node)
  BY DEF IInv, ListInv
<1>6. PICK old : old = Linked
  OBVIOUS
<1>7. old \in Seq(Node) /\ Len(old) = m /\ \A k \in 1..m : old[k].row = node[k].row
  <2>1. node \in Seq(Node) /\ Len(node) = m /\ curr \in 0..m
    BY <1>5 DEF IInv, ListInv
  <2>2. CASE curr = NULL
    BY <1>6, <2>1, <2>2 DEF Linked
  <2>3. CASE curr # NULL
    <3>1. curr \in 1..m
      BY <2>1, <2>3 DEF NULL
    <3>2. PICK last : last = [node[curr] EXCEPT !.next = m + 1]
      OBVIOUS
    <3>3. node[curr] \in Node
      BY <2>1, <3>1
    <3>4. last \in Node /\ last.row = node[curr].row
      BY <3>2, <3>3 DEF Node
    <3>5. old = [node EXCEPT ![curr] = last]
      BY <1>5, <1>6, <2>3, <3>2 DEF Linked
    <3>6. old \in Seq(Node) /\ Len(old) = m
      BY <2>1, <3>1, <3>4, <3>5
    <3>7. \A k \in 1..m : old[k] = IF k = curr THEN last ELSE node[k]
      BY <2>1, <3>1, <3>5
    <3> QED
      BY <3>4, <3>6, <3>7
  <2> QED
    BY <2>2, <2>3
<1>8. Found' = Found \o <<Current>>
  <2>1. PICK g : g = node'
    OBVIOUS
  <2>2. new \in Node /\ new.row = Current
    BY <1>1, <1>3, <1>4 DEF Node, NULL
  <2>3. g = Append(old, new)
    BY <1>2, <1>6, <2>1
  <2>4. /\ Len(g) = m + 1 /\ g[m + 1].row = Current
        /\ \A k \in 1..m : g[k].row = node[k].row
    BY <1>7, <2>2, <2>3
  <2>5. Found' = [k \in 1..(m + 1) |-> g[k].row]
    BY <2>1, <2>4 DEF Found
  <2>6. PICK f \in Table : f = Found
    BY <1>3
  <2>7. Len(f) = m /\ \A k \in 1..m : f[k] = node[k].row
    BY <1>5, <2>6 DEF Found
  <2>8. PICK b : b = Append(f, Current)
    OBVIOUS
  <2>9. b \in Seq(Seq(Int)) /\ Len(b) = m + 1 /\ b[m + 1] = Current /\ \A k \in 1..m : b[k] = f[k]
    BY <1>3, <2>6, <2>7, <2>8, AppendProperties DEF Table
  <2>10. \A k \in 1..(m + 1) : k \in 1..m \/ k = m + 1
    OBVIOUS
  <2>11. \A k \in 1..(m + 1) : b[k] = g[k].row
    BY <2>4, <2>7, <2>9, <2>10
  <2>12. b = [k \in 1..(m + 1) |-> b[k]]
    BY <2>9
  <2>13. Found' = b
    BY <2>5, <2>11, <2>12
  <2>14. b = f \o <<Current>>
    BY <1>3, <2>6, <2>8, AppendIsConcat DEF Table
  <2> QED
    BY <2>6, <2>13, <2>14
<1>9. RowsAt(pos)' = RowsAt(pos) /\ FileRows' = FileRows
  BY <1>2, FileKept DEF RowsAt
<1>10. Found' \o Rest' = FileRows'
  <2>1. Found \o (<<Current>> \o RowsAt(pos)) = FileRows
    BY <1>2 DEF FileInv, Reading, Rest
  <2>2. Rest' = RowsAt(pos)
    BY <1>2, <1>9 DEF Rest
  <2>3. <<Current>> \in Table
    BY <1>3 DEF Table
  <2>4. \A u, v, w \in Table : (u \o v) \o w = u \o (v \o w)
    BY ONLY ConcatAssociative DEF Table
  <2> QED
    BY <1>3, <1>8, <1>9, <2>1, <2>2, <2>3, <2>4, Zenon
<1>11. WellFormed(fin)' /\ ~lost' /\ (feof' => pos' > Len(fin'))
  BY <1>2 DEF FileInv, Reading, WellFormed
<1>12. (pos > Len(fin) \/ BeginsLine(pos))'
  BY <1>2 DEF FileInv, BeginsLine
<1> QED
  BY <1>2, <1>10, <1>11, <1>12 DEF FileInv, Reading

\* The loop of main is left: nothing is to come, unless memory ran out.
LEMMA LeaveFile ==
  ASSUME IInv, FileInv,
         NoMoreLines \/ MallocFails \/ NoNumber \/ ReallocFails \/ AppendFails
           \/ Usage \/ OpenInputFails
  PROVE  FileInv'
<1>1. /\ pc \in Reading /\ pc' \in {"close", "exit"} /\ UNCHANGED <<fin, node>>
  BY DEF NoMoreLines, MallocFails, NoNumber, ReallocFails, AppendFails, Usage, OpenInputFails,
     Starves, list, Reading
<1>2. Found \in Table /\ Rest \in Table /\ RowsAt(pos) \in Table
  BY <1>1, FoundFacts, RestFacts
<1>3. Found' = Found /\ FileRows' = FileRows /\ WellFormed(fin)'
  BY <1>1, FileKept DEF Found, FileInv, WellFormed
<1>4. \E r \in Table : Found' \o r = FileRows'
  BY <1>1, <1>2, <1>3 DEF FileInv
<1>5. fin \in Seq(Token) /\ Len(fin) \in Nat /\ WellFormed(fin)
  BY DEF IInv, ReadInv, FileInv
<1>6. feof' => pos' > Len(fin)
  <2>1. CASE NoMoreLines \/ MallocFails \/ AppendFails \/ Usage \/ OpenInputFails
    BY <2>1 DEF NoMoreLines, MallocFails, AppendFails, Usage, OpenInputFails, reading, FileInv
  <2>2. CASE NoNumber
    <3>1. pos \in 1..(Len(fin) + 1)
      BY <1>5, <2>2 DEF NoNumber, IInv, ReadInv
    <3>2. PICK s \in pos..(Len(fin) + 1) : s = Skipped(pos)
      BY <1>5, <3>1, SkippedFacts
    <3>3. pos' = s /\ (feof' => feof \/ s > Len(fin))
      BY <2>2, <3>2 DEF NoNumber, Read
    <3> QED
      BY <1>5, <3>1, <3>2, <3>3 DEF FileInv
  <2>3. CASE ReallocFails
    <3>1. pos + 1 \in 1..(Len(fin) + 1) /\ pos <= Len(fin) /\ IsInt(Skipped(pos + 1))
      BY <1>5, <2>3 DEF ReallocFails, More, IInv, ReadInv
    <3>2. pos' = Skipped(pos + 1) + 1 /\ (feof' => feof \/ Skipped(pos + 1) + 1 > Len(fin))
      BY <2>3 DEF ReallocFails, Read
    <3> QED
      <4>1. pos \in Nat /\ (feof => pos > Len(fin))
        BY <1>5 DEF IInv, ReadInv, FileInv
      <4>2. ~feof
        BY <1>5, <3>1, <4>1
      <4> QED
        BY <3>2, <4>2, Zenon
  <2> QED
    BY <2>1, <2>2, <2>3
<1>7. ASSUME ~lost', status' = 0 PROVE Found' = FileRows'
  <2>1. NoMoreLines \/ NoNumber
    BY <1>7 DEF MallocFails, ReallocFails, Starves, AppendFails, Usage, OpenInputFails
  <2>2. RowsAt(pos) = <<>> /\ Rest = RowsAt(pos)
    <3>1. CASE NoMoreLines
      BY <3>1 DEF NoMoreLines, FileInv, RowsAt, Rest
    <3>2. CASE NoNumber
      <4>1. pc = "first" /\ ~IsInt(Skipped(pos))
        BY <3>2 DEF NoNumber
      <4>2. pos \in 1..(Len(fin) + 1) /\ (pos > Len(fin) \/ BeginsLine(pos))
        BY <1>5, <4>1 DEF IInv, ReadInv, FileInv
      <4>3. PICK s \in pos..(Len(fin) + 1) : s = Skipped(pos)
        BY <1>5, <4>2, SkippedFacts
      <4>4. RowsAt(pos) = RowsAt(s) /\ (s <= Len(fin) => BeginsLine(s) /\ fin[s] # Newline)
        BY <1>5, <4>2, <4>3, BlankLines, SkippedFacts
      <4>5. s > Len(fin)
        <5> SUFFICES ASSUME s <= Len(fin) PROVE FALSE
          BY <1>5, <4>2, <4>3
        <5>1. s \in 1..Len(fin) /\ fin[s] = Comma
          BY <1>5, <4>1, <4>2, <4>3, <4>4 DEF IsInt
        <5>2. 1 < s /\ fin[s - 1] \in Nat
          BY <1>5, <5>1 DEF WellFormed
        <5>3. Newline \notin Nat
          BY DEF Newline
        <5> QED
          BY <4>4, <5>1, <5>2, <5>3 DEF BeginsLine
      <4> QED
        BY <4>1, <4>4, <4>5 DEF RowsAt, Rest
    <3> QED
      BY <2>1, <3>1, <3>2
  <2>3. Found \o <<>> = FileRows
    BY <1>1, <2>2 DEF FileInv
  <2> QED
    BY <1>2, <1>3, <2>3, ConcatEmptySeq DEF Table
<1>8. pc' \notin Reading /\ pc' \notin {"start", "read", "first", "append", "more"}
  BY <1>1 DEF Reading
<1> QED
  BY <1>1, <1>3, <1>4, <1>6, <1>7, <1>8 DEF FileInv

\* While the list is written it stays what it is.
LEMMA OutputFile ==
  ASSUME IInv, FileInv, Open \/ OpenFails \/ Write \/ Return \/ ReturnLoses PROVE FileInv'
<1>1. /\ pc \notin Reading /\ pc' \in {"write", "exit"} /\ UNCHANGED <<fin, pos, feof, node>>
      /\ status' = 0 => status = 0
      /\ ~lost' => ~lost
  BY DEF Open, OpenFails, Write, Return, ReturnLoses, reading, list, Reading
<1>2. Found' = Found /\ FileRows' = FileRows /\ WellFormed(fin)'
  BY <1>1, FileKept DEF Found, FileInv, WellFormed
<1>3. pc' \notin Reading /\ pc' \notin {"start", "read", "first", "append", "more"}
  BY <1>1 DEF Reading
<1> QED
  BY <1>1, <1>2, <1>3 DEF FileInv

\* While the file is read the list only grows at its end.
LEMMA ReadingLinks ==
  ASSUME IInv, LinkInv,
         NoMoreLines \/ Malloc \/ MallocFails \/ FirstNumber \/ NoNumber \/ NextNumber
           \/ ReallocFails \/ LastNumber \/ AppendFails \/ Usage \/ OpenInput \/ OpenInputFails
  PROVE  LinkInv'
<1>1. /\ pc \in Reading /\ UNCHANGED <<node, head, curr, fout>>
      /\ (pc' \in {"read", "first", "more", "append", "close"} /\ status' = status)
           \/ (pc' = "exit" /\ status' \in {-1, -2, -3})
  BY DEF Usage, OpenInput, OpenInputFails, NoMoreLines, Malloc, MallocFails, FirstNumber, NoNumber, NextNumber, ReallocFails,
     LastNumber, AppendFails, Starves, list, Reading
<1> QED
  BY <1>1 DEF LinkInv, Reading

LEMMA AppendRecordLinks == ASSUME IInv, LinkInv, AppendRecord PROVE LinkInv'
<1>1. PICK new : new = [row |-> Row, next |-> NULL]
  OBVIOUS
<1>2. PICK old : old = Linked
  OBVIOUS
<1>3. /\ pc = "append" /\ pc' = "read" /\ node' = Append(old, new) /\ curr' = Len(node) + 1
      /\ head' = (IF head = NULL THEN curr' ELSE head) /\ UNCHANGED <<fout, status>>
  BY <1>1, <1>2 DEF AppendRecord
<1>4. PICK m \in Nat : m = Len(node)
  BY DEF IInv, ListInv
<1>5. /\ fout = <<>> /\ status = 0 /\ curr = m /\ head = IF m = 0 THEN NULL ELSE 1
      /\ \A k \in 1..m : node[k].next = IF k < m THEN k + 1 ELSE NULL
  BY <1>3, <1>4 DEF LinkInv
<1>6. /\ old \in Seq(Node) /\ Len(old) = m
      /\ \A k \in 1..m : old[k].next = k + 1
  <2>1. node \in Seq(Node) /\ Len(node) = m
    BY <1>4 DEF IInv, ListInv
  <2>2. CASE m = 0
    BY <1>2, <1>5, <2>1, <2>2 DEF Linked, NULL
  <2>3. CASE m # 0
    <3>1. PICK last : last = [node[m] EXCEPT !.next = m + 1]
      OBVIOUS
    <3>2. m \in 1..m /\ node[m] \in Node
      BY <2>1, <2>3
    <3>3. last \in Node /\ last.next = m + 1
      BY <3>1, <3>2 DEF Node
    <3>4. old = [node EXCEPT ![m] = last]
      BY <1>2, <1>4, <1>5, <2>3, <3>1 DEF Linked, NULL
    <3>5. old \in Seq(Node) /\ Len(old) = m
      BY <2>1, <3>2, <3>3, <3>4
    <3>6. \A k \in 1..m : old[k] = IF k = m THEN last ELSE node[k]
      BY <2>1, <3>2, <3>4
    <3>7. \A k \in 1..m : k # m => k < m
      OBVIOUS
    <3> QED
      BY <1>5, <3>3, <3>5, <3>6, <3>7
  <2> QED
    BY <2>2, <2>3
<1>7. PICK g : g = node'
  OBVIOUS
<1>8. new \in Node /\ new.next = NULL
  <2>1. capacity \in Nat /\ count \in Nat /\ count < capacity /\ arr \in [0..(capacity - 1) -> Int] /\ arr[0] = count
    BY <1>3 DEF IInv, BufferInv, Filling
  <2>2. Row \in [1..count -> Int]
    BY <2>1 DEF Row
  <2>3. Row \in Seq(Int)
    BY <2>1, <2>2
  <2> QED
    BY <1>1, <2>3 DEF Node, NULL
<1>9. Len(g) = m + 1 /\ g[m + 1] = new /\ \A k \in 1..m : g[k] = old[k]
  <2>1. g = Append(old, new)
    BY <1>3, <1>7
  <2> QED
    BY <1>6, <1>8, <2>1, AppendProperties
<1>10. \A k \in 1..(m + 1) : g[k].next = IF k < m + 1 THEN k + 1 ELSE NULL
  <2>1. \A k \in 1..(m + 1) : (k \in 1..m /\ k < m + 1) \/ (k = m + 1 /\ ~(k < m + 1))
    OBVIOUS
  <2> QED
    BY <1>6, <1>8, <1>9, <2>1
<1>11. head' = 1 /\ curr' = m + 1
  BY <1>3, <1>4, <1>5 DEF NULL
<1>12. fout' = <<>> /\ status' = 0 /\ Len(fout') = 0 /\ fout' \in Table
  BY <1>3, <1>5 DEF Table
<1>13. Len(node') = m + 1 /\ \A k \in 1..Len(node') : node'[k].next = IF k < Len(node') THEN k + 1 ELSE NULL
  BY <1>7, <1>9, <1>10
<1> QED
  BY <1>3, <1>11, <1>12, <1>13 DEF LinkInv

\* The list is walked from its head, one record at a time, to its end.
LEMMA OutputLinks ==
  ASSUME IInv, LinkInv, Open \/ OpenFails \/ Write \/ Return \/ ReturnLoses PROVE LinkInv'
<1>1. node' = node /\ node \in Seq(Node) /\ Len(node) \in Nat
  BY DEF Open, OpenFails, Write, Return, ReturnLoses, list, IInv, ListInv
<1>2. CASE Open
  <2>1. pc = "close" /\ pc' = "write" /\ curr' = head /\ UNCHANGED <<head, fout, status>>
    BY <1>2 DEF Open
  <2> QED
    BY <1>1, <2>1 DEF LinkInv
<1>3. CASE OpenFails
  <2>1. pc' = "exit" /\ status' = -3 /\ UNCHANGED fout
    BY <1>3 DEF OpenFails
  <2> QED
    BY <1>1, <2>1 DEF LinkInv
<1>4. CASE Return
  <2>1. pc = "write" /\ curr = NULL /\ pc' = "exit" /\ UNCHANGED <<fout, status>>
    BY <1>4 DEF Return
  <2>2. Len(fout) = Len(node)
    <3>1. Len(fout) \in Nat /\ Len(fout) <= Len(node)
      BY DEF LinkInv, Table
    <3>2. curr = IF Len(fout) < Len(node) THEN Len(fout) + 1 ELSE NULL
      BY <2>1 DEF LinkInv
    <3> QED
      BY <1>1, <2>1, <3>1, <3>2 DEF NULL
  <2> QED
    BY <1>1, <2>1, <2>2 DEF LinkInv
<1>5. CASE Write
  <2>1. /\ pc = "write" /\ pc' = "write" /\ curr # NULL /\ fout' = Append(fout, node[curr].row)
        /\ curr' = node[curr].next /\ UNCHANGED <<head, status>>
    BY <1>5 DEF Write
  <2>2. PICK c \in Nat : c = Len(fout)
    BY DEF LinkInv, Table
  <2>3. c < Len(node) /\ curr = c + 1
    BY <2>1, <2>2 DEF LinkInv, NULL
  <2>4. node[c + 1] \in Node /\ node[c + 1].row \in Seq(Int)
    <3>1. node[c + 1] \in Node
      BY <1>1, <2>3
    <3> QED
      BY <3>1 DEF Node
  <2>5. PICK g : g = fout'
    OBVIOUS
  <2>6. /\ g \in Table /\ Len(g) = c + 1 /\ g[c + 1] = node[c + 1].row
        /\ \A k \in 1..c : g[k] = fout[k]
    <3>1. g = Append(fout, node[c + 1].row) /\ fout \in Seq(Seq(Int))
      BY <2>1, <2>3, <2>5 DEF LinkInv, Table
    <3> QED
      BY <2>2, <2>4, <3>1, AppendProperties DEF Table
  <2>7. \A k \in 1..(c + 1) : g[k] = node[k].row
    <3>1. \A k \in 1..(c + 1) : k \in 1..c \/ k = c + 1
      OBVIOUS
    <3>2. \A k \in 1..c : fout[k] = node[k].row
      BY <2>2 DEF LinkInv
    <3> QED
      BY <2>6, <3>1, <3>2
  <2>8. curr' = IF c + 1 < Len(node) THEN (c + 1) + 1 ELSE NULL
    <3>1. c + 1 \in 1..Len(node)
      BY <1>1, <2>3
    <3> QED
      BY <2>1, <2>3, <3>1 DEF LinkInv
  <2>9. Len(g) <= Len(node)
    BY <1>1, <2>3, <2>6
  <2> QED
    BY <1>1, <2>1, <2>5, <2>6, <2>7, <2>8, <2>9 DEF LinkInv
<1>6. CASE ReturnLoses
  <2>1. PICK n \in 0..Len(fout) : fout' = SubSeq(fout, 1, n)
    BY <1>6 DEF ReturnLoses
  <2>2. pc' = "exit" /\ lost' = TRUE
    BY <1>6 DEF ReturnLoses
  <2>3. fout \in Seq(Seq(Int)) /\ Len(fout) \in Nat /\ Len(fout) <= Len(node)
        /\ \A k \in 1..Len(fout) : fout[k] = node[k].row
    BY DEF LinkInv, Table
  <2>4. PICK g : g = fout'
    OBVIOUS
  <2>5. g \in Seq(Seq(Int)) /\ Len(g) = n /\ \A k \in 1..n : g[k] = fout[k]
    BY <2>1, <2>3, <2>4
  <2>6. Len(g) <= Len(node) /\ \A k \in 1..Len(g) : g[k] = node[k].row
    <3>1. n \in Nat /\ n <= Len(fout) /\ \A k \in 1..n : k \in 1..Len(fout)
      BY <2>1, <2>3
    <3>2. \A k \in 1..n : g[k] = node[k].row
      BY <2>3, <2>5, <3>1
    <3>3. n <= Len(node)
      BY ONLY <1>1, <2>3, <3>1
    <3> QED
      BY <2>5, <3>2, <3>3
  <2> QED
    BY <1>1, <2>2, <2>4, <2>5, <2>6 DEF LinkInv, Table
<1> QED
  BY <1>2, <1>3, <1>4, <1>5, <1>6

LEMMA RowsNext == IInv /\ FileInv /\ LinkInv /\ [Next]_vars => FileInv' /\ LinkInv'
<1> SUFFICES ASSUME IInv, FileInv, LinkInv, [Next]_vars PROVE FileInv' /\ LinkInv'
  OBVIOUS
<1>1. CASE UNCHANGED vars
  <2>1. /\ UNCHANGED <<fin, pos, feof, pc, arr, count, node>>
        /\ UNCHANGED <<head, curr, fout, status, lost>>
    BY <1>1 DEF vars, reading, buffers, list
  <2>2. Found' = Found /\ FileRows' = FileRows /\ Numbers' = Numbers /\ RowsAt(pos)' = RowsAt(pos)
    BY <2>1, FileKept DEF Found, RowsAt
  <2>3. Rest' = Rest
    BY <2>1, <2>2 DEF Rest, Current
  <2>4. FileInv'
    BY <2>1, <2>2, <2>3 DEF FileInv, WellFormed, BeginsLine
  <2>5. LinkInv'
    BY <2>1 DEF LinkInv
  <2> QED
    BY <2>4, <2>5
<1> QED
  BY <1>1, OpenInputFile, MallocFile, FirstNumberFile, NextNumberFile, LastNumberFile, AppendRecordFile,
     LeaveFile, OutputFile, ReadingLinks, AppendRecordLinks, OutputLinks DEF Next, Ended

\* main (parsecsv.c) writes one row per line of the file, in order and with all
\* its numbers, whatever the file and whichever allocation fails: if memory or
\* the disk runs out, the rows up to some line are written, and the others are not.
THEOREM RowsAreExact == Spec => []RowsExact
<1>1. Init => IInv /\ FileInv /\ LinkInv
  BY InitInv, FileInit
<1>2. IInv /\ FileInv /\ LinkInv /\ [Next]_vars => IInv' /\ FileInv' /\ LinkInv'
  BY NextInv, RowsNext
<1>3. IInv /\ FileInv /\ LinkInv => RowsExact
  <2> SUFFICES ASSUME IInv, FileInv, LinkInv, pc = "exit", status = 0
               PROVE  /\ Len(fout) <= Len(FileRows) /\ fout = SubSeq(FileRows, 1, Len(fout))
                      /\ ~lost => fout = FileRows
    BY DEF RowsExact
  <2>1. Found \in Table /\ Len(Found) = Len(node) /\ Len(node) \in Nat
    BY FoundFacts DEF IInv, ListInv
  <2>2. /\ Len(fout) <= Len(Found) /\ fout = SubSeq(Found, 1, Len(fout))
        /\ ~lost => fout = Found
    <3>1. /\ fout \in Seq(Seq(Int)) /\ Len(fout) <= Len(node)
          /\ \A k \in 1..Len(fout) : fout[k] = node[k].row
          /\ ~lost => Len(fout) = Len(node)
      BY DEF LinkInv, Table
    <3>2. Found \in Seq(Seq(Int)) /\ \A k \in 1..Len(node) : Found[k] = node[k].row
      BY <2>1 DEF Found, Table
    <3>3. PICK n \in 0..Len(node) : n = Len(fout)
      BY <2>1, <3>1
    <3>4. fout = [k \in 1..n |-> fout[k]] /\ \A k \in 1..n : fout[k] = Found[k]
      BY <2>1, <3>1, <3>2, <3>3
    <3>5. SubSeq(Found, 1, n) = [k \in 1..n |-> Found[k]]
      BY <2>1, <3>2
    <3>6. fout = SubSeq(Found, 1, n)
      BY <3>4, <3>5
    <3>7. n = Len(node) => SubSeq(Found, 1, n) = Found
      BY <2>1, <3>2
    <3> QED
      BY <2>1, <3>1, <3>3, <3>6, <3>7
  <2>3. PICK r \in Table : Found \o r = FileRows
    BY DEF FileInv, Reading
  <2>4. ASSUME NEW n \in 0..Len(Found)
        PROVE  n <= Len(FileRows) /\ SubSeq(Found, 1, n) = SubSeq(FileRows, 1, n)
    <3>1. Found \in Seq(Seq(Int)) /\ r \in Seq(Seq(Int))
      BY <2>1 DEF Table
    <3>2. \A u, v \in Seq(Seq(Int)) : \A k \in 0..Len(u) :
            k <= Len(u \o v) /\ SubSeq(u, 1, k) = SubSeq(u \o v, 1, k)
      OBVIOUS
    <3> QED
      BY <2>3, <3>1, <3>2
  <2>5. ~lost => Found = FileRows
    BY DEF FileInv, Reading
  <2>6. Len(fout) \in 0..Len(Found)
    BY <2>1, <2>2 DEF LinkInv, Table
  <2> QED
    BY <2>2, <2>4, <2>5, <2>6
<1> QED
  BY <1>1, <1>2, <1>3, PTL DEF Spec
=============================================================================
