----------------------------- MODULE CsvReader -----------------------------
(***************************************************************************)
(* lab02-Group12/exercise03: reads a file of comma-separated integers,     *)
(* keeps the average and the standard deviation of each line in a linked   *)
(* list, and writes the list.                                              *)
(*                                                                         *)
(* A file is a sequence of tokens: integers, Comma and Newline.  A row is  *)
(* the integers whose average and deviation are taken, not the floats.     *)
(***************************************************************************)
EXTENDS Integers, Sequences

CONSTANTS
  FILES,     \* the files it may be run on: well-formed, blank lines included
  CAPACITY   \* integers the buffer of a line starts with, 20 in the code

ASSUME CapacityAssumption == CAPACITY \in Nat \ {0, 1}

VARIABLES
  fin, pos, feof,            \* the file, the next token, the end-of-file flag
  pc,
  arr, capacity, count,      \* of read_next_line
  node, head, curr,          \* the list: node[k] is [row, next], NULL is 0
  fout, status,
  lost                    \* history: there was no memory for a line, or no room on the disk

reading == <<pos, feof>>
buffers == <<arr, capacity, count>>
list == <<node, head, curr>>
vars == <<fin, reading, pc, buffers, list, fout, status, lost>>

Comma == -1
Newline == -2
Unset == -3   \* memory malloc returns
NULL == 0

\* A comma stands between two numbers, and only numbers stand between commas.
WellFormed(file) ==
  /\ file \in Seq(Nat \union {Comma, Newline})
  /\ \A i \in 1..Len(file) : file[i] = Comma =>
       1 < i /\ i < Len(file) /\ file[i - 1] \in Nat /\ file[i + 1] \in Nat
  /\ \A i \in 1..(Len(file) - 1) : file[i] \in Nat => file[i + 1] \notin Nat
ASSUME FilesAssumption == \A file \in FILES : WellFormed(file)

IsInt(p) == p <= Len(fin) /\ fin[p] \notin {Comma, Newline}
\* fscanf's %d skips the line ends before a number.
Skipped(p) == CHOOSE q \in p..(Len(fin) + 1) :
  /\ q <= Len(fin) => fin[q] # Newline
  /\ \A r \in p..(q - 1) : fin[r] = Newline

Block(size) == [i \in 0..(size - 1) |-> Unset]
NoBlock == Block(0)
Resized(size) == [i \in 0..(size - 1) |-> IF i \in DOMAIN arr THEN arr[i] ELSE Unset]

Init ==
  /\ fin \in FILES /\ pos = 1 /\ feof = FALSE
  /\ pc = "start"
  /\ arr = NoBlock /\ capacity = 0 /\ count = 0
  /\ node = <<>> /\ head = NULL /\ curr = NULL
  /\ fout = <<>> /\ status = 0 /\ lost = FALSE

-----------------------------------------------------------------------------
(* main, before it reads. *)

Usage ==
  /\ pc = "start"
  /\ status' = -1 /\ pc' = "exit"
  /\ UNCHANGED <<fin, reading, buffers, list, fout, lost>>

OpenInput ==
  /\ pc = "start"
  /\ pc' = "read"
  /\ UNCHANGED <<fin, reading, buffers, list, fout, status, lost>>

OpenInputFails ==
  /\ pc = "start"
  /\ status' = -2 /\ pc' = "exit"
  /\ UNCHANGED <<fin, reading, buffers, list, fout, lost>>

-----------------------------------------------------------------------------
(* read_next_line; "close" is where main goes on when it returns NULL. *)

NoMoreLines ==
  /\ pc = "read" /\ feof
  /\ pc' = "close"
  /\ UNCHANGED <<fin, reading, buffers, list, fout, status, lost>>

Malloc ==
  /\ pc = "read" /\ ~feof
  /\ pc' = "first"
  /\ capacity' = CAPACITY /\ count' = 0
  /\ arr' = Block(CAPACITY)
  /\ UNCHANGED <<fin, reading, list, fout, status, lost>>

\* malloc or realloc fails: main takes the NULL for the end of the file.
Starves ==
  /\ pc' = "close" /\ lost' = TRUE /\ arr' = NoBlock
  /\ UNCHANGED <<fin, capacity, count, list, fout, status>>
MallocFails == pc = "read" /\ ~feof /\ Starves /\ UNCHANGED reading

\* Where a number ends at the end of the file, reading it sets the flag.
Read(p) == pos' = p /\ feof' = (feof \/ p > Len(fin))
FirstNumber ==
  /\ pc = "first"
  /\ IsInt(Skipped(pos))
  /\ Read(Skipped(pos) + 1)
  /\ count' = count + 1
  /\ arr' = [arr EXCEPT ![count + 1] = fin[Skipped(pos)]]
  /\ pc' = "more"
  /\ UNCHANGED <<fin, capacity, list, fout, status, lost>>

NoNumber ==
  /\ pc = "first"
  /\ ~IsInt(Skipped(pos))
  /\ Read(Skipped(pos))
  /\ pc' = "close" /\ arr' = NoBlock
  /\ UNCHANGED <<fin, capacity, count, list, fout, status, lost>>

More == pos <= Len(fin) /\ fin[pos] = Comma /\ IsInt(Skipped(pos + 1))
\* Mutant of BufferFull: one integer too late.
BufferFullLate == count + 1 > capacity
BufferFull == count + 1 >= capacity
NextNumber ==
  /\ pc = "more" /\ More
  /\ Read(Skipped(pos + 1) + 1)
  /\ count' = count + 1
  /\ capacity' = IF BufferFull THEN capacity * 2 ELSE capacity
  /\ arr' = [Resized(capacity') EXCEPT ![count + 1] = fin[Skipped(pos + 1)]]
  /\ UNCHANGED <<fin, pc, list, fout, status, lost>>
ReallocFails ==
  /\ pc = "more" /\ More /\ BufferFull
  /\ Starves
  /\ Read(Skipped(pos + 1) + 1)

\* The rest of the line, and its end.
LineEnd ==
  CHOOSE q \in (pos + 1)..(Len(fin) + 2) :
    /\ q - 1 <= Len(fin) => fin[q - 1] = Newline
    /\ \A r \in pos..(q - 2) : fin[r] # Newline
LastNumber ==
  /\ pc = "more" /\ ~More
  /\ pos' = LineEnd /\ feof' = (feof \/ LineEnd > Len(fin) + 1)
  /\ arr' = [arr EXCEPT ![0] = count]
  /\ pc' = "append"
  /\ UNCHANGED <<fin, capacity, count, list, fout, status, lost>>

-----------------------------------------------------------------------------
(* main *)

\* compute_average and compute_stdev go over arr[1..arr[0]].
Row == [i \in 1..arr[0] |-> arr[i]]
\* Mutant of Linked: the tail is not linked to the new record.
LinkedNever == node
Linked == IF curr = NULL THEN node ELSE [node EXCEPT ![curr].next = Len(node) + 1]
AppendRecord ==
  /\ pc = "append"
  /\ node' = Append(Linked, [row |-> Row, next |-> NULL])
  /\ curr' = Len(node) + 1
  /\ head' = IF head = NULL THEN curr' ELSE head
  /\ arr' = NoBlock
  /\ pc' = "read"
  /\ UNCHANGED <<fin, reading, capacity, count, fout, status, lost>>

AppendFails ==
  /\ pc = "append"
  /\ status' = -3 /\ pc' = "exit"
  /\ UNCHANGED <<fin, reading, buffers, list, fout, lost>>

Open ==
  /\ pc = "close"
  /\ pc' = "write" /\ curr' = head
  /\ UNCHANGED <<fin, reading, buffers, node, head, fout, status, lost>>

OpenFails ==
  /\ pc = "close"
  /\ status' = -3 /\ pc' = "exit" /\ head' = NULL
  /\ UNCHANGED <<fin, reading, buffers, node, curr, fout, lost>>

Write ==
  /\ pc = "write" /\ curr # NULL
  /\ fout' = Append(fout, node[curr].row)
  /\ curr' = node[curr].next
  /\ UNCHANGED <<fin, reading, pc, buffers, node, head, status, lost>>

Return ==
  /\ pc = "write" /\ curr = NULL
  /\ pc' = "exit" /\ head' = NULL
  /\ UNCHANGED <<fin, reading, buffers, node, curr, fout, status, lost>>

\* What fprintf and fclose return is not looked at: when the disk is full the
\* rows from some place on are lost.
ReturnLoses ==
  /\ pc = "write" /\ curr = NULL
  /\ \E n \in 0..Len(fout) : fout' = SubSeq(fout, 1, n)
  /\ lost' = TRUE
  /\ pc' = "exit" /\ head' = NULL
  /\ UNCHANGED <<fin, reading, buffers, node, curr, status>>

Ended == pc = "exit" /\ UNCHANGED vars

Next ==
  \/ Usage \/ OpenInput \/ OpenInputFails
  \/ NoMoreLines \/ Malloc \/ MallocFails \/ FirstNumber \/ NoNumber
  \/ NextNumber \/ ReallocFails \/ LastNumber
  \/ AppendRecord \/ AppendFails \/ Open \/ OpenFails \/ Write \/ Return \/ ReturnLoses
  \/ Ended

Spec == Init /\ [][Next]_vars

-----------------------------------------------------------------------------
(* Properties. *)

\* The buffer always has its capacity, and every number written lies inside.
TypeOK ==
  /\ pos \in 1..(Len(fin) + 2) /\ feof \in BOOLEAN
  /\ pc \in {"start", "read", "first", "more", "append", "close", "write", "exit"}
  /\ pc \in {"first", "more", "append"} =>
       /\ DOMAIN arr = 0..(capacity - 1)
       /\ count < capacity
       /\ \A i \in 1..count : arr[i] # Unset
  /\ head \in 0..Len(node) /\ curr \in 0..Len(node)

\* The numbers from a place to the end of its line, and the rows of the lines
\* that begin at a place or later; blank lines are none.
Numbers[i \in 1..(Len(fin) + 1)] ==
  IF i > Len(fin) \/ fin[i] = Newline THEN <<>>
  ELSE (IF fin[i] = Comma THEN <<>> ELSE <<fin[i]>>) \o Numbers[i + 1]
BeginsLine(i) == i = 1 \/ fin[i - 1] = Newline
Rows[i \in 1..(Len(fin) + 1)] ==
  IF i > Len(fin) THEN <<>>
  ELSE (IF BeginsLine(i) /\ Numbers[i] # <<>> THEN <<Numbers[i]>> ELSE <<>>) \o Rows[i + 1]
FileRows == Rows[1]

\* A run that returns 0 has written rows of the file, from the first on and in
\* order, and all of them if neither memory nor the disk ran out.  If one did,
\* the rest is missing although the run returns 0.
RowsExact ==
  pc = "exit" /\ status = 0 =>
    /\ Len(fout) <= Len(FileRows) /\ fout = SubSeq(FileRows, 1, Len(fout))
    /\ ~lost => fout = FileRows
=============================================================================
