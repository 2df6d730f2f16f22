-------------------------- MODULE MathServerProofs --------------------------
(***************************************************************************)
(* What MathServer guarantees for any number of contexts, any word and     *)
(* queue size and any trace: one thread prints at a time, queues keep      *)
(* their shape however often they double, and the threads implement the    *)
(* sequential servers of SeqServer.                                        *)
(***************************************************************************)
EXTENDS MathServer, FiniteSetTheorems, SequenceTheorems, TLAPS

(* The queues. *)

Operations == OPS \cup {NoOp}
Slots == UNION {[0..(n - 1) -> Operations] : n \in Nat}
Queues == [operations : Slots, size : Nat, capacity : Nat \ {0}, front : Nat, rear : Int]

\* What lies in a queue is contiguous and starts at front: it is filled before
\* it is emptied, so it does not wrap until the last operation is taken out.
QueueOK(q) ==
  /\ q \in Queues
  /\ q.operations \in [0..(q.capacity - 1) -> Operations]
  /\ q.front < q.capacity
  /\ q.front + q.size <= q.capacity
  /\ \/ q.front + q.size = q.rear + 1
     \/ q.size = 0 /\ q.front = 0 /\ q.rear = q.capacity - 1

\* While main fills it nothing has been taken out.
Filling(q) == q.front = 0 /\ q.rear = q.size - 1

(* What is printed. *)

Printed(o, c, v) ==
  Contexts \X {o.type}
    \X ({"none", "open", "comma", "close", v, Fib[v], <<o.arg2, NewValue(o, v)>>}
         \cup {PrimeList(v)[k] : k \in 1..Cardinality(Primes(v))})
AllPieces == UNION {Printed(o, c, v) : o \in Operations, c \in Contexts, v \in Values}

-----------------------------------------------------------------------------
(* The inductive invariant. *)

Shapes ==
  /\ main \in {"load", "create", "join", "closed", "killed"}
  /\ i \in Contexts /\ lines \in 0..MAX_LINES
  /\ context_queues \in [Contexts -> Queues]
  /\ contexts \in [Contexts -> Values]
  /\ log_mutex \in Contexts \cup {Unlocked}
  /\ pc \in [Contexts -> {"absent", "check", "lock", "execute", "print", "done"}]
  /\ op \in [Contexts -> Operations]
  /\ pieces \in [Contexts -> Seq(AllPieces)]
  /\ output \in Seq(AllPieces)

QueueInv == \A c \in Contexts : QueueOK(context_queues[c])

\* Threads start when the queues are full, and end when they are empty.
StageInv ==
  /\ main = "load" => \A c \in Contexts : pc[c] = "absent" /\ Filling(context_queues[c])
  /\ main = "create" => \A c \in Contexts : c >= i => pc[c] = "absent"
  /\ main = "join" => \A c \in Contexts : c < i => pc[c] = "done"
  /\ main = "closed" => \A c \in Contexts : pc[c] = "done"
  /\ \A c \in Contexts : pc[c] = "done" => context_queues[c].size = 0

\* One thread at a time executes and prints, the one that holds the mutex.
MutexInv == \A c \in Contexts : pc[c] \in {"execute", "print"} <=> log_mutex = c

\* Nothing is left to print outside of an operation.
PiecesInv == \A c \in Contexts : pc[c] # "print" => pieces[c] = <<>>

IInv == Shapes /\ QueueInv /\ StageInv /\ MutexInv /\ PiecesInv

-----------------------------------------------------------------------------
LEMMA ModSmall == ASSUME NEW a \in Nat, NEW m \in Nat, a < m PROVE a % m = a
  OBVIOUS

LEMMA ModSelf == ASSUME NEW m \in Nat \ {0} PROVE m % m = 0 /\ (-m) % m = 0
  OBVIOUS

LEMMA ModShape ==
  ASSUME NEW f \in Nat, NEW n \in Nat, NEW r \in Int, NEW m \in Nat \ {0},
         f + n = r + 1 \/ (n = 0 /\ f = 0 /\ r = m - 1)
  PROVE  (f + n - r - 1) % m = 0
<1>1. PICK a : a = f + n - r - 1
  OBVIOUS
<1>2. a = 0 \/ a = -m
  BY <1>1
<1>3. a % m = 0
  BY <1>2, ModSmall, ModSelf
<1> QED
  BY <1>1, <1>3

LEMMA ListOf ==
  ASSUME NEW S, NEW n \in Nat, NEW list \in [1..n -> S]
  PROVE  list \in Seq(S) /\ Len(list) = n
  OBVIOUS

LEMMA ConsList ==
  ASSUME NEW S, NEW s \in Seq(S), NEW x \in S, NEW n \in Nat, Len(s) = n - 1,
         NEW t \in [1..n -> S], t[1] = x, \A k \in 1..(n - 1) : t[k + 1] = s[k]
  PROVE  <<x>> \o s = t
<1>1. <<x>> \o s \in Seq(S) /\ Len(<<x>> \o s) = n /\ t \in Seq(S) /\ Len(t) = n
  BY ListOf
<1>2. \A k \in 1..n : (<<x>> \o s)[k] = t[k]
  <2> TAKE k \in 1..n
  <2>1. CASE k = 1
    BY <2>1
  <2>2. CASE k # 1
    <3>1. k - 1 \in 1..(n - 1) /\ (k - 1) + 1 = k
      BY <2>2
    <3>2. (<<x>> \o s)[k] = s[k - 1]
      BY <2>2
    <3>3. t[(k - 1) + 1] = s[k - 1]
      BY <3>1
    <3> QED
      BY <3>1, <3>2, <3>3
  <2> QED
    BY <2>1, <2>2
<1> QED
  BY <1>1, <1>2

\* Taking the head of one list to the end of another keeps what they say in
\* one piece.
LEMMA MoveHead ==
  ASSUME NEW S, NEW s \in Seq(S), NEW t \in Seq(S), t # <<>>
  PROVE  Append(s, Head(t)) \o Tail(t) = s \o t
<1>1. Len(t) \in Nat /\ 1 \in 1..Len(t) /\ Len(t) \in 1..Len(t) /\ Head(t) = t[1]
  OBVIOUS
<1>2. SubSeq(t, 1, Len(t)) = <<t[1]>> \o SubSeq(t, 1 + 1, Len(t))
  BY <1>1, SubSeqRecursiveFirst
<1>3. t = <<Head(t)>> \o Tail(t)
  BY <1>1, <1>2, SubSeqFull, TailIsSubSeq
<1>4. Head(t) \in S /\ Tail(t) \in Seq(S)
  BY HeadTailProperties
<1>5. Append(s, Head(t)) = s \o <<Head(t)>>
  BY <1>4, AppendIsConcat
<1>6. (s \o <<Head(t)>>) \o Tail(t) = s \o (<<Head(t)>> \o Tail(t))
  <2>1. <<Head(t)>> \in Seq(S)
    BY <1>4
  <2> QED
    BY <1>4, <2>1, ConcatAssociative
<1> QED
  BY <1>3, <1>5, <1>6

LEMMA InitialQueue == QueueOK(EmptyQueue) /\ Filling(EmptyQueue)
<1>1. EmptyQueue.operations \in [0..(SIZE - 1) -> Operations]
  BY SizeAssumption DEF EmptyQueue, Operations
<1>2. EmptyQueue.operations \in Slots
  BY <1>1, SizeAssumption DEF Slots
<1>3. EmptyQueue \in Queues
  BY <1>2, SizeAssumption DEF EmptyQueue, Queues
<1> QED
  BY <1>1, <1>3, SizeAssumption DEF EmptyQueue, QueueOK, Filling

LEMMA FieldTypes ==
  ASSUME NEW q, QueueOK(q)
  PROVE  /\ q.size \in Nat /\ q.capacity \in Nat \ {0} /\ q.front \in Nat /\ q.rear \in Int
         /\ q.operations \in [0..(q.capacity - 1) -> Operations]
         /\ q.front < q.capacity /\ q.front + q.size <= q.capacity
  BY DEF QueueOK, Queues

LEMMA GrownFacts ==
  ASSUME NEW q, QueueOK(q), NEW g, g = Grown(q)
  PROVE  /\ QueueOK(g) /\ g.size < g.capacity
         /\ g.size = q.size /\ g.front = q.front /\ g.rear = q.rear
         /\ g.capacity >= q.capacity
         /\ \A k \in 0..(q.capacity - 1) : g.operations[k] = q.operations[k]
<1>0. q \in Queues /\ q.operations \in [0..(q.capacity - 1) -> Operations]
  BY DEF QueueOK
<1>1. CASE q.size # q.capacity
  BY <1>0, <1>1 DEF Grown, QueueOK, Queues
<1>2. CASE q.size = q.capacity
  <2> DEFINE slots == [k \in 0..(2 * q.capacity - 1) |->
                         IF k < q.capacity THEN q.operations[k] ELSE NoOp]
  <2>1. slots \in [0..(2 * q.capacity - 1) -> Operations]
    BY <1>0 DEF Queues, Operations
  <2>2. slots \in Slots
    BY <1>0, <2>1 DEF Queues, Slots
  <2>3. g = [q EXCEPT !.capacity = 2 * q.capacity, !.operations = slots]
    BY <1>2 DEF Grown
  <2> HIDE DEF slots
  <2>4. PICK w : w = [q EXCEPT !.capacity = 2 * q.capacity]
    OBVIOUS
  <2>5. w \in Queues
    BY <1>0, <2>4 DEF Queues
  <2>6. g = [w EXCEPT !.operations = slots]
    BY <2>3, <2>4
  <2>7. g \in Queues
    BY <2>2, <2>5, <2>6 DEF Queues
  <2>8. /\ g.size = q.size /\ g.front = q.front /\ g.rear = q.rear
        /\ g.capacity = 2 * q.capacity /\ g.operations = slots
    BY <1>0, <2>3 DEF Queues
  <2>9. \A k \in 0..(q.capacity - 1) : slots[k] = q.operations[k]
    BY <1>0 DEF Queues, slots
  <2>10. QueueOK(g)
    BY <1>0, <1>2, <2>1, <2>7, <2>8 DEF Queues, QueueOK
  <2> QED
    BY <1>0, <1>2, <2>8, <2>9, <2>10 DEF Queues
<1> QED
  BY <1>1, <1>2

\* Filling a queue adds one operation at the end of its contents.
LEMMA EnqueueFacts ==
  ASSUME NEW q, QueueOK(q), Filling(q), NEW o \in Operations, NEW r, r = Enqueue(q, o)
  PROVE  QueueOK(r) /\ Filling(r) /\ Contents(r) = Append(Contents(q), o)
<1>1. PICK g : g = Grown(q)
  OBVIOUS
<1>2. /\ QueueOK(g) /\ g.size < g.capacity
      /\ g.size = q.size /\ g.front = q.front /\ g.rear = q.rear
      /\ g.capacity >= q.capacity
      /\ \A k \in 0..(q.capacity - 1) : g.operations[k] = q.operations[k]
  BY <1>1, GrownFacts
<1>3. g \in Queues /\ q \in Queues /\ g.operations \in [0..(g.capacity - 1) -> Operations]
  BY <1>2 DEF QueueOK
<1>0. /\ q.size \in Nat /\ q.capacity \in Nat \ {0} /\ q.front = 0 /\ q.size <= q.capacity
      /\ g.size \in Nat /\ g.capacity \in Nat \ {0} /\ g.size < g.capacity
      /\ q.rear = q.size - 1 /\ g.rear = q.size - 1
  BY <1>2, FieldTypes DEF Filling
<1>4. (g.rear + 1) % g.capacity = g.size
  <2>1. g.rear + 1 = g.size
    BY <1>0, <1>2
  <2> QED
    BY <1>0, <2>1, ModSmall
<1>5. r = [g EXCEPT !.rear = g.size, !.operations = [g.operations EXCEPT ![g.size] = o],
                    !.size = g.size + 1]
  BY <1>1, <1>4 DEF Enqueue
<1>6. PICK slots : slots = [g.operations EXCEPT ![g.size] = o]
  OBVIOUS
<1>7. slots \in [0..(g.capacity - 1) -> Operations] /\ slots \in Slots
  BY <1>3, <1>6 DEF Queues, Slots
<1>8. /\ r \in Queues /\ r.operations = slots /\ r.size = g.size + 1 /\ r.rear = g.size
      /\ r.front = g.front /\ r.capacity = g.capacity
  <2>1. PICK a : a = [g EXCEPT !.rear = g.size]
    OBVIOUS
  <2>2. PICK b : b = [a EXCEPT !.operations = slots]
    OBVIOUS
  <2>3. r = [b EXCEPT !.size = g.size + 1]
    BY <1>5, <1>6, <2>1, <2>2
  <2>4. /\ a \in Queues /\ a.operations = g.operations /\ a.size = g.size /\ a.rear = g.size
        /\ a.front = g.front /\ a.capacity = g.capacity
    BY <1>0, <1>3, <2>1 DEF Queues
  <2>5. /\ b \in Queues /\ b.operations = slots /\ b.size = g.size /\ b.rear = g.size
        /\ b.front = g.front /\ b.capacity = g.capacity
    BY <1>7, <2>2, <2>4 DEF Queues
  <2> QED
    BY <1>0, <2>3, <2>5 DEF Queues
<1>9. QueueOK(r) /\ Filling(r)
  BY <1>2, <1>3, <1>7, <1>8 DEF QueueOK, Filling, Queues
<1>10. \A k \in 1..q.size : (0 + k - 1) % q.capacity = k - 1 /\ q.operations[k - 1] \in Operations
  <2> TAKE k \in 1..q.size
  <2>1. k - 1 \in Nat /\ k - 1 < q.capacity /\ 0 + k - 1 = k - 1
    BY <1>0
  <2>2. q.operations[k - 1] \in Operations
    BY <1>0, <2>1, FieldTypes
  <2> QED
    BY <1>0, <2>1, <2>2, ModSmall
<1>11. Contents(q) = [k \in 1..q.size |-> q.operations[k - 1]]
  BY <1>3, <1>10 DEF Contents, Filling, Queues
<1>12. \A k \in 1..r.size : (0 + k - 1) % r.capacity = k - 1
  <2> TAKE k \in 1..r.size
  <2>1. k - 1 \in Nat /\ k - 1 < r.capacity /\ 0 + k - 1 = k - 1 /\ r.capacity \in Nat
    BY <1>0, <1>8
  <2> QED
    BY <2>1, ModSmall
<1>13. Contents(r) = [k \in 1..(q.size + 1) |-> slots[k - 1]]
  BY <1>2, <1>3, <1>8, <1>12 DEF Contents, Filling, Queues
<1>14. \A k \in 1..q.size : slots[k - 1] = q.operations[k - 1]
  BY <1>2, <1>3, <1>6 DEF QueueOK, Queues
<1>15. slots[q.size] = o
  BY <1>2, <1>3, <1>6 DEF Queues
<1>16. Contents(q) \in Seq(Operations) /\ Len(Contents(q)) = q.size
  BY <1>3, <1>10, <1>11 DEF Queues
<1>17. Append(Contents(q), o) = [k \in 1..(q.size + 1) |-> slots[k - 1]]
  BY <1>3, <1>11, <1>14, <1>15, <1>16 DEF Queues
<1> QED
  BY <1>9, <1>13, <1>17

\* Taking out of a queue removes the first operation of its contents.
LEMMA DequeueFacts ==
  ASSUME NEW q, QueueOK(q), q.size > 0, NEW r, r = Dequeue(q)
  PROVE  /\ QueueOK(r) /\ FrontOf(q) \in Operations
         /\ Contents(q) = <<FrontOf(q)>> \o Contents(r)
         /\ Contents(q) \in Seq(Operations) /\ Contents(r) \in Seq(Operations)
<1>0. /\ q.size \in Nat /\ q.capacity \in Nat \ {0} /\ q.front \in Nat /\ q.rear \in Int
      /\ q.operations \in [0..(q.capacity - 1) -> Operations]
      /\ q.front < q.capacity /\ q.front + q.size <= q.capacity
  BY FieldTypes
<1>1. q \in Queues
  BY DEF QueueOK
<1>2. (q.front + 1) % q.capacity = IF q.front + 1 = q.capacity THEN 0 ELSE q.front + 1
  BY <1>0, ModSmall, ModSelf
<1>3. /\ r \in Queues /\ r.operations = q.operations /\ r.capacity = q.capacity
      /\ r.rear = q.rear /\ r.size = q.size - 1
      /\ r.front = IF q.front + 1 = q.capacity THEN 0 ELSE q.front + 1
  <2>1. PICK n : n = IF q.front + 1 = q.capacity THEN 0 ELSE q.front + 1
    OBVIOUS
  <2>2. n \in Nat /\ q.size - 1 \in Nat
    BY <1>0, <2>1
  <2>3. PICK a : a = [q EXCEPT !.front = n]
    OBVIOUS
  <2>4. r = [a EXCEPT !.size = q.size - 1]
    BY <1>2, <2>1, <2>3 DEF Dequeue
  <2>5. /\ a \in Queues /\ a.operations = q.operations /\ a.size = q.size /\ a.rear = q.rear
        /\ a.front = n /\ a.capacity = q.capacity
    BY <1>1, <2>2, <2>3 DEF Queues
  <2> QED
    BY <2>1, <2>2, <2>4, <2>5 DEF Queues
<1>4. QueueOK(r)
  BY <1>0, <1>3 DEF QueueOK
<1>5. FrontOf(q) \in Operations
  BY <1>0 DEF FrontOf
<1>6. \A k \in 1..q.size : /\ (q.front + k - 1) % q.capacity = q.front + k - 1
                         /\ q.operations[q.front + k - 1] \in Operations
  <2> TAKE k \in 1..q.size
  <2>1. PICK a : a = q.front + k - 1
    OBVIOUS
  <2>2. a \in Nat /\ a < q.capacity /\ a \in 0..(q.capacity - 1)
    BY <1>0, <2>1
  <2>3. a % q.capacity = a
    BY <1>0, <2>2, ModSmall
  <2>4. q.operations[a] \in Operations
    BY <1>0, <2>2
  <2> QED
    BY <2>1, <2>3, <2>4
<1>7. \A k \in 1..r.size : (r.front + k - 1) % r.capacity = q.front + k
  <2> TAKE k \in 1..r.size
  <2>1. q.front + k \in Nat /\ q.front + k < q.capacity /\ r.front = q.front + 1
    BY <1>0, <1>3
  <2>2. r.front + k - 1 = q.front + k
    BY <1>0, <2>1
  <2> QED
    BY <1>0, <1>3, <2>1, <2>2, ModSmall
<1>8. Contents(q) = [k \in 1..q.size |-> q.operations[q.front + k - 1]]
  BY <1>6 DEF Contents
<1>9. Contents(r) = [k \in 1..(q.size - 1) |-> q.operations[q.front + k]]
  BY <1>3, <1>7 DEF Contents
<1>10. /\ Contents(q) \in [1..q.size -> Operations]
       /\ Contents(r) \in [1..(q.size - 1) -> Operations]
  <2>1. \A k \in 1..(q.size - 1) : q.operations[q.front + k] \in Operations
    <3> TAKE k \in 1..(q.size - 1)
    <3>1. q.front + k \in 0..(q.capacity - 1)
      BY <1>0
    <3> QED
      BY <1>0, <3>1
  <2> QED
    BY <1>6, <1>8, <1>9, <2>1
<1>11. /\ Contents(q) \in Seq(Operations)
       /\ Contents(r) \in Seq(Operations) /\ Len(Contents(r)) = q.size - 1
  <2>1. q.size - 1 \in Nat
    BY <1>0
  <2> QED
    BY <1>0, <1>10, <2>1, ListOf
<1>12. Contents(q) = <<FrontOf(q)>> \o Contents(r)
  <2>1. Contents(q)[1] = FrontOf(q)
    <3>1. 1 \in 1..q.size /\ q.front + 1 - 1 = q.front
      BY <1>0
    <3> QED
      BY <1>8, <3>1 DEF FrontOf
  <2>2. \A k \in 1..(q.size - 1) : Contents(q)[k + 1] = Contents(r)[k]
    <3> TAKE k \in 1..(q.size - 1)
    <3>1. k + 1 \in 1..q.size /\ q.front + (k + 1) - 1 = q.front + k
      BY <1>0
    <3> QED
      BY <1>8, <1>9, <3>1
  <2>3. q.size \in Nat
    BY <1>0
  <2> QED
    BY <1>5, <1>10, <1>11, <2>1, <2>2, <2>3, ConsList
<1> QED
  BY <1>4, <1>5, <1>11, <1>12

LEMMA EmptyContents == ASSUME NEW q, q.size = 0 PROVE Contents(q) = <<>>
  BY DEF Contents

LEMMA ContentsList == ASSUME NEW q, QueueOK(q) PROVE Contents(q) \in Seq(Operations)
<1>1. CASE q.size = 0
  <2>1. Contents(q) = <<>>
    BY <1>1, EmptyContents
  <2> QED
    BY <2>1
<1>2. CASE q.size # 0
  <2>1. q.size > 0 /\ Dequeue(q) = Dequeue(q)
    BY <1>2, FieldTypes
  <2> QED
    BY <2>1, DequeueFacts
<1> QED
  BY <1>1, <1>2

-----------------------------------------------------------------------------
(* The operations. *)

LEMMA ArgInValues == ASSUME NEW o \in Operations PROVE o.arg2 \in Values
  BY OpsAssumption, WordAssumption DEF Operations, NoOp, Values

\* A context keeps an unsigned value, whatever wraps.
LEMMA NewValueInValues ==
  ASSUME NEW o \in Operations, ~Traps(o), NEW v \in Values
  PROVE  NewValue(o, v) \in Values
<1>1. PICK a : a = o.arg2
  OBVIOUS
<1>2. a \in Nat /\ v \in Nat /\ WORD \in Nat \ {0} /\ a < WORD /\ v < WORD
  BY <1>1, ArgInValues, WordAssumption DEF Values
<1>3. \A n \in Int : n % WORD \in Values
  BY <1>2 DEF Values
<1>4. v + a \in Int /\ v - a \in Int /\ v * a \in Int
  BY <1>2
<1>5. CASE o.type = "div"
  <2>1. a # 0
    BY <1>1, <1>5 DEF Traps
  <2>2. v \div a \in 0..v
    BY <1>2, <2>1
  <2>3. v \div a \in Values
    BY <1>2, <2>2 DEF Values
  <2> QED
    BY <1>1, <1>5, <2>3 DEF NewValue
<1>6. CASE o.type # "div"
  BY <1>1, <1>2, <1>3, <1>4, <1>6, ArgInValues DEF NewValue
<1> QED
  BY <1>5, <1>6

LEMMA PrimesCount ==
  ASSUME NEW v \in Values, v >= 2
  PROVE  Cardinality(Primes(v)) \in Nat \ {0}
<1>0. v \in Int
  BY WordAssumption DEF Values
<1>1. IsFiniteSet(2..v)
  BY <1>0, FS_Interval
<1>2. IsFiniteSet(Primes(v))
  BY <1>1, FS_Subset DEF Primes
<1>3. 2 \in Primes(v)
  BY <1>0 DEF Primes
<1>4. Primes(v) # {}
  BY <1>3
<1> QED
  BY <1>2, <1>4, FS_CardinalityType, FS_EmptySet

\* What an operation prints is a finite list of pieces.
LEMMA PiecesList ==
  ASSUME NEW o \in Operations, NEW c \in Contexts, NEW v \in Values
  PROVE  Pieces(o, c, v) \in Seq(AllPieces)
<1>1. Printed(o, c, v) \subseteq AllPieces
  BY DEF AllPieces
<1>2. Pieces(o, c, v) \in Seq(Printed(o, c, v))
  <2>0. v \in Int
    BY WordAssumption DEF Values
  <2>1. CASE o.type \in {"set", "add", "sub", "mul", "div"}
    <3>1. <<c, o.type, <<o.arg2, NewValue(o, v)>>>> \in Printed(o, c, v)
      BY DEF Printed
    <3>2. Pieces(o, c, v) = <<<<c, o.type, <<o.arg2, NewValue(o, v)>>>>>>
      BY <2>1 DEF Pieces
    <3> QED
      BY <3>1, <3>2
  <2>2. CASE o.type = "fib"
    <3>1. <<c, o.type, Fib[v]>> \in Printed(o, c, v)
      BY DEF Printed
    <3>2. Pieces(o, c, v) = <<<<c, o.type, Fib[v]>>>>
      BY <2>2 DEF Pieces
    <3> QED
      BY <3>1, <3>2
  <2>3. CASE o.type = "pia"
    <3>1. <<c, o.type, v>> \in Printed(o, c, v)
      BY DEF Printed
    <3>2. Pieces(o, c, v) = <<<<c, o.type, v>>>>
      BY <2>3 DEF Pieces
    <3> QED
      BY <3>1, <3>2
  <2>4. CASE o.type = "pri" /\ v < 2
    <3>1. <<c, o.type, "none">> \in Printed(o, c, v)
      BY DEF Printed
    <3>2. Pieces(o, c, v) = <<<<c, o.type, "none">>>>
      BY <2>0, <2>4 DEF Pieces
    <3> QED
      BY <3>1, <3>2
  <2>5. CASE o.type = "pri" /\ v >= 2
    <3> DEFINE n == Cardinality(Primes(v))
               item(k) == IF k % 2 = 0 THEN "comma" ELSE PrimeList(v)[(k + 1) \div 2]
               primes == [k \in 1..(2 * n - 1) |-> <<c, o.type, item(k)>>]
    <3>1. \A x \in {"open", "comma", "close"} : <<c, o.type, x>> \in Printed(o, c, v)
      BY DEF Printed
    <3>6. n \in Nat \ {0}
      BY <2>5, PrimesCount
    <3>7. ASSUME NEW k \in 1..(2 * n - 1) PROVE <<c, o.type, item(k)>> \in Printed(o, c, v)
      <4>1. CASE k % 2 = 0
        BY <3>1, <4>1
      <4>2. CASE k % 2 # 0
        <5>1. PICK j \in 1..n : j = (k + 1) \div 2
          <6> HIDE DEF n
          <6> QED
            BY <3>6
        <5>2. item(k) = PrimeList(v)[j]
          BY <4>2, <5>1
        <5>3. <<c, o.type, PrimeList(v)[j]>> \in Printed(o, c, v)
          BY DEF Printed
        <5> QED
          BY <5>2, <5>3
      <4> QED
        BY <4>1, <4>2
    <3>2. primes \in [1..(2 * n - 1) -> Printed(o, c, v)]
      BY <3>7
    <3>3. primes \in Seq(Printed(o, c, v))
      <4>1. PICK len \in Nat : len = 2 * n - 1
        <5> HIDE DEF n
        <5> QED
          BY <3>6
      <4>2. primes \in [1..len -> Printed(o, c, v)]
        BY <3>2, <4>1
      <4> HIDE DEF primes
      <4> QED
        BY <4>2, ListOf
    <3>4. Pieces(o, c, v) = <<<<c, o.type, "open">>>> \o primes \o <<<<c, o.type, "close">>>>
      <4>1. o.type = "pri" /\ v >= 2 /\ ~(v < 2)
        BY <2>0, <2>5
      <4>2. /\ o.type \notin {"set", "add", "sub", "mul", "div"} /\ o.type # "fib" /\ o.type # "pia"
            /\ ~(o.type = "pri" /\ v < 2) /\ (o.type = "pri" /\ v >= 2)
        BY <4>1
      <4> QED
        BY ONLY <4>2 DEF Pieces
    <3> HIDE DEF primes
    <3>5. /\ <<<<c, o.type, "open">>>> \in Seq(Printed(o, c, v))
          /\ <<<<c, o.type, "close">>>> \in Seq(Printed(o, c, v))
      BY <3>1
    <3> QED
      BY <3>3, <3>4, <3>5
  <2>6. CASE o.type \notin {"set", "add", "sub", "mul", "div", "fib", "pia", "pri"}
    <3>1. Pieces(o, c, v) = <<>>
      BY <2>6 DEF Pieces
    <3> QED
      BY <3>1
  <2>7. v < 2 \/ v >= 2
    BY WordAssumption DEF Values
  <2> QED
    BY <2>1, <2>2, <2>3, <2>4, <2>5, <2>6, <2>7
<1> QED
  BY <1>1, <1>2

-----------------------------------------------------------------------------
(* The invariant holds. *)

LEMMA InitInv == Init => IInv
<1> SUFFICES ASSUME Init PROVE IInv
  OBVIOUS
<1>1. 0 \in Contexts /\ 0 \in Values
  BY ContextsAssumption, WordAssumption DEF Contexts, Values
<1>2. EmptyQueue \in Queues
  BY InitialQueue DEF QueueOK
<1>3. Shapes
  BY <1>1, <1>2, MaxLinesAssumption DEF Init, Shapes, Operations
<1>4. QueueInv
  BY InitialQueue DEF Init, QueueInv
<1>5. StageInv
  BY InitialQueue DEF Init, StageInv
<1>6. MutexInv
  <2>1. \A c \in Contexts : c # Unlocked
    BY ContextsAssumption DEF Contexts, Unlocked
  <2> QED
    BY <2>1 DEF Init, MutexInv
<1> QED
  BY <1>3, <1>4, <1>5, <1>6 DEF Init, PiecesInv, IInv

\* main moves on to the next thread, or to the next loop.
LEMMA AdvanceFacts ==
  ASSUME i \in Contexts, NEW next, Advance(next)
  PROVE  /\ i' \in Contexts
         /\ \/ main' = next /\ i' = 0 /\ \A c \in Contexts : c <= i
            \/ main' = main /\ i' = i + 1
  BY ContextsAssumption DEF Advance, Contexts

LEMMA ReadLineInv ==
  ASSUME IInv, NEW c \in Contexts, NEW o \in OPS, ReadLine(c, o)
  PROVE  IInv'
<1>1. PICK q : q = Enqueue(context_queues[c], o)
  OBVIOUS
<1>2. QueueOK(q) /\ Filling(q)
  BY <1>1, EnqueueFacts DEF ReadLine, IInv, QueueInv, StageInv, Operations
<1>3. /\ context_queues' = [context_queues EXCEPT ![c] = q] /\ main = "load"
      /\ lines' = lines + 1 /\ lines < MAX_LINES
      /\ UNCHANGED <<main, i, contexts, log_mutex, pc, op, pieces, output>>
  BY <1>1 DEF ReadLine
<1>4. q \in Queues
  BY <1>2 DEF QueueOK
<1>5. \A d \in Contexts : context_queues'[d] = IF d = c THEN q ELSE context_queues[d]
  BY <1>3 DEF IInv, Shapes
<1>6. Shapes'
  BY <1>3, <1>4, MaxLinesAssumption DEF IInv, Shapes
<1>7. QueueInv'
  BY <1>2, <1>5 DEF IInv, QueueInv
<1>8. StageInv'
  BY <1>2, <1>3, <1>5 DEF IInv, StageInv
<1>9. MutexInv' /\ PiecesInv'
  BY <1>3 DEF IInv, MutexInv, PiecesInv
<1> QED
  BY <1>6, <1>7, <1>8, <1>9 DEF IInv

LEMMA MainInv == ASSUME IInv, Main PROVE IInv'
<1> USE DEF IInv
<1>1. CASE EndOfTrace
  BY <1>1 DEF EndOfTrace, Shapes, QueueInv, StageInv, MutexInv, PiecesInv
<1>2. CASE CreateThread
  <2>1. /\ main = "create" /\ pc' = [pc EXCEPT ![i] = "check"] /\ pc[i] = "absent"
        /\ UNCHANGED <<lines, context_queues, contexts, log_mutex, op, pieces, output>>
    BY <1>2, ContextsAssumption DEF CreateThread, Goto, StageInv, Shapes, Contexts
  <2>2. /\ i' \in Contexts
        /\ \/ main' = "join" /\ i' = 0
           \/ main' = main /\ i' = i + 1
    BY <1>2, AdvanceFacts DEF CreateThread, Shapes
  <2>3. \A c \in Contexts : pc'[c] = IF c = i THEN "check" ELSE pc[c]
    BY <2>1 DEF Shapes
  <2>4. Shapes'
    BY <2>1, <2>2 DEF Shapes
  <2>5. StageInv'
    <3>1. main' = "create" => \A c \in Contexts : c >= i' => pc'[c] = "absent"
      BY <2>1, <2>2, <2>3 DEF StageInv, Shapes, Contexts
    <3>2. main' = "join" => \A c \in Contexts : c < i' => pc'[c] = "done"
      BY <2>1, <2>2 DEF Contexts
    <3> QED
      BY <2>1, <2>2, <2>3, <3>1, <3>2 DEF StageInv
  <2>6. MutexInv' /\ PiecesInv'
    BY <2>1, <2>3 DEF MutexInv, PiecesInv, Shapes
  <2> QED
    BY <2>1, <2>4, <2>5, <2>6 DEF QueueInv
<1>3. CASE Join
  <2>1. /\ main = "join" /\ pc[i] = "done"
        /\ UNCHANGED <<lines, context_queues, contexts, log_mutex, pc, op, pieces, output>>
    BY <1>3 DEF Join
  <2>2. /\ i' \in Contexts
        /\ \/ main' = "closed" /\ i' = 0 /\ \A c \in Contexts : c <= i
           \/ main' = main /\ i' = i + 1
    BY <1>3, AdvanceFacts DEF Join, Shapes
  <2>3. \A c \in Contexts : c <= i => pc[c] = "done"
    BY <2>1 DEF StageInv, Shapes, Contexts
  <2>4. Shapes'
    BY <2>1, <2>2 DEF Shapes
  <2>5. StageInv'
    <3>1. main' = "join" => \A c \in Contexts : c < i' => pc[c] = "done"
      BY <2>1, <2>2, <2>3 DEF Shapes, Contexts
    <3> QED
      BY <2>1, <2>2, <2>3, <3>1 DEF StageInv
  <2> QED
    BY <2>1, <2>4, <2>5 DEF QueueInv, MutexInv, PiecesInv
<1> QED
  BY <1>1, <1>2, <1>3 DEF Main

LEMMA TakeInv == ASSUME IInv, NEW c \in Contexts, Take(c) PROVE IInv'
<1>1. PICK q : q = Dequeue(context_queues[c])
  OBVIOUS
<1>2. QueueOK(q) /\ FrontOf(context_queues[c]) \in Operations
  BY <1>1, DequeueFacts DEF Take, IInv, QueueInv
<1>3. /\ context_queues' = [context_queues EXCEPT ![c] = q]
      /\ op' = [op EXCEPT ![c] = FrontOf(context_queues[c])]
      /\ pc' = [pc EXCEPT ![c] = "lock"] /\ pc[c] = "check" /\ main # "killed"
      /\ UNCHANGED <<main, i, lines, contexts, log_mutex, pieces, output>>
  BY <1>1 DEF Take, Goto, server, Alive
<1>4. q \in Queues
  BY <1>2 DEF QueueOK
<1>5. \A d \in Contexts : /\ context_queues'[d] = IF d = c THEN q ELSE context_queues[d]
                          /\ pc'[d] = IF d = c THEN "lock" ELSE pc[d]
  BY <1>3 DEF IInv, Shapes
<1>6. Shapes'
  BY <1>2, <1>3, <1>4 DEF IInv, Shapes
<1>7. QueueInv'
  BY <1>2, <1>5 DEF IInv, QueueInv
<1>8. StageInv'
  BY <1>3, <1>5 DEF IInv, StageInv
<1>9. MutexInv' /\ PiecesInv'
  BY <1>3, <1>5 DEF IInv, MutexInv, PiecesInv
<1> QED
  BY <1>6, <1>7, <1>8, <1>9 DEF IInv

\* A step of a running thread that leaves its queue alone.
LEMMA ThreadFrame ==
  ASSUME IInv, NEW c \in Contexts, pc[c] \notin {"absent", "done"},
         NEW label \in {"check", "lock", "execute", "print", "done"},
         label = "done" => context_queues[c].size = 0,
         pc' = [pc EXCEPT ![c] = label],
         UNCHANGED <<main, i, lines, context_queues>>
  PROVE  /\ QueueInv' /\ StageInv'
         /\ \A d \in Contexts : pc'[d] = IF d = c THEN label ELSE pc[d]
<1>1. \A d \in Contexts : pc'[d] = IF d = c THEN label ELSE pc[d]
  BY DEF IInv, Shapes
<1>2. StageInv'
  BY <1>1 DEF IInv, StageInv
<1> QED
  BY <1>1, <1>2 DEF IInv, QueueInv

LEMMA ThreadInv == ASSUME IInv, NEW c \in Contexts, Thread(c) PROVE IInv'
<1>0. \A d \in Contexts : d # Unlocked
  BY ContextsAssumption DEF Contexts, Unlocked
<1>1. CASE Finish(c)
  <2>1. /\ pc' = [pc EXCEPT ![c] = "done"] /\ pc[c] = "check" /\ context_queues[c].size = 0
        /\ UNCHANGED <<main, i, lines, context_queues, contexts, log_mutex, op, pieces, output>>
    BY <1>1 DEF Finish, Goto, server
  <2>2. /\ QueueInv' /\ StageInv'
        /\ \A d \in Contexts : pc'[d] = IF d = c THEN "done" ELSE pc[d]
    BY <2>1, ThreadFrame
  <2>3. Shapes'
    BY <2>1 DEF IInv, Shapes
  <2> QED
    BY <2>1, <2>2, <2>3 DEF IInv, MutexInv, PiecesInv
<1>2. CASE Lock(c)
  <2>1. /\ pc' = [pc EXCEPT ![c] = "execute"] /\ pc[c] = "lock"
        /\ log_mutex = Unlocked /\ log_mutex' = c
        /\ UNCHANGED <<main, i, lines, context_queues, contexts, op, pieces, output>>
    BY <1>2 DEF Lock, Goto, server
  <2>2. /\ QueueInv' /\ StageInv'
        /\ \A d \in Contexts : pc'[d] = IF d = c THEN "execute" ELSE pc[d]
    BY <2>1, ThreadFrame
  <2>3. Shapes'
    BY <2>1 DEF IInv, Shapes
  <2>4. MutexInv' /\ PiecesInv'
    BY <1>0, <2>1, <2>2 DEF IInv, MutexInv, PiecesInv
  <2> QED
    BY <2>2, <2>3, <2>4 DEF IInv
<1>3. CASE Execute(c)
  <2>1. /\ pc' = [pc EXCEPT ![c] = "print"] /\ pc[c] = "execute" /\ ~Traps(op[c])
        /\ contexts' = [contexts EXCEPT ![c] = NewValue(op[c], contexts[c])]
        /\ pieces' = [pieces EXCEPT ![c] = Pieces(op[c], c, contexts[c])]
        /\ UNCHANGED <<main, i, lines, context_queues, log_mutex, op, output>>
    BY <1>3 DEF Execute, Goto, server
  <2>2. /\ QueueInv' /\ StageInv'
        /\ \A d \in Contexts : pc'[d] = IF d = c THEN "print" ELSE pc[d]
    BY <2>1, ThreadFrame
  <2>3. op[c] \in Operations /\ contexts[c] \in Values
    BY DEF IInv, Shapes
  <2>4. Pieces(op[c], c, contexts[c]) \in Seq(AllPieces) /\ NewValue(op[c], contexts[c]) \in Values
    BY <2>1, <2>3, PiecesList, NewValueInValues
  <2>5. Shapes'
    BY <2>1, <2>4 DEF IInv, Shapes
  <2>6. MutexInv' /\ PiecesInv'
    BY <2>1, <2>2 DEF IInv, MutexInv, PiecesInv, Shapes
  <2> QED
    BY <2>2, <2>5, <2>6 DEF IInv
<1>4. CASE Trap(c)
  <2>1. /\ main' = "killed" /\ UNCHANGED <<i, lines, context_queues, contexts, log_mutex, pc, op, pieces>>
        /\ output' \in {SubSeq(output, 1, k) : k \in 0..Len(output)}
    BY <1>4 DEF Trap
  <2>2. output' \in Seq(AllPieces)
    <3>1. PICK k \in 0..Len(output) : output' = SubSeq(output, 1, k)
      BY <2>1
    <3>2. output \in Seq(AllPieces)
      BY DEF IInv, Shapes
    <3> QED
      BY <3>1, <3>2
  <2> QED
    BY <2>1, <2>2 DEF IInv, Shapes, QueueInv, StageInv, MutexInv, PiecesInv
<1>5. CASE Emit(c)
  <2>1. /\ pc[c] = "print" /\ pieces[c] # <<>>
        /\ output' = Append(output, Head(pieces[c]))
        /\ pieces' = [pieces EXCEPT ![c] = Tail(pieces[c])]
        /\ UNCHANGED <<main, i, lines, context_queues, contexts, log_mutex, pc, op>>
    BY <1>5 DEF Emit, server
  <2>2. pieces[c] \in Seq(AllPieces) /\ output \in Seq(AllPieces)
    BY DEF IInv, Shapes
  <2>3. output' \in Seq(AllPieces) /\ Tail(pieces[c]) \in Seq(AllPieces)
    BY <2>1, <2>2
  <2>4. Shapes'
    BY <2>1, <2>3 DEF IInv, Shapes
  <2>5. PiecesInv'
    BY <2>1 DEF IInv, PiecesInv, Shapes
  <2> QED
    BY <2>1, <2>4, <2>5 DEF IInv, QueueInv, StageInv, MutexInv
<1>6. CASE Unlock(c)
  <2>1. /\ pc' = [pc EXCEPT ![c] = "check"] /\ pc[c] = "print" /\ pieces[c] = <<>>
        /\ log_mutex' = Unlocked /\ op' = [op EXCEPT ![c] = NoOp]
        /\ UNCHANGED <<main, i, lines, context_queues, contexts, pieces, output>>
    BY <1>6 DEF Unlock, MayUnlock, Released, Goto, server
  <2>2. /\ QueueInv' /\ StageInv'
        /\ \A d \in Contexts : pc'[d] = IF d = c THEN "check" ELSE pc[d]
    BY <2>1, ThreadFrame
  <2>3. Shapes'
    BY <2>1 DEF IInv, Shapes, Operations
  <2>4. MutexInv' /\ PiecesInv'
    BY <1>0, <2>1, <2>2 DEF IInv, MutexInv, PiecesInv
  <2> QED
    BY <2>2, <2>3, <2>4 DEF IInv
<1> QED
  BY <1>1, <1>2, <1>3, <1>4, <1>5, <1>6, TakeInv DEF Thread

LEMMA Inductive == Spec => []IInv
<1>1. IInv /\ [Next]_vars => IInv'
  <2> SUFFICES ASSUME IInv, [Next]_vars PROVE IInv'
    OBVIOUS
  <2>1. CASE UNCHANGED vars
    BY <2>1 DEF vars, server, IInv, Shapes, QueueInv, StageInv, MutexInv, PiecesInv
  <2> QED
    BY <2>1, MainInv, ThreadInv, ReadLineInv DEF Next, Ended
<1> QED
  BY InitInv, <1>1, PTL DEF Spec

-----------------------------------------------------------------------------
(* The theorems. *)

\* The server's globals keep their types, and the shape of its queues: front,
\* rear and size agree however often a queue has doubled.
THEOREM TypeCorrect == Spec => []TypeOK
<1>1. IInv => TypeOK
  <2> SUFFICES ASSUME IInv PROVE TypeOK
    OBVIOUS
  <2>1. ASSUME NEW c \in Contexts
        PROVE  LET q == context_queues[c] IN
               /\ q.size \in 0..q.capacity /\ q.front \in 0..(q.capacity - 1)
               /\ DOMAIN q.operations = 0..(q.capacity - 1)
               /\ (q.front + q.size - q.rear - 1) % q.capacity = 0
    <3>1. PICK q : q = context_queues[c]
      OBVIOUS
    <3>2. QueueOK(q)
      BY <3>1 DEF IInv, QueueInv
    <3>3. /\ q.size \in Nat /\ q.capacity \in Nat \ {0} /\ q.front \in Nat /\ q.rear \in Int
          /\ q.operations \in [0..(q.capacity - 1) -> Operations]
          /\ q.front < q.capacity /\ q.front + q.size <= q.capacity
      BY <3>2, FieldTypes
    <3>4. \/ q.front + q.size = q.rear + 1
          \/ q.size = 0 /\ q.front = 0 /\ q.rear = q.capacity - 1
      BY <3>2 DEF QueueOK
    <3>5. (q.front + q.size - q.rear - 1) % q.capacity = 0
      BY <3>3, <3>4, ModShape
    <3> QED
      BY <3>1, <3>3, <3>5
  <2> QED
    BY <2>1 DEF IInv, Shapes, TypeOK
<1> QED
  BY Inductive, <1>1, PTL

-----------------------------------------------------------------------------
\* What a thread has still to do begins with the operation it has taken.
LEMMA TodoFacts ==
  ASSUME IInv, NEW c \in Contexts
  PROVE  /\ pc[c] \in {"lock", "execute"} => Todo(c) = <<op[c]>> \o Contents(context_queues[c])
         /\ pc[c] \notin {"lock", "execute"} => Todo(c) = Contents(context_queues[c])
         /\ Todo(c) \in Seq(Operations) /\ Contents(context_queues[c]) \in Seq(Operations)
<1>1. QueueOK(context_queues[c]) /\ op[c] \in Operations
  BY DEF IInv, QueueInv, Shapes
<1>2. Contents(context_queues[c]) \in Seq(Operations)
  BY <1>1, ContentsList
<1> QED
  BY <1>1, <1>2 DEF Todo

LEMMA TodoNext ==
  ASSUME IInv', NEW c \in Contexts
  PROVE  /\ pc'[c] \in {"lock", "execute"} => Todo(c)' = <<op'[c]>> \o Contents(context_queues'[c])
         /\ pc'[c] \notin {"lock", "execute"} => Todo(c)' = Contents(context_queues'[c])
<1>1. QueueOK(context_queues'[c]) /\ op'[c] \in Operations
  BY DEF IInv, QueueInv, Shapes
<1>2. Contents(context_queues'[c]) \in Seq(Operations)
  BY <1>1, ContentsList
<1>3. Todo(c)' = (IF pc'[c] \in {"lock", "execute"} THEN <<op'[c]>> ELSE <<>>)
                    \o Contents(context_queues'[c])
  BY DEF Todo, Contents
<1> QED
  BY <1>1, <1>2, <1>3

LEMMA PrintingFacts ==
  ASSUME IInv
  PROVE  /\ Printing \in Seq(AllPieces) /\ output \in Seq(AllPieces)
         /\ output \o Printing \in Seq(AllPieces)
         /\ \A c \in Contexts : log_mutex = c /\ main # "killed" => Printing = pieces[c]
         /\ log_mutex = Unlocked => Printing = <<>>
<1>0. \A c \in Contexts : c # Unlocked
  BY ContextsAssumption DEF Contexts, Unlocked
<1>1. output \in Seq(AllPieces) /\ log_mutex \in Contexts \cup {Unlocked}
      /\ \A c \in Contexts : pieces[c] \in Seq(AllPieces)
  BY DEF IInv, Shapes
<1>2. Printing \in Seq(AllPieces)
  BY <1>1 DEF Printing
<1> QED
  BY <1>0, <1>1, <1>2 DEF Printing

LEMMA RefineInit == Init => SS!Init
<1> SUFFICES ASSUME Init PROVE SS!Init
  OBVIOUS
<1>1. \A c \in Contexts : Todo(c) = <<>>
  <2> TAKE c \in Contexts
  <2>1. context_queues[c] = EmptyQueue /\ pc[c] = "absent"
    BY DEF Init
  <2>2. Contents(context_queues[c]) = <<>>
    BY <2>1, EmptyContents DEF EmptyQueue
  <2> QED
    BY <2>1, <2>2 DEF Todo
<1>2. output \o Printing = <<>>
  BY DEF Init, Printing
<1> QED
  BY <1>1, <1>2 DEF Init, SS!Init

\* Submit: what main enqueues.
LEMMA ReadLineRefines ==
  ASSUME IInv, NEW c \in Contexts, NEW o \in OPS, ReadLine(c, o)
  PROVE  SS!Submit(c, o)
<1>1. PICK q : q = Enqueue(context_queues[c], o)
  OBVIOUS
<1>2. Contents(q) = Append(Contents(context_queues[c]), o)
  BY <1>1, EnqueueFacts DEF ReadLine, IInv, QueueInv, StageInv, Operations
<1>3. /\ context_queues' = [context_queues EXCEPT ![c] = q] /\ main = "load" /\ main' = main
      /\ UNCHANGED <<contexts, log_mutex, pc, op, pieces, output>>
  BY <1>1 DEF ReadLine
<1>4. \A d \in Contexts : /\ context_queues'[d] = IF d = c THEN q ELSE context_queues[d]
                          /\ pc[d] = "absent"
  BY <1>3 DEF IInv, Shapes, StageInv
<1>5. \A d \in Contexts : Todo(d)' = IF d = c THEN Append(Todo(d), o) ELSE Todo(d)
  <2> TAKE d \in Contexts
  <2>1. Todo(d)' = Contents(context_queues'[d]) /\ Todo(d) = Contents(context_queues[d])
    <3>1. IInv'
      BY ReadLineInv
    <3>2. pc'[d] = "absent" /\ pc[d] = "absent"
      BY <1>3, <1>4
    <3>3. Todo(d) = Contents(context_queues[d])
      BY <1>4, TodoFacts
    <3>4. Todo(d)' = Contents(context_queues'[d])
      BY <3>1, <3>2, TodoNext
    <3> QED
      BY <3>3, <3>4
  <2> QED
    BY <1>2, <1>4, <2>1
<1>6. Printing' = Printing
  BY <1>3 DEF Printing
<1> QED
  BY <1>3, <1>5, <1>6 DEF SS!Submit

\* Steps that neither take an operation nor execute one leave what is to do.
LEMMA TodoSame ==
  ASSUME NEW c \in Contexts, UNCHANGED context_queues, op'[c] = op[c],
         pc'[c] \in {"lock", "execute"} <=> pc[c] \in {"lock", "execute"}
  PROVE  Todo(c)' = Todo(c)
  BY DEF Todo, Contents

LEMMA MainRefines == ASSUME IInv, Main PROVE SS!Next \/ UNCHANGED SS!vars
<1>1. CASE EndOfTrace
  <2>1. /\ main = "load" /\ main' = "create" /\ \A c \in Contexts : pc[c] = "absent"
        /\ UNCHANGED <<context_queues, contexts, log_mutex, pc, op, pieces, output>>
    BY <1>1 DEF EndOfTrace, IInv, StageInv
  <2>2. \A c \in Contexts : Todo(c)' = Todo(c)
    BY <2>1, TodoSame
  <2>3. Printing' = Printing
    BY <2>1 DEF Printing
  <2>4. SS!Serve
    BY <2>1, <2>2, <2>3 DEF SS!Serve
  <2> QED
    BY <2>4 DEF SS!Next
<1>2. CASE CreateThread
  <2>1. /\ main = "create" /\ pc' = [pc EXCEPT ![i] = "check"] /\ pc[i] = "absent"
        /\ UNCHANGED <<context_queues, contexts, log_mutex, op, pieces, output>>
    BY <1>2, ContextsAssumption DEF CreateThread, Goto, IInv, StageInv, Shapes, Contexts
  <2>2. main' \in {"create", "join"}
    BY <1>2, <2>1, AdvanceFacts DEF CreateThread, IInv, Shapes
  <2>3. \A c \in Contexts : Todo(c)' = Todo(c)
    BY <2>1, TodoSame DEF IInv, Shapes
  <2>4. Printing' = Printing
    BY <2>1, <2>2 DEF Printing
  <2> QED
    BY <2>1, <2>2, <2>3, <2>4 DEF SS!vars
<1>3. CASE Join
  <2>1. /\ main = "join" /\ pc[i] = "done" /\ i \in Contexts
        /\ UNCHANGED <<context_queues, contexts, log_mutex, pc, op, pieces, output>>
    BY <1>3 DEF Join, IInv, Shapes
  <2>2. \A c \in Contexts : Todo(c)' = Todo(c)
    BY <2>1, TodoSame
  <2>3. CASE main' = "closed"
    <3>1. \A c \in Contexts : c <= i
      BY <1>3, <2>1, <2>3, AdvanceFacts DEF Join
    <3>2. \A c \in Contexts : pc[c] = "done"
      BY <2>1, <3>1 DEF IInv, StageInv, Contexts
    <3>3. \A c \in Contexts : Todo(c) = <<>>
      <4> TAKE c \in Contexts
      <4>1. Contents(context_queues[c]) = <<>>
        BY <3>2, EmptyContents DEF IInv, StageInv
      <4> QED
        BY <3>2, <4>1, TodoFacts
    <3>4. Printing' = Printing
      BY <2>1, <2>3 DEF Printing
    <3>5. SS!Close
      BY <2>1, <2>2, <2>3, <3>3, <3>4 DEF SS!Close
    <3> QED
      BY <3>5 DEF SS!Next
  <2>4. CASE main' = main
    <3>1. Printing' = Printing
      BY <2>1, <2>4 DEF Printing
    <3> QED
      BY <2>1, <2>2, <2>4, <3>1 DEF SS!vars
  <2> QED
    BY <1>3, <2>1, <2>3, <2>4, AdvanceFacts DEF Join
<1> QED
  BY <1>1, <1>2, <1>3 DEF Main

\* Taking an operation out of the queue moves it within what is to do.
LEMMA TakeRefines == ASSUME IInv, NEW c \in Contexts, Take(c) PROVE UNCHANGED SS!vars
<1>1. PICK q : q = context_queues[c]
  OBVIOUS
<1>2. PICK r : r = Dequeue(q)
  OBVIOUS
<1>3. QueueOK(q) /\ q.size > 0
  BY <1>1 DEF Take, IInv, QueueInv
<1>4. /\ Contents(q) = <<FrontOf(q)>> \o Contents(r)
  BY <1>2, <1>3, DequeueFacts
<1>5. /\ context_queues' = [context_queues EXCEPT ![c] = r]
      /\ op' = [op EXCEPT ![c] = FrontOf(q)]
      /\ pc' = [pc EXCEPT ![c] = "lock"] /\ pc[c] = "check"
      /\ UNCHANGED <<main, contexts, log_mutex, pieces, output>>
  BY <1>1, <1>2 DEF Take, Goto, server
<1>6. /\ context_queues'[c] = r /\ op'[c] = FrontOf(q) /\ pc'[c] = "lock"
      /\ \A d \in Contexts : d # c => /\ context_queues'[d] = context_queues[d]
                                      /\ op'[d] = op[d] /\ pc'[d] = pc[d]
  BY <1>5 DEF IInv, Shapes
<1>7. IInv'
  BY TakeInv
<1>8. Todo(c)' = Todo(c)
  BY <1>1, <1>4, <1>5, <1>6, <1>7, TodoFacts, TodoNext
<1>9. \A d \in Contexts : d # c => Todo(d)' = Todo(d)
  BY <1>6 DEF Todo, Contents
<1>10. Printing' = Printing
  BY <1>5 DEF Printing
<1> QED
  BY <1>5, <1>8, <1>9, <1>10 DEF SS!vars

\* The operation takes effect, and its whole output appears, in one step.
LEMMA ExecuteRefines == ASSUME IInv, NEW c \in Contexts, Execute(c) PROVE SS!Step(c)
<1>1. /\ pc' = [pc EXCEPT ![c] = "print"] /\ pc[c] = "execute" /\ ~Traps(op[c])
      /\ contexts' = [contexts EXCEPT ![c] = NewValue(op[c], contexts[c])]
      /\ pieces' = [pieces EXCEPT ![c] = Pieces(op[c], c, contexts[c])]
      /\ main # "killed" /\ UNCHANGED <<main, context_queues, log_mutex, op, output>>
  BY DEF Execute, Goto, server, Alive
<1>2. main \in {"create", "join"}
  BY <1>1 DEF IInv, Shapes, StageInv
<1>3. log_mutex = c
  BY <1>1 DEF IInv, MutexInv
<1>4. pieces[c] = <<>>
  BY <1>1 DEF IInv, PiecesInv
<1>5. IInv'
  BY ThreadInv DEF Thread
<1>6. Printing = <<>> /\ Printing' = Pieces(op[c], c, contexts[c])
  <2>1. c # Unlocked
    BY ContextsAssumption DEF Contexts, Unlocked
  <2>2. pieces'[c] = Pieces(op[c], c, contexts[c])
    BY <1>1 DEF IInv, Shapes
  <2> QED
    BY <1>1, <1>3, <1>4, <2>1, <2>2 DEF Printing
<1>7. output' \o Printing' = (output \o Printing) \o Pieces(op[c], c, contexts[c])
  <2>1. output \in Seq(AllPieces)
    BY DEF IInv, Shapes
  <2> QED
    BY <1>1, <1>6, <2>1
<1>8. pc'[c] = "print" /\ \A d \in Contexts : d # c => pc'[d] = pc[d]
  BY <1>1 DEF IInv, Shapes
<1>9. op[c] \in Operations /\ Contents(context_queues[c]) \in Seq(Operations)
  BY TodoFacts DEF IInv, Shapes
<1>10. /\ Todo(c) = <<op[c]>> \o Contents(context_queues[c])
       /\ Todo(c)' = Contents(context_queues[c])
  BY <1>1, <1>5, <1>8, TodoFacts, TodoNext
<1>11. /\ Todo(c) # <<>> /\ Head(Todo(c)) = op[c] /\ Todo(c)' = Tail(Todo(c))
  BY <1>9, <1>10
<1>12. \A d \in Contexts : d # c => Todo(d)' = Todo(d)
  BY <1>1, <1>8, TodoSame
<1> QED
  BY <1>1, <1>2, <1>7, <1>11, <1>12 DEF SS!Step

LEMMA TrapRefines == ASSUME IInv, NEW c \in Contexts, Trap(c) PROVE SS!Kill
<1>1. /\ pc[c] = "execute" /\ Traps(op[c]) /\ main # "killed" /\ main' = "killed"
      /\ UNCHANGED <<contexts, context_queues, log_mutex, pc, op, pieces>>
      /\ output' \in {SubSeq(output, 1, k) : k \in 0..Len(output)}
  BY DEF Trap, Alive
<1>2. main \in {"create", "join"}
  BY <1>1 DEF IInv, Shapes, StageInv
<1>3. op[c] \in Operations /\ Contents(context_queues[c]) \in Seq(Operations)
  BY TodoFacts DEF IInv, Shapes
<1>4. Todo(c) = <<op[c]>> \o Contents(context_queues[c])
  BY <1>1, TodoFacts
<1>5. Todo(c) # <<>> /\ Head(Todo(c)) = op[c]
  BY <1>3, <1>4
<1>6. \A d \in Contexts : Todo(d)' = Todo(d)
  BY <1>1, TodoSame
<1>7. Printing = <<>> /\ Printing' = <<>>
  <2>1. log_mutex = c /\ pieces[c] = <<>>
    BY <1>1 DEF IInv, MutexInv, PiecesInv
  <2> QED
    BY <1>1, <2>1 DEF Printing
<1>8. output \o Printing = output /\ output' \o Printing' = output'
  <2>1. output \in Seq(AllPieces) /\ output' \in Seq(AllPieces)
    <3>1. IInv'
      BY ThreadInv DEF Thread
    <3> QED
      BY <3>1 DEF IInv, Shapes
  <2> QED
    BY <1>7, <2>1
<1> QED
  BY <1>1, <1>2, <1>5, <1>6, <1>8 DEF SS!Kill

\* Printing a piece was seen before; the mutex is released when all are out.
LEMMA EmitRefines == ASSUME IInv, NEW c \in Contexts, Emit(c) PROVE UNCHANGED SS!vars
<1>1. /\ pc[c] = "print" /\ pieces[c] # <<>> /\ main # "killed"
      /\ output' = Append(output, Head(pieces[c]))
      /\ pieces' = [pieces EXCEPT ![c] = Tail(pieces[c])]
      /\ UNCHANGED <<main, context_queues, contexts, log_mutex, pc, op>>
  BY DEF Emit, server, Alive
<1>2. log_mutex = c /\ c # Unlocked
  BY <1>1, ContextsAssumption DEF IInv, MutexInv, Contexts, Unlocked
<1>3. pieces[c] \in Seq(AllPieces) /\ output \in Seq(AllPieces) /\ pieces'[c] = Tail(pieces[c])
  BY <1>1 DEF IInv, Shapes
<1>4. Printing = pieces[c] /\ Printing' = Tail(pieces[c])
  BY <1>1, <1>2, <1>3 DEF Printing
<1>5. output' \o Printing' = output \o Printing
  BY <1>1, <1>3, <1>4, MoveHead
<1>6. \A d \in Contexts : Todo(d)' = Todo(d)
  BY <1>1, TodoSame
<1> QED
  BY <1>1, <1>5, <1>6 DEF SS!vars

LEMMA ThreadRefines ==
  ASSUME IInv, NEW c \in Contexts, Thread(c) PROVE SS!Next \/ UNCHANGED SS!vars
<1>1. CASE Finish(c) \/ Lock(c)
  <2>1. /\ UNCHANGED <<main, context_queues, contexts, op, pieces, output>>
        /\ \/ pc[c] = "check" /\ pc' = [pc EXCEPT ![c] = "done"] /\ log_mutex' = log_mutex
           \/ /\ pc[c] = "lock" /\ pc' = [pc EXCEPT ![c] = "execute"]
              /\ log_mutex = Unlocked /\ log_mutex' = c
    BY <1>1 DEF Finish, Lock, Goto, server
  <2>2. \A d \in Contexts : Todo(d)' = Todo(d)
    BY <2>1, TodoSame DEF IInv, Shapes
  <2>3. Printing' = Printing
    <3>1. pc[c] = "lock" => pieces[c] = <<>>
      BY DEF IInv, PiecesInv
    <3> QED
      BY <2>1, <3>1 DEF Printing
  <2> QED
    BY <2>1, <2>2, <2>3 DEF SS!vars
<1>2. CASE Unlock(c)
  <2>1. /\ pc' = [pc EXCEPT ![c] = "check"] /\ pc[c] = "print" /\ pieces[c] = <<>>
        /\ log_mutex' = Unlocked /\ op' = [op EXCEPT ![c] = NoOp]
        /\ UNCHANGED <<main, context_queues, contexts, pieces, output>>
    BY <1>2 DEF Unlock, MayUnlock, Released, Goto, server
  <2>2. log_mutex = c
    BY <2>1 DEF IInv, MutexInv
  <2>3. Printing = <<>> /\ Printing' = <<>>
    BY <2>1, <2>2 DEF Printing
  <2>4. pc'[c] = "check" /\ \A d \in Contexts : d # c => pc'[d] = pc[d] /\ op'[d] = op[d]
    BY <2>1 DEF IInv, Shapes
  <2>5. \A d \in Contexts : d # c => Todo(d)' = Todo(d)
    BY <2>1, <2>4, TodoSame
  <2>6. Todo(c)' = Todo(c)
    <3>1. IInv'
      BY <1>2, ThreadInv DEF Thread
    <3> QED
      BY <2>1, <2>4, <3>1, TodoFacts, TodoNext
  <2> QED
    BY <2>1, <2>3, <2>5, <2>6 DEF SS!vars
<1>3. CASE Execute(c) \/ Trap(c)
  BY <1>3, ExecuteRefines, TrapRefines DEF SS!Next
<1> QED
  BY <1>1, <1>2, <1>3, TakeRefines, EmitRefines DEF Thread

LEMMA RefineStep == IInv /\ [Next]_vars => [SS!Next]_(SS!vars)
<1> SUFFICES ASSUME IInv, [Next]_vars PROVE SS!Next \/ UNCHANGED SS!vars
  OBVIOUS
<1>1. CASE UNCHANGED vars
  <2>1. UNCHANGED <<main, context_queues, contexts, log_mutex, pc, op, pieces, output>>
    BY <1>1 DEF vars, server
  <2>2. \A d \in Contexts : Todo(d)' = Todo(d)
    BY <2>1, TodoSame
  <2>3. Printing' = Printing
    BY <2>1 DEF Printing
  <2> QED
    BY <2>1, <2>2, <2>3 DEF SS!vars
<1>2. ASSUME NEW c \in Contexts, NEW o \in OPS, ReadLine(c, o) PROVE SS!Next
  BY <1>2, ReadLineRefines DEF SS!Next
<1> QED
  BY <1>1, <1>2, MainRefines, ThreadRefines DEF Next, Ended

\* The threads implement the sequential servers for any number of contexts:
\* program order in each, whole results in the log, a complete log at the end.
THEOREM ServesSequentially == Spec => Sequential
<1>1. IInv /\ [Next]_vars => [SS!Next]_(SS!vars)
  BY RefineStep
<1> QED
  BY RefineInit, Inductive, <1>1, PTL DEF Spec, Sequential, SS!Spec

=============================================================================
