----------------------------- MODULE MathServer -----------------------------
(***************************************************************************)
(* lab07-Group12/mathserver.c: the main thread reads a trace into one      *)
(* queue per context, then starts a thread per context that executes its   *)
(* queue under log_mutex, and joins them all before it closes the log.     *)
(***************************************************************************)
EXTENDS MathOps

CONSTANTS
  SIZE,       \* capacity a queue starts with
  MAX_LINES   \* bound: lines of a trace

ASSUME SizeAssumption == SIZE \in Nat \ {0}
ASSUME MaxLinesAssumption == MAX_LINES \in Nat

VARIABLES
  main,            \* "load", "create", "join", "closed" or "killed"
  i,               \* main's loop index over the threads
  lines,           \* lines read
  context_queues,  \* context -> queue
  contexts,        \* context -> value
  log_mutex,       \* the context whose thread holds it, or Unlocked
  pc,              \* context -> where its thread is
  op,              \* context -> the operation its thread holds
  pieces,          \* context -> what the fprintf calls of the operation still print
  output           \* the log, piece by piece

server == <<main, i, lines>>
vars == <<server, context_queues, contexts, log_mutex, pc, op, pieces, output>>

Unlocked == -1
NoOp == [type |-> "none", arg2 |-> 0]

-----------------------------------------------------------------------------
(* The queues: rings that double when full. *)

EmptyQueue == [operations |-> [k \in 0..(SIZE - 1) |-> NoOp], size |-> 0, capacity |-> SIZE,
               front |-> 0, rear |-> -1]

\* Mutant of Grown: a full queue overwrites its oldest operation.
GrownNever(q) == q
\* realloc keeps the slots where they are; the new ones are uninitialised.
Grown(q) ==
  IF q.size = q.capacity
  THEN [q EXCEPT !.capacity = 2 * @,
                 !.operations = [k \in 0..(2 * q.capacity - 1) |->
                                   IF k < q.capacity THEN q.operations[k] ELSE NoOp]]
  ELSE q

Enqueue(queue, o) ==
  LET q == Grown(queue)
      rear == (q.rear + 1) % q.capacity
  IN [q EXCEPT !.rear = rear, !.operations[rear] = o, !.size = @ + 1]

FrontOf(q) == q.operations[q.front]
Dequeue(q) == [q EXCEPT !.front = (@ + 1) % q.capacity, !.size = @ - 1]

-----------------------------------------------------------------------------
Init ==
  /\ main = "load" /\ i = 0 /\ lines = 0
  /\ context_queues = [c \in Contexts |-> EmptyQueue]
  /\ contexts = [c \in Contexts |-> 0]
  /\ log_mutex = Unlocked
  /\ pc = [c \in Contexts |-> "absent"]
  /\ op = [c \in Contexts |-> NoOp]
  /\ pieces = [c \in Contexts |-> <<>>]
  /\ output = <<>>

Goto(c, label) == pc' = [pc EXCEPT ![c] = label]
Alive == main # "killed"

(* The main thread. *)

ReadLine(c, o) ==
  /\ main = "load" /\ lines < MAX_LINES
  /\ context_queues' = [context_queues EXCEPT ![c] = Enqueue(@, o)]
  /\ lines' = lines + 1
  /\ UNCHANGED <<main, i, contexts, log_mutex, pc, op, pieces, output>>

EndOfTrace ==
  /\ main = "load"
  /\ main' = "create"
  /\ UNCHANGED <<i, lines, context_queues, contexts, log_mutex, pc, op, pieces, output>>

\* The loops over the threads: create, then join.
Advance(next) == IF i + 1 = CONTEXTS THEN i' = 0 /\ main' = next
                                     ELSE i' = i + 1 /\ UNCHANGED main

CreateThread ==
  /\ main = "create"
  /\ Goto(i, "check")
  /\ Advance("join")
  /\ UNCHANGED <<lines, context_queues, contexts, log_mutex, op, pieces, output>>

Join ==
  /\ main = "join"
  /\ pc[i] = "done"
  /\ Advance("closed")
  /\ UNCHANGED <<lines, context_queues, contexts, log_mutex, pc, op, pieces, output>>

(* The thread of context c: process_operations(). *)

Take(c) ==
  /\ Alive /\ pc[c] = "check"
  /\ context_queues[c].size > 0
  /\ op' = [op EXCEPT ![c] = FrontOf(context_queues[c])]
  /\ context_queues' = [context_queues EXCEPT ![c] = Dequeue(@)]
  /\ Goto(c, "lock")
  /\ UNCHANGED <<server, contexts, log_mutex, pieces, output>>

Finish(c) ==
  /\ Alive /\ pc[c] = "check"
  /\ context_queues[c].size = 0
  /\ Goto(c, "done")
  /\ UNCHANGED <<server, context_queues, contexts, log_mutex, op, pieces, output>>

Lock(c) ==
  /\ Alive /\ pc[c] = "lock"
  /\ log_mutex = Unlocked
  /\ log_mutex' = c
  /\ Goto(c, "execute")
  /\ UNCHANGED <<server, context_queues, contexts, op, pieces, output>>

Execute(c) ==
  /\ Alive /\ pc[c] = "execute"
  /\ ~Traps(op[c])
  /\ contexts' = [contexts EXCEPT ![c] = NewValue(op[c], @)]
  /\ pieces' = [pieces EXCEPT ![c] = Pieces(op[c], c, contexts[c])]
  /\ Goto(c, "print")
  /\ UNCHANGED <<server, context_queues, log_mutex, op, output>>

\* A division by zero raises SIGFPE: the process dies, and what stdio has not
\* written of the log dies with it.
Trap(c) ==
  /\ Alive /\ pc[c] = "execute"
  /\ Traps(op[c])
  /\ main' = "killed"
  /\ output' \in {SubSeq(output, 1, k) : k \in 0..Len(output)}
  /\ UNCHANGED <<i, lines, context_queues, contexts, log_mutex, pc, op, pieces>>

Emit(c) ==
  /\ Alive /\ pc[c] = "print"
  /\ pieces[c] # <<>>
  /\ output' = Append(output, Head(pieces[c]))
  /\ pieces' = [pieces EXCEPT ![c] = Tail(@)]
  /\ UNCHANGED <<server, context_queues, contexts, log_mutex, pc, op>>

\* Mutant of MayUnlock: the mutex is released while the result is printed.
MayUnlockEarly(c) == pc[c] = "print"
MayUnlock(c) == pc[c] = "print" /\ pieces[c] = <<>>

\* Mutant of Released: the thread leaves the mutex locked.
ReleasedNever(c) == c
Released(c) == Unlocked

Unlock(c) ==
  /\ Alive /\ MayUnlock(c)
  /\ log_mutex' = Released(c)
  /\ op' = [op EXCEPT ![c] = NoOp]
  /\ Goto(c, "check")
  /\ UNCHANGED <<server, context_queues, contexts, pieces, output>>

Thread(c) ==
  Take(c) \/ Finish(c) \/ Lock(c) \/ Execute(c) \/ Trap(c) \/ Emit(c) \/ Unlock(c)

Main == EndOfTrace \/ CreateThread \/ Join

\* The process has ended, one way or the other.
Ended == main \in {"closed", "killed"} /\ UNCHANGED vars

Next ==
  \/ Main \/ Ended
  \/ \E c \in Contexts : Thread(c) \/ \E o \in OPS : ReadLine(c, o)

Spec == Init /\ [][Next]_vars

\* The trace is finite and the kernel schedules every thread that can run.
FairSpec == Spec /\ WF_vars(Main) /\ \A c \in Contexts : WF_vars(Thread(c))

-----------------------------------------------------------------------------
(* Properties. *)

\* The shapes of the server's globals.  A queue always knows how many
\* operations lie between front and rear.
TypeOK ==
  /\ main \in {"load", "create", "join", "closed", "killed"}
  /\ i \in Contexts /\ lines \in 0..MAX_LINES
  /\ \A c \in Contexts :
       LET q == context_queues[c] IN
       /\ q.size \in 0..q.capacity /\ q.front \in 0..(q.capacity - 1)
       /\ DOMAIN q.operations = 0..(q.capacity - 1)
       /\ (q.front + q.size - q.rear - 1) % q.capacity = 0
  /\ contexts \in [Contexts -> Values]
  /\ log_mutex \in Contexts \cup {Unlocked}
  /\ pc \in [Contexts -> {"absent", "check", "lock", "execute", "print", "done"}]

\* What is still to be done for a context: the operation its thread has taken
\* but not executed, then its queue.
Contents(q) == [k \in 1..q.size |-> q.operations[(q.front + k - 1) % q.capacity]]
Todo(c) == (IF pc[c] \in {"lock", "execute"} THEN <<op[c]>> ELSE <<>>)
             \o Contents(context_queues[c])

\* The log once the operation that is printing has finished.
Printing == IF log_mutex = Unlocked \/ main = "killed" THEN <<>> ELSE pieces[log_mutex]

\* The threads implement the sequential servers: program order per context,
\* whole results in the log although pri prints piece by piece, and a log that
\* is complete when main closes it.
SS == INSTANCE SeqServer WITH
        state <- IF main \in {"create", "join"} THEN "serving"
                 ELSE IF main = "load" THEN "loading" ELSE main,
        todo <- [c \in Contexts |-> Todo(c)],
        values <- contexts,
        log <- output \o Printing
Sequential == SS!Spec

\* The server ends: no thread waits for the log forever, no join for a thread.
Terminates == (main = "create") ~> (main \in {"closed", "killed"})
=============================================================================
