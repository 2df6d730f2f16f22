----------------------------- MODULE SeqServer -----------------------------
(***************************************************************************)
(* What mathserver.c promises: the operations of each context take effect  *)
(* one after the other in the order of the trace, each prints its whole    *)
(* result in one piece of the log, and the log is closed only when every   *)
(* operation of every context is in it.  No threads, no mutex, no queues.  *)
(*                                                                         *)
(* It is a server for any operations; MathServer takes those of MathOps.   *)
(***************************************************************************)
EXTENDS Integers, Sequences

CONSTANTS
  Contexts,
  OPS,              \* operations a trace may hold
  Traps(_),         \* operations that kill the process
  NewValue(_, _),   \* the value of a context after an operation
  Pieces(_, _, _)   \* what an operation of a context with a value prints

VARIABLES
  state,   \* "loading", "serving", "closed" or "killed"
  todo,    \* context -> its operations, in trace order
  values,  \* context -> value
  log      \* the pieces printed

vars == <<state, todo, values, log>>

Init ==
  /\ state = "loading"
  /\ todo = [c \in Contexts |-> <<>>]
  /\ values = [c \in Contexts |-> 0]
  /\ log = <<>>

Submit(c, op) ==
  /\ state = "loading"
  /\ todo' = [todo EXCEPT ![c] = Append(@, op)]
  /\ UNCHANGED <<state, values, log>>

Serve == state = "loading" /\ state' = "serving" /\ UNCHANGED <<todo, values, log>>

Step(c) ==
  /\ state = "serving"
  /\ todo[c] # <<>>
  /\ LET op == Head(todo[c]) IN
       /\ ~Traps(op)
       /\ values' = [values EXCEPT ![c] = NewValue(op, @)]
       /\ log' = log \o Pieces(op, c, values[c])
  /\ todo' = [todo EXCEPT ![c] = Tail(@)]
  /\ UNCHANGED state

\* Only a division by zero that has come up ends the run early; of the log at
\* most the end is lost.
Kill ==
  /\ state = "serving"
  /\ \E c \in Contexts : todo[c] # <<>> /\ Traps(Head(todo[c]))
  /\ state' = "killed"
  /\ log' \in {SubSeq(log, 1, k) : k \in 0..Len(log)}
  /\ UNCHANGED <<todo, values>>

Close ==
  /\ state = "serving"
  /\ \A c \in Contexts : todo[c] = <<>>
  /\ state' = "closed"
  /\ UNCHANGED <<todo, values, log>>

Next == Serve \/ Kill \/ Close \/ \E c \in Contexts : Step(c) \/ \E op \in OPS : Submit(c, op)

Spec == Init /\ [][Next]_vars
=============================================================================
