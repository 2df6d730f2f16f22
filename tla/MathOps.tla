------------------------------ MODULE MathOps ------------------------------
(***************************************************************************)
(* The operations of lab07-Group12/mathserver.c on one context: the value  *)
(* an operation leaves and the pieces of output it prints, each the text   *)
(* of one fprintf.  Values are unsigned and wrap at WORD.                  *)
(***************************************************************************)
EXTENDS Integers, Sequences, FiniteSets

LOCAL INSTANCE SequencesExt

CONSTANTS
  CONTEXTS,  \* number of contexts, each with a queue and a thread
  WORD,      \* 2^32 in the code
  OPS        \* operations a trace may hold: records [type, arg2]

ASSUME ContextsAssumption == CONTEXTS \in Nat \ {0}
ASSUME WordAssumption == WORD \in Nat \ {0, 1}

Contexts == 0..(CONTEXTS - 1)
Values == 0..(WORD - 1)

ASSUME OpsAssumption == \A o \in OPS : o.arg2 \in Values

\* fib(): the sum wraps.
Fib == LET f[n \in Values] == IF n <= 1 THEN n ELSE (f[n - 1] + f[n - 2]) % WORD IN f

\* What the sieve of pri() leaves (module PrimeSieve), in the order it prints.
Primes(n) == {i \in 2..n : \A d \in 2..(i - 1) : i % d # 0}
PrimeList(n) == SetToSortSeq(Primes(n), <)

\* Division by zero is the one operation that has no result: the process dies.
Traps(op) == op.type = "div" /\ op.arg2 = 0

\* The value of a context after an operation; an unknown type changes nothing.
NewValue(op, v) ==
  CASE op.type = "set" -> op.arg2
    [] op.type = "add" -> (v + op.arg2) % WORD
    [] op.type = "sub" -> (v - op.arg2) % WORD
    [] op.type = "mul" -> (v * op.arg2) % WORD
    [] op.type = "div" -> v \div op.arg2
    [] OTHER -> v

\* The pieces an operation prints.  pri prints a list in several calls, one
\* for a number and one for the comma before it; an unknown type prints nothing.
Pieces(op, ctx, v) ==
  LET Piece(x) == <<ctx, op.type, x>>
  IN CASE op.type \in {"set", "add", "sub", "mul", "div"} -> <<Piece(<<op.arg2, NewValue(op, v)>>)>>
       [] op.type = "fib" -> <<Piece(Fib[v])>>
       [] op.type = "pia" -> <<Piece(v)>>
       [] op.type = "pri" /\ v < 2 -> <<Piece("none")>>
       [] op.type = "pri" /\ v >= 2 ->
            <<Piece("open")>> \o [k \in 1..(2 * Cardinality(Primes(v)) - 1) |->
                                   Piece(IF k % 2 = 0 THEN "comma" ELSE PrimeList(v)[(k + 1) \div 2])]
                              \o <<Piece("close")>>
       [] OTHER -> <<>>
=============================================================================
