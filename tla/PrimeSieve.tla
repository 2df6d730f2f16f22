----------------------------- MODULE PrimeSieve -----------------------------
(***************************************************************************)
(* The sieve of pri() in lab07-Group12/mathserver.c, one step per turn of  *)
(* its loops, in unsigned arithmetic that wraps at WORD: i * i and j += i  *)
(* are not checked for overflow.                                           *)
(***************************************************************************)
EXTENDS Integers

CONSTANTS
  WORD,   \* 2^32 in the code
  MAX_N   \* bound: the largest context value sieved; below the largest square
          \* of a word, beyond which i * i wraps before it passes N

\* With 2^32 the root is 65535.
ASSUME SieveAssumption ==
  /\ WORD \in Nat /\ MAX_N \in Nat
  /\ \E root \in 1..WORD : MAX_N < root * root /\ root * root + root <= WORD

VARIABLES n, i, j, is_prime, pc

vars == <<n, i, j, is_prime, pc>>

Init ==
  /\ n \in 2..MAX_N
  /\ is_prime = [k \in 0..n |-> k >= 2]
  /\ i = 2 /\ j = 0
  /\ pc = "outer"

Square == (i * i) % WORD

\* Mutant of MoreSquares: the bound of the outer loop is strict.
MoreSquaresStrict == Square < n
MoreSquares == Square <= n

\* Mutant of FirstMultiple: crossing out starts at the prime itself.
FirstMultipleSelf == i
FirstMultiple == Square

\* Mutant of Incremented: the loop variable does not move.
IncrementedNever(k) == k
Incremented(k) == (k + 1) % WORD

StartMultiples ==
  /\ pc = "outer" /\ MoreSquares
  /\ is_prime[i]
  /\ j' = FirstMultiple
  /\ pc' = "inner"
  /\ UNCHANGED <<n, i, is_prime>>

SkipComposite ==
  /\ pc = "outer" /\ MoreSquares
  /\ ~is_prime[i]
  /\ i' = Incremented(i)
  /\ UNCHANGED <<n, j, is_prime, pc>>

CrossOut ==
  /\ pc = "inner" /\ j <= n
  /\ is_prime' = [is_prime EXCEPT ![j] = FALSE]
  /\ j' = (j + i) % WORD
  /\ UNCHANGED <<n, i, pc>>

EndMultiples ==
  /\ pc = "inner" /\ j > n
  /\ i' = Incremented(i)
  /\ pc' = "outer"
  /\ UNCHANGED <<n, j, is_prime>>

EndSieve ==
  /\ pc = "outer" /\ ~MoreSquares
  /\ pc' = "done"
  /\ UNCHANGED <<n, i, j, is_prime>>

Next == StartMultiples \/ SkipComposite \/ CrossOut \/ EndMultiples \/ EndSieve

Spec == Init /\ [][Next]_vars /\ WF_vars(Next)

-----------------------------------------------------------------------------
\* The prime numbers up to n, by definition.
Primes == {k \in 2..n : \A d \in 2..(k - 1) : k % d # 0}

\* pri prints exactly the primes up to its context's value.
SieveCorrect == pc = "done" => {k \in 0..n : is_prime[k]} = Primes

\* While the sieve runs no prime is ever crossed out, and every composite with
\* a factor below i already is.
SieveProgress ==
  \A k \in 2..n : /\ k \in Primes => is_prime[k]
                  /\ (\E d \in 2..(i - 1) : d < k /\ k % d = 0) => ~is_prime[k]

\* Both loops end, although their counters wrap.
SieveEnds == <>(pc = "done")
=============================================================================
