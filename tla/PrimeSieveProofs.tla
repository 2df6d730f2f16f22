-------------------------- MODULE PrimeSieveProofs --------------------------
(***************************************************************************)
(* The sieve of pri is right for every value below the largest square of a *)
(* word: nothing it computes wraps, and crossing out the multiples of the  *)
(* primes whose square is not above n, from that square on, is enough.     *)
(***************************************************************************)
EXTENDS PrimeSieve, TLAPS

-----------------------------------------------------------------------------
(* Divisors. *)

LEMMA Quotient ==
  ASSUME NEW d \in Nat \ {0}, NEW k \in Nat, k % d = 0
  PROVE  \E q \in Nat : k = q * d
<1>1. k = d * (k \div d) + (k % d) /\ k \div d \in Int
  OBVIOUS
<1>2. PICK q \in Int : q = k \div d
  BY <1>1
<1>3. k = d * q
  BY <1>1, <1>2
<1>4. q >= 0
  BY <1>3
<1> QED
  BY <1>2, <1>3, <1>4

LEMMA Multiple ==
  ASSUME NEW d \in Nat \ {0}, NEW q \in Nat
  PROVE  (q * d) % d = 0
<1>1. PICK k \in Nat : k = q * d
  OBVIOUS
<1>2. k = d * (k \div d) + (k % d) /\ k % d \in 0..(d - 1) /\ k \div d \in Int
  OBVIOUS
<1>3. PICK p \in Int, r \in 0..(d - 1) : k = d * p + r /\ r = k % d
  BY <1>2
<1>4. PICK s \in Int : s = q - p
  OBVIOUS
<1>5. r = d * s
  BY <1>1, <1>3, <1>4
<1>6. (s >= 1 => d * s >= d) /\ (s <= -1 => d * s <= -d)
  OBVIOUS
<1>7. s = 0
  BY <1>5, <1>6
<1> QED
  BY <1>1, <1>3, <1>5, <1>7

\* A divisor of a divisor divides.
LEMMA DivisorOfDivisor ==
  ASSUME NEW d \in Nat \ {0}, NEW e \in Nat \ {0}, NEW k \in Nat, e % d = 0, k % e = 0
  PROVE  k % d = 0
<1>1. PICK p \in Nat : e = p * d
  BY Quotient
<1>2. PICK q \in Nat : k = q * e
  BY Quotient
<1>3. PICK m \in Nat : m = q * p
  OBVIOUS
<1>4. k = m * d
  BY <1>1, <1>2, <1>3
<1> QED
  BY <1>4, Multiple

\* The other factor of a number below e * e that e divides, or that a number not
\* below e divides, is below e.
LEMMA OtherFactor ==
  ASSUME NEW e \in Nat \ {0}, NEW d \in Nat, e <= d, d >= 2,
         NEW k \in Nat, d < k, k < e * e, k % d = 0
  PROVE  \E q \in 2..(e - 1) : q < k /\ k % q = 0
<1>1. PICK q \in Nat : k = q * d
  BY Quotient
<1>2. q >= 2
  <2>1. q = 0 => q * d = 0
    OBVIOUS
  <2>2. q = 1 => q * d = d
    OBVIOUS
  <2> QED
    BY <1>1, <2>1, <2>2
<1>3. q < e
  <2>1. q >= e => q * d >= e * e
    OBVIOUS
  <2> QED
    BY <1>1, <2>1
<1>4. q < k
  <2>1. q * d >= q * 2
    OBVIOUS
  <2> QED
    BY <1>1, <1>2, <2>1
<1>5. k % q = 0
  <2>1. k = d * q
    BY <1>1
  <2> QED
    BY <1>2, <2>1, Multiple
<1>6. q \in 2..(e - 1)
  BY <1>2, <1>3
<1> QED
  BY <1>4, <1>5, <1>6

\* From one multiple of d there is none up to the next.
LEMMA NextMultiple ==
  ASSUME NEW d \in Nat \ {0}, NEW m \in Nat, m % d = 0
  PROVE  /\ (m + d) % d = 0
         /\ \A k \in Nat : m < k /\ k < m + d => k % d # 0
<1>1. PICK p \in Nat : m = p * d
  BY Quotient
<1>2. (m + d) % d = 0
  <2>1. PICK s \in Nat : s = p + 1
    OBVIOUS
  <2>2. m + d = s * d
    BY <1>1, <2>1
  <2> QED
    BY <2>2, Multiple
<1>3. ASSUME NEW k \in Nat, m < k, k < m + d, k % d = 0 PROVE FALSE
  <2>1. PICK q \in Nat : k = q * d
    BY <1>3, Quotient
  <2>2. q <= p => q * d <= p * d
    OBVIOUS
  <2>3. q >= p + 1 => q * d >= (p + 1) * d
    OBVIOUS
  <2> QED
    BY <1>1, <1>3, <2>1, <2>2, <2>3
<1> QED
  BY <1>2, <1>3

\* What does not reach WORD does not wrap.
LEMMA Unwrapped == ASSUME NEW a \in Nat, NEW w \in Nat, a < w PROVE a % w = a
  OBVIOUS

LEMMA Squares ==
  ASSUME NEW a \in Nat, NEW b \in Nat
  PROVE  (a * a < b * b => a < b) /\ (a <= b => a * a <= b * b)
  OBVIOUS

-----------------------------------------------------------------------------
(* The inductive invariant. *)

\* k has a divisor below bound, other than 1 and itself.
Composite(k, bound) == \E d \in 2..(bound - 1) : d < k /\ k % d = 0

\* The multiples of i that the inner loop has crossed out.
Crossed(k) == pc = "inner" /\ i < k /\ k < j /\ k % i = 0

Shapes ==
  /\ pc \in {"outer", "inner", "done"}
  /\ n \in 2..MAX_N /\ i \in Nat /\ i >= 2 /\ j \in Nat
  /\ is_prime \in [0..n -> BOOLEAN]

\* No square and no multiple wraps.
BoundsInv ==
  /\ \E root \in Nat : i <= root /\ MAX_N < root * root /\ root * root + root <= WORD
  /\ pc = "inner" => /\ i * i <= n /\ ~Composite(i, i)
                     /\ j % i = 0 /\ i * i <= j
                     /\ \A k \in 0..n : k % i = 0 /\ i < k /\ k < i * i => Composite(k, i)
  /\ pc = "done" => n < i * i

SieveInv ==
  \A k \in 0..n : is_prime[k] <=> k >= 2 /\ ~Composite(k, i) /\ ~Crossed(k)

IInv == Shapes /\ BoundsInv /\ SieveInv

\* Up to n the sieve of i says which numbers are prime once i * i is above n.
LEMMA Enough ==
  ASSUME Shapes, n < i * i, NEW k \in 2..n
  PROVE  k \in Primes <=> ~Composite(k, i)
<1>1. ASSUME Composite(k, i) PROVE k \notin Primes
  <2>1. PICK d \in 2..(i - 1) : d < k /\ k % d = 0
    BY <1>1 DEF Composite
  <2>2. d \in 2..(k - 1)
    BY <2>1 DEF Shapes
  <2> QED
    BY <2>1, <2>2 DEF Primes
<1>2. ASSUME k \notin Primes PROVE Composite(k, i)
  <2>1. PICK d \in 2..(k - 1) : k % d = 0
    BY <1>2 DEF Primes
  <2>2. CASE d < i
    <3>1. d \in 2..(i - 1) /\ d < k
      BY <2>1, <2>2 DEF Shapes
    <3> QED
      BY <2>1, <3>1 DEF Composite
  <2>3. CASE i <= d
    <3>1. k \in Nat /\ d \in Nat /\ d >= 2 /\ d < k /\ k < i * i /\ i \in Nat \ {0}
      BY <2>1 DEF Shapes
    <3>2. \E q \in 2..(i - 1) : q < k /\ k % q = 0
      BY <2>1, <2>3, <3>1, OtherFactor
    <3> QED
      BY <3>2 DEF Composite
  <2> QED
    BY <2>2, <2>3, <2>1 DEF Shapes
<1> QED
  BY <1>1, <1>2

\* The next bound adds the multiples of i.
LEMMA NextBound ==
  ASSUME NEW b \in Nat, b >= 2, NEW k \in Nat
  PROVE  Composite(k, b + 1) <=> Composite(k, b) \/ (b < k /\ k % b = 0)
<1>1. \A d \in 2..((b + 1) - 1) : d \in 2..(b - 1) \/ d = b
  OBVIOUS
<1>2. b \in 2..((b + 1) - 1) /\ \A d \in 2..(b - 1) : d \in 2..((b + 1) - 1)
  OBVIOUS
<1> QED
  BY <1>1, <1>2 DEF Composite

\* While the outer loop goes on, i and its square are small.
LEMMA SquareFacts ==
  ASSUME IInv, pc # "done"
  PROVE  /\ Square = i * i
         /\ i * i <= n => /\ i <= n /\ Incremented(i) = i + 1
                          /\ \E root \in Nat : /\ i + 1 <= root /\ MAX_N < root * root
                                               /\ root * root + root <= WORD
                          /\ \A m \in Nat : m <= n => (m + i) % WORD = m + i
<1>1. PICK root \in Nat : i <= root /\ MAX_N < root * root /\ root * root + root <= WORD
  BY DEF IInv, BoundsInv
<1>2. /\ WORD \in Nat /\ MAX_N \in Nat /\ i \in Nat /\ i >= 2 /\ n \in Nat /\ n <= MAX_N
  BY SieveAssumption DEF IInv, Shapes
<1>3. PICK s \in Nat : s = i * i
  BY <1>2
<1>4. PICK r \in Nat : r = root * root
  OBVIOUS
<1>5. s <= r
  BY <1>1, <1>2, <1>3, <1>4, Squares
<1>6. s < WORD
  BY <1>1, <1>2, <1>4, <1>5
<1>7. Square = i * i
  BY <1>2, <1>3, <1>6, Unwrapped DEF Square
<1>8. ASSUME i * i <= n
      PROVE  /\ i <= n /\ Incremented(i) = i + 1 /\ i + 1 <= root
             /\ \A m \in Nat : m <= n => (m + i) % WORD = m + i
  <2>1. s < r
    BY <1>1, <1>2, <1>3, <1>4, <1>8
  <2>2. i < root
    BY <1>2, <1>3, <1>4, <2>1, Squares
  <2>3. i <= s
    BY <1>2, <1>3
  <2>4. i <= n
    BY <1>2, <1>3, <1>8, <2>3
  <2>5. ASSUME NEW m \in Nat, m <= n PROVE (m + i) % WORD = m + i
    <3>1. m + i \in Nat /\ m + i < WORD
      BY <1>1, <1>2, <1>4, <2>2, <2>5
    <3> QED
      BY <1>2, <3>1, Unwrapped
  <2>6. i + 1 \in Nat /\ i + 1 < WORD
    BY <1>1, <1>2, <1>4, <2>2, <2>4
  <2>7. Incremented(i) = i + 1
    BY <1>2, <2>6, Unwrapped DEF Incremented
  <2> QED
    BY <1>2, <2>2, <2>4, <2>5, <2>7
<1> QED
  BY <1>1, <1>7, <1>8

-----------------------------------------------------------------------------
LEMMA InitInv == Init => IInv
<1> SUFFICES ASSUME Init PROVE IInv
  OBVIOUS
<1>1. Shapes
  <2>1. n \in 2..MAX_N /\ i = 2 /\ j = 0 /\ pc = "outer"
    BY DEF Init
  <2>2. is_prime \in [0..n -> BOOLEAN]
    BY DEF Init
  <2> QED
    BY <2>1, <2>2 DEF Shapes
<1>2. BoundsInv
  <2>1. PICK root \in 1..WORD : MAX_N < root * root /\ root * root + root <= WORD
    BY SieveAssumption
  <2>2. WORD \in Nat /\ MAX_N \in Nat /\ MAX_N >= 2
    BY SieveAssumption DEF Init
  <2>3. root \in Nat /\ root >= 1
    BY <2>1, <2>2
  <2>4. root # 1
    <3>1. root = 1 => root * root = 1
      OBVIOUS
    <3> QED
      BY <2>1, <2>2, <3>1
  <2> QED
    BY <2>1, <2>3, <2>4 DEF Init, BoundsInv
<1>3. SieveInv
  <2>1. \A k \in 0..n : is_prime[k] <=> k >= 2
    BY DEF Init
  <2>2. \A k \in 0..n : ~Composite(k, i) /\ ~Crossed(k)
    BY DEF Init, Composite, Crossed
  <2> QED
    BY <2>1, <2>2 DEF SieveInv
<1> QED
  BY <1>1, <1>2, <1>3 DEF IInv

LEMMA StartMultiplesInv == ASSUME IInv, StartMultiples PROVE IInv'
<1>1. /\ pc = "outer" /\ pc' = "inner" /\ Square <= n /\ is_prime[i] /\ j' = Square
      /\ n' = n /\ i' = i /\ is_prime' = is_prime
  BY DEF StartMultiples, MoreSquares, FirstMultiple
<1>2. Shapes /\ i \in Nat /\ i >= 2 /\ n \in Nat
  BY DEF IInv, Shapes
<1>3. Square = i * i /\ i * i <= n /\ i <= n
  BY <1>1, SquareFacts
<1>4. PICK s \in Nat : s = i * i
  BY <1>2
<1>5. s % i = 0
  BY <1>2, <1>4, Multiple
<1>6. ~Composite(i, i)
  BY <1>1, <1>2, <1>3 DEF IInv, SieveInv
<1>7. ASSUME NEW k \in 0..n, k % i = 0, i < k, k < i * i PROVE Composite(k, i)
  <2>0. i \in Nat \ {0} /\ i <= i /\ k \in Nat
    BY <1>2
  <2>1. \E q \in 2..(i - 1) : q < k /\ k % q = 0
    BY <1>2, <1>7, <2>0, OtherFactor
  <2> QED
    BY <2>1 DEF Composite
<1>8. Shapes'
  BY <1>1, <1>2, <1>3, <1>4 DEF Shapes
<1>9. BoundsInv'
  <2>1. i * i <= j' /\ j' % i = 0
    BY <1>1, <1>3, <1>4, <1>5
  <2> QED
    BY <1>1, <1>3, <1>6, <1>7, <2>1 DEF IInv, BoundsInv
<1>10. SieveInv'
  <2>1. ASSUME NEW k \in 0..n
        PROVE  is_prime'[k] <=> k >= 2 /\ ~Composite(k, i') /\ ~Crossed(k)'
    <3>1. ~Crossed(k)
      BY <1>1 DEF Crossed
    <3>2. Crossed(k)' => Composite(k, i)
      BY <1>1, <1>3, <1>7 DEF Crossed
    <3> QED
      BY <1>1, <3>1, <3>2 DEF IInv, SieveInv
  <2> QED
    BY <1>1, <2>1 DEF SieveInv
<1> QED
  BY <1>8, <1>9, <1>10 DEF IInv

\* A composite i has nothing to cross out: its multiples are multiples of less.
LEMMA SkipCompositeInv == ASSUME IInv, SkipComposite PROVE IInv'
<1>1. /\ pc = "outer" /\ pc' = "outer" /\ Square <= n /\ ~is_prime[i] /\ i' = Incremented(i)
      /\ n' = n /\ j' = j /\ is_prime' = is_prime
  BY DEF SkipComposite, MoreSquares
<1>2. Shapes /\ i \in Nat /\ i >= 2 /\ n \in Nat
  BY DEF IInv, Shapes
<1>3. i <= n /\ i' = i + 1
      /\ \E root \in Nat : i + 1 <= root /\ MAX_N < root * root /\ root * root + root <= WORD
  BY <1>1, SquareFacts
<1>4. Composite(i, i)
  <2>1. ~Crossed(i)
    BY <1>1 DEF Crossed
  <2> QED
    BY <1>1, <1>2, <1>3, <2>1 DEF IInv, SieveInv
<1>5. ASSUME NEW k \in Nat, i < k, k % i = 0 PROVE Composite(k, i)
  <2>1. PICK d \in 2..(i - 1) : d < i /\ i % d = 0
    BY <1>4 DEF Composite
  <2>2. d \in Nat \ {0} /\ i \in Nat \ {0} /\ d < k
    BY <1>2, <1>5, <2>1
  <2>3. k % d = 0
    BY <1>5, <2>1, <2>2, DivisorOfDivisor
  <2> QED
    BY <2>1, <2>2, <2>3 DEF Composite
<1>6. Shapes'
  BY <1>1, <1>2, <1>3 DEF Shapes
<1>7. BoundsInv'
  BY <1>1, <1>3 DEF BoundsInv
<1>8. SieveInv'
  <2>1. ASSUME NEW k \in 0..n
        PROVE  is_prime'[k] <=> k >= 2 /\ ~Composite(k, i') /\ ~Crossed(k)'
    <3>1. ~Crossed(k) /\ ~Crossed(k)'
      BY <1>1 DEF Crossed
    <3>2. Composite(k, i + 1) <=> Composite(k, i)
      BY <1>2, <1>5, NextBound
    <3>3. Composite(k, i') <=> Composite(k, i)
      BY <1>3, <3>2
    <3> QED
      BY <1>1, <3>1, <3>3 DEF IInv, SieveInv
  <2> QED
    BY <1>1, <2>1 DEF SieveInv
<1> QED
  BY <1>6, <1>7, <1>8 DEF IInv

LEMMA CrossOutInv == ASSUME IInv, CrossOut PROVE IInv'
<1>1. /\ pc = "inner" /\ pc' = "inner" /\ j <= n /\ is_prime' = [is_prime EXCEPT ![j] = FALSE]
      /\ j' = (j + i) % WORD /\ n' = n /\ i' = i
  BY DEF CrossOut
<1>2. Shapes /\ i \in Nat \ {0} /\ i >= 2 /\ n \in Nat /\ j \in Nat
  BY DEF IInv, Shapes
<1>3. /\ i * i <= n /\ ~Composite(i, i) /\ j % i = 0 /\ i * i <= j
      /\ \A k \in 0..n : k % i = 0 /\ i < k /\ k < i * i => Composite(k, i)
  BY <1>1 DEF IInv, BoundsInv
<1>4. j' = j + i
  <2>1. \A m \in Nat : m <= n => (m + i) % WORD = m + i
    BY <1>1, <1>3, SquareFacts
  <2> QED
    BY <1>1, <1>2, <2>1
<1>5. j' % i = 0 /\ \A k \in Nat : j < k /\ k < j' => k % i # 0
  BY <1>2, <1>3, <1>4, NextMultiple
<1>6. i < j
  <2>1. i * i > i
    BY <1>2
  <2>2. PICK s \in Nat : s = i * i
    BY <1>2
  <2> QED
    BY <1>2, <1>3, <2>1, <2>2
<1>7. i * i <= j' /\ j' \in Nat
  <2>1. PICK s \in Nat : s = i * i
    BY <1>2
  <2> QED
    BY <1>2, <1>3, <1>4, <2>1
<1>8. Shapes'
  BY <1>1, <1>2, <1>7 DEF Shapes
<1>9. BoundsInv'
  BY <1>1, <1>3, <1>5, <1>7 DEF IInv, BoundsInv
<1>10. SieveInv'
  <2>1. ASSUME NEW k \in 0..n
        PROVE  is_prime'[k] <=> k >= 2 /\ ~Composite(k, i') /\ ~Crossed(k)'
    <3>1. Crossed(k)' <=> i < k /\ k < j + i /\ k % i = 0
      BY <1>1, <1>4 DEF Crossed
    <3>2. Crossed(k) <=> i < k /\ k < j /\ k % i = 0
      BY <1>1 DEF Crossed
    <3>3. CASE k = j
      <4>1. ~is_prime'[k]
        BY <1>1, <1>2, <3>3 DEF Shapes
      <4>2. Crossed(k)'
        BY <1>2, <1>3, <1>6, <3>1, <3>3
      <4> QED
        BY <4>1, <4>2
    <3>4. CASE k # j
      <4>1. is_prime'[k] = is_prime[k]
        BY <1>1, <1>2, <3>4 DEF Shapes
      <4>2. Crossed(k)' <=> Crossed(k)
        BY <1>2, <1>4, <1>5, <3>1, <3>2, <3>4
      <4> QED
        BY <1>1, <4>1, <4>2 DEF IInv, SieveInv
    <3> QED
      BY <3>3, <3>4
  <2> QED
    BY <1>1, <2>1 DEF SieveInv
<1> QED
  BY <1>8, <1>9, <1>10 DEF IInv

LEMMA EndMultiplesInv == ASSUME IInv, EndMultiples PROVE IInv'
<1>1. /\ pc = "inner" /\ pc' = "outer" /\ j > n /\ i' = Incremented(i)
      /\ n' = n /\ j' = j /\ is_prime' = is_prime
  BY DEF EndMultiples
<1>2. Shapes /\ i \in Nat /\ i >= 2 /\ n \in Nat /\ j \in Nat
  BY DEF IInv, Shapes
<1>3. i * i <= n
  BY <1>1 DEF IInv, BoundsInv
<1>4. i' = i + 1
      /\ \E root \in Nat : i + 1 <= root /\ MAX_N < root * root /\ root * root + root <= WORD
  BY <1>1, <1>3, SquareFacts
<1>5. Shapes'
  BY <1>1, <1>2, <1>4 DEF Shapes
<1>6. BoundsInv'
  BY <1>1, <1>4 DEF BoundsInv
<1>7. SieveInv'
  <2>1. ASSUME NEW k \in 0..n
        PROVE  is_prime'[k] <=> k >= 2 /\ ~Composite(k, i') /\ ~Crossed(k)'
    <3>1. Crossed(k) <=> i < k /\ k % i = 0
      BY <1>1, <1>2 DEF Crossed
    <3>2. ~Crossed(k)'
      BY <1>1 DEF Crossed
    <3>3. Composite(k, i + 1) <=> Composite(k, i) \/ Crossed(k)
      <4>1. k \in Nat
        BY <1>2
      <4>2. Composite(k, i + 1) <=> Composite(k, i) \/ (i < k /\ k % i = 0)
        BY <1>2, <4>1, NextBound
      <4> QED
        BY <3>1, <4>2
    <3>4. Composite(k, i') <=> Composite(k, i) \/ Crossed(k)
      BY <1>4, <3>3
    <3> QED
      BY <1>1, <3>2, <3>4 DEF IInv, SieveInv
  <2> QED
    BY <1>1, <2>1 DEF SieveInv
<1> QED
  BY <1>5, <1>6, <1>7 DEF IInv

LEMMA EndSieveInv == ASSUME IInv, EndSieve PROVE IInv'
<1>1. pc = "outer" /\ pc' = "done" /\ ~(Square <= n) /\ UNCHANGED <<n, i, j, is_prime>>
  BY DEF EndSieve, MoreSquares
<1>2. n < i * i
  <2>1. Square = i * i /\ i \in Nat /\ n \in Nat
    BY <1>1, SquareFacts DEF IInv, Shapes
  <2>2. PICK s \in Nat : s = i * i
    BY <2>1
  <2> QED
    BY <1>1, <2>1, <2>2
<1>3. Shapes' /\ BoundsInv'
  BY <1>1, <1>2 DEF IInv, Shapes, BoundsInv
<1>4. SieveInv'
  <2>1. \A k \in 0..n : ~Crossed(k) /\ ~Crossed(k)'
    BY <1>1 DEF Crossed
  <2> QED
    BY <1>1, <2>1 DEF IInv, SieveInv
<1> QED
  BY <1>3, <1>4 DEF IInv

LEMMA NextInv == IInv /\ [Next]_vars => IInv'
<1> SUFFICES ASSUME IInv, [Next]_vars PROVE IInv'
  OBVIOUS
<1>1. CASE UNCHANGED vars
  <2>1. \A k \in 0..n : Crossed(k)' <=> Crossed(k)
    BY <1>1 DEF vars, Crossed
  <2> QED
    BY <1>1, <2>1 DEF vars, IInv, Shapes, BoundsInv, SieveInv
<1> QED
  BY <1>1, StartMultiplesInv, SkipCompositeInv, CrossOutInv, EndMultiplesInv, EndSieveInv DEF Next

THEOREM Invariant == Spec => []IInv
<1>1. Init => IInv
  BY InitInv
<1>2. IInv /\ [Next]_vars => IInv'
  BY NextInv
<1> QED
  BY <1>1, <1>2, PTL DEF Spec

\* pri (mathserver.c:110-140) prints the primes up to N and nothing else, for every
\* N below the largest square of a word.
THEOREM SieveIsCorrect == Spec => []SieveCorrect
<1>1. IInv => SieveCorrect
  <2> SUFFICES ASSUME IInv, pc = "done" PROVE {k \in 0..n : is_prime[k]} = Primes
    BY DEF SieveCorrect
  <2>1. Shapes /\ n < i * i /\ \A k \in 0..n : ~Crossed(k)
    BY DEF IInv, BoundsInv, Crossed
  <2>2. ASSUME NEW k \in 0..n PROVE is_prime[k] <=> k \in Primes
    <3>1. is_prime[k] <=> k >= 2 /\ ~Composite(k, i)
      BY <2>1 DEF IInv, SieveInv
    <3>2. CASE k < 2
      BY <3>1, <3>2, <2>1 DEF Primes, Shapes
    <3>3. CASE k >= 2
      <4>1. k \in 2..n
        BY <3>3, <2>1 DEF Shapes
      <4> QED
        BY <2>1, <3>1, <3>3, <4>1, Enough
    <3> QED
      BY <3>2, <3>3, <2>1 DEF Shapes
  <2>3. Primes \subseteq 0..n
    BY <2>1 DEF Primes, Shapes
  <2> QED
    BY <2>2, <2>3
<1> QED
  BY <1>1, Invariant, PTL

\* No prime is ever crossed out, and no composite is missed on the way.
THEOREM SieveProgresses == Spec => []SieveProgress
<1>1. IInv => SieveProgress
  <2> SUFFICES ASSUME IInv, NEW k \in 2..n
               PROVE  /\ k \in Primes => is_prime[k]
                      /\ (\E d \in 2..(i - 1) : d < k /\ k % d = 0) => ~is_prime[k]
    BY DEF SieveProgress
  <2>1. Shapes /\ k \in 0..n /\ k \in Nat /\ k >= 2 /\ i \in Nat /\ i >= 2
    BY DEF IInv, Shapes
  <2>2. is_prime[k] <=> ~Composite(k, i) /\ ~Crossed(k)
    BY <2>1 DEF IInv, SieveInv
  <2>3. ASSUME k \in Primes PROVE ~Composite(k, i) /\ ~Crossed(k)
    <3>1. \A d \in 2..(k - 1) : k % d # 0
      BY <2>3 DEF Primes
    <3>2. ~Composite(k, i)
      <4>1. \A d \in 2..(i - 1) : d < k => d \in 2..(k - 1)
        BY <2>1
      <4> QED
        BY <3>1, <4>1 DEF Composite
    <3>3. ~Crossed(k)
      BY <2>1, <3>1 DEF Crossed
    <3> QED
      BY <3>2, <3>3
  <2> QED
    BY <2>2, <2>3 DEF Composite
<1> QED
  BY <1>1, Invariant, PTL
=============================================================================
