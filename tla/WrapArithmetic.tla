--------------------------- MODULE WrapArithmetic ---------------------------
(***************************************************************************)
(* Facts about counters that wrap, for the uint32_t message ids, and       *)
(* induction over the natural numbers, stated for a set.                   *)
(***************************************************************************)
EXTENDS Integers, WellFoundedInduction, TLAPS

\* Division and remainder by a positive number.
LEMMA DivMod ==
  ASSUME NEW a \in Int, NEW N \in Nat \ {0}
  PROVE  /\ a \div N \in Int
         /\ a % N \in 0 .. N - 1
         /\ a = N * (a \div N) + (a % N)
OBVIOUS

\* Different multiples of N are at least N apart.
LEMMA MulGap ==
  ASSUME NEW p \in Int, NEW q \in Int, NEW N \in Nat \ {0}, p > q
  PROVE  N * p >= N * q + N
<1>1. N * (p - q - 1) >= 0
  OBVIOUS
<1>2. N * (p - q - 1) = N * p - N * q - N
  OBVIOUS
<1> QED BY <1>1, <1>2

\* The remainder is determined by its range.
LEMMA ModUnique ==
  ASSUME NEW q \in Int, NEW r \in Int, NEW N \in Nat \ {0}, 0 <= r, r < N
  PROVE  (N * q + r) % N = r
<1> DEFINE a == N * q + r
<1>1. a \in Int
  OBVIOUS
<1>2. /\ a \div N \in Int
      /\ a % N \in 0 .. N - 1
      /\ a = N * (a \div N) + (a % N)
  BY <1>1, DivMod
<1> HIDE DEF a
<1>3. a = N * q + r
  BY DEF a
<1>4. ~(q > a \div N)
  BY <1>2, <1>3, MulGap, N * q \in Int, N * (a \div N) \in Int
<1>5. ~(a \div N > q)
  BY <1>2, <1>3, MulGap, N * q \in Int, N * (a \div N) \in Int
<1>6. a \div N = q
  <2>1. a \div N \in Int
    BY <1>2
  <2> QED BY <2>1, <1>4, <1>5
<1>7. a % N = r
  BY <1>2, <1>3, <1>6, N * q \in Int
<1> QED BY <1>7 DEF a

\* A wrapped counter counts: wrapping before or after the increment is the same.
LEMMA ModNext ==
  ASSUME NEW c \in Int, NEW N \in Nat \ {0}
  PROVE  ((c % N) + 1) % N = (c + 1) % N
<1> DEFINE q == c \div N
<1> DEFINE r == c % N
<1>1. q \in Int /\ r \in Int /\ 0 <= r /\ r < N /\ c = N * q + r
  BY DivMod
<1> HIDE DEF q, r
<1>2. CASE r + 1 < N
  <2>1. (N * q + (r + 1)) % N = r + 1
    BY <1>1, <1>2, ModUnique
  <2>2. (N * 0 + (r + 1)) % N = r + 1
    BY <1>1, <1>2, ModUnique
  <2>3. N * q + (r + 1) = c + 1 /\ N * 0 + (r + 1) = r + 1
    BY <1>1
  <2> QED BY <2>1, <2>2, <2>3 DEF r
<1>3. CASE r + 1 = N
  <2>1. (N * (q + 1) + 0) % N = 0
    BY <1>1, ModUnique
  <2>2. (N * 1 + 0) % N = 0
    BY ModUnique
  <2>3. N * (q + 1) + 0 = c + 1 /\ N * 1 + 0 = r + 1
    BY <1>1, <1>3
  <2> QED BY <2>1, <2>2, <2>3 DEF r
<1> QED BY <1>1, <1>2, <1>3

\* Two counts less than a turn apart with the same wrapped value are the same.
LEMMA ModSame ==
  ASSUME NEW a \in Int, NEW b \in Int, NEW N \in Nat \ {0},
         a % N = b % N, 0 <= a - b, a - b < N
  PROVE  a = b
<1> DEFINE p == a \div N
<1> DEFINE q == b \div N
<1> DEFINE r == b % N
<1>1. p \in Int /\ q \in Int /\ r \in Int
  BY DivMod
<1>2. a = N * p + r
  BY DivMod
<1>3. b = N * q + r
  BY DivMod
<1> HIDE DEF p, q, r
<1>4. ~(p > q)
  BY <1>1, <1>2, <1>3, MulGap, N * p \in Int, N * q \in Int
<1>5. ~(q > p)
  BY <1>1, <1>2, <1>3, MulGap, N * p \in Int, N * q \in Int
<1>6. p = q
  BY <1>1, <1>4, <1>5
<1> QED BY <1>2, <1>3, <1>6

\* A number below the turn is its own wrapped value.
LEMMA ModSmall ==
  ASSUME NEW x \in Int, NEW N \in Nat \ {0}, 0 <= x, x < N
  PROVE  x % N = x
<1>1. (N * 0 + x) % N = x
  BY ModUnique
<1>2. N * 0 + x = x
  OBVIOUS
<1> QED BY <1>1, <1>2

\* Wrapping never makes a number larger.
LEMMA ModLe ==
  ASSUME NEW x \in Nat, NEW N \in Nat \ {0}
  PROVE  x % N <= x
<1> DEFINE d == x \div N
<1>1. d \in Int /\ x % N \in 0 .. N - 1 /\ x = N * d + (x % N)
  BY DivMod
<1> HIDE DEF d
<1>2. ~(0 > d)
  BY <1>1, MulGap, N * d \in Int, N * 0 = 0
<1>3. CASE d = 0
  BY <1>1, <1>3
<1>4. CASE d > 0
  <2>1. N * d >= N * 0 + N
    BY <1>1, <1>4, MulGap
  <2> QED BY <1>1, <2>1, N * d \in Int, N * 0 = 0
<1> QED BY <1>1, <1>2, <1>3, <1>4

\* The difference of two wrapped counts, wrapped, is that of the counts.
LEMMA ModDiff ==
  ASSUME NEW a \in Int, NEW b \in Int, NEW N \in Nat \ {0}
  PROVE  ((a % N) - (b % N)) % N = (a - b) % N
<1> DEFINE p == a \div N
<1> DEFINE q == b \div N
<1> DEFINE r == a % N
<1> DEFINE s == b % N
<1>1. /\ p \in Int /\ r \in 0 .. N - 1 /\ a = N * p + r
      /\ q \in Int /\ s \in 0 .. N - 1 /\ b = N * q + s
  BY DivMod
<1> HIDE DEF p, q, r, s
<1>2. a - b = N * (p - q) + (r - s)
  BY <1>1
<1>3. CASE r >= s
  <2>1. (N * (p - q) + (r - s)) % N = r - s
    BY <1>1, <1>3, ModUnique
  <2>2. (r - s) % N = r - s
    BY <1>1, <1>3, ModSmall
  <2> QED BY <1>2, <2>1, <2>2 DEF r, s
<1>4. CASE r < s
  <2> DEFINE d == r - s + N
  <2>0. d \in Int /\ 0 <= d /\ d < N /\ p - q - 1 \in Int /\ 0 - 1 \in Int
    BY <1>1, <1>4
  <2> HIDE DEF d
  <2>1. (N * (p - q - 1) + d) % N = d
    BY <2>0, ModUnique
  <2>2. (N * (0 - 1) + d) % N = d
    BY <2>0, ModUnique
  <2>3. N * (p - q - 1) + d = a - b
    BY <1>1, <1>2 DEF d
  <2>4. N * (0 - 1) + d = r - s
    BY <1>1 DEF d
  <2> QED BY <2>1, <2>2, <2>3, <2>4 DEF r, s
<1> QED BY <1>1, <1>3, <1>4
----------------------------------------------------------------------------
(* Induction.  The theorems of the library take the induction hypothesis   *)
(* as an operator; a set serves as well.                                   *)

LEMMA LeastNatural ==
  ASSUME NEW T, T \subseteq Nat, T # {}
  PROVE  \E n \in T : \A m \in T : n <= m
<1> DEFINE R == OpToRel(<, Nat)
<1>1. IsWellFoundedOn(R, Nat)
  BY NatLessThanWellFounded
<1>2. \A x, y \in Nat : <<y, x>> \in R <=> y < x
  BY DEF OpToRel
<1> HIDE DEF R
<1>3. PICK n \in T : \A m \in T : ~(<<m, n>> \in R)
  BY <1>1, WFMin
<1>4. ASSUME NEW m \in T PROVE n <= m
  <2>1. m \in Nat /\ n \in Nat /\ ~(m < n)
    BY <1>2, <1>3
  <2> QED BY <2>1
<1> QED BY <1>4

\* Whoever has 0, and n + 1 with n, has them all.
LEMMA NatSetInduction ==
  ASSUME NEW T, 0 \in T, \A n \in Nat : n \in T => n + 1 \in T
  PROVE  Nat \subseteq T
<1> SUFFICES ASSUME ~(Nat \subseteq T) PROVE FALSE
  OBVIOUS
<1>1. Nat \ T # {} /\ Nat \ T \subseteq Nat
  OBVIOUS
<1>2. PICK n \in Nat \ T : \A m \in Nat \ T : n <= m
  BY <1>1, LeastNatural
<1>3. n \in Nat \ {0} /\ n - 1 \in Nat /\ ~(n <= n - 1) /\ (n - 1) + 1 = n
  BY <1>2
<1>4. n - 1 \in T
  BY <1>2, <1>3
<1> QED BY <1>2, <1>3, <1>4
============================================================================
