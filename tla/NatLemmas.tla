----------------------------- MODULE NatLemmas ------------------------------
(***************************************************************************)
(* Facts about natural numbers that the proofs of several components use.  *)
(***************************************************************************)
EXTENDS Integers, WellFoundedInduction, TLAPS

\* The order of the naturals has no infinite descent.
LEMMA NoDescent == IsWellFoundedOn({ss \in Nat \X Nat : ss[1] < ss[2]}, Nat)
  BY NatLessThanWellFounded, Zenon DEF OpToRel

\* A nonempty set of naturals has a least element.
LEMMA LeastElement ==
  ASSUME NEW T, T \subseteq Nat, T # {}
  PROVE  \E n \in T : \A m \in T : n <= m
<1> DEFINE Less == {ss \in Nat \X Nat : ss[1] < ss[2]}
<1>1. PICK n \in T : \A m \in T : <<m, n>> \notin Less
  <2> HIDE DEF Less
  <2> IsWellFoundedOn(Less, Nat)
    BY NoDescent DEF Less
  <2> QED
    BY WFMin
<1>2. ASSUME NEW m \in T PROVE n <= m
  <2>1. m \in Nat /\ n \in Nat /\ (m < n => <<m, n>> \in Less)
    OBVIOUS
  <2> QED
    BY <1>1, <2>1
<1> QED
  BY <1>2

\* Induction up to n.
LEMMA UpTo ==
  ASSUME NEW n \in Nat, NEW T, 0 \in T, \A i \in 0..(n - 1) : i \in T => i + 1 \in T
  PROVE  \A i \in 0..n : i \in T
<1> DEFINE Bad == {i \in 0..n : i \notin T}
<1> SUFFICES ASSUME Bad # {} PROVE FALSE
  OBVIOUS
<1>1. Bad \subseteq Nat
  OBVIOUS
<1>2. PICK i \in Bad : \A j \in Bad : i <= j
  <2> HIDE DEF Bad
  <2> QED
    BY <1>1, LeastElement
<1>3. i # 0 /\ i - 1 \in 0..(n - 1) /\ i - 1 \in 0..n /\ (i - 1) + 1 = i
  BY <1>2
<1>4. i - 1 \in T
  BY <1>2, <1>3
<1> QED
  BY <1>2, <1>3, <1>4

\* The function on 0..n with values in S that starts with z and takes the value
\* at i - 1 to the value at i by F[i].
Recursive(f, n, S, z, F) ==
    f \in [0..n -> S] /\ f[0] = z /\ \A i \in 1..n : f[i] = F[i][f[i - 1]]

\* It exists.
LEMMA RecursionExists ==
  ASSUME NEW n \in Nat, NEW S, NEW z \in S, NEW F \in [1..n -> [S -> S]]
  PROVE  \E f : Recursive(f, n, S, z, F)
<1> DEFINE Is(f, m) == f \in [0..m -> S] /\ f[0] = z /\ \A i \in 1..m : f[i] = F[i][f[i - 1]]
           T == {m \in 0..n : \E f : Is(f, m)}
<1>1. 0 \in T
  <2>1. Is([i \in 0..0 |-> z], 0)
    OBVIOUS
  <2>2. 0 \in 0..n
    OBVIOUS
  <2> HIDE DEF Is
  <2> QED
    BY <2>1, <2>2
<1>2. ASSUME NEW m \in 0..(n - 1), m \in T PROVE m + 1 \in T
  <2>1. PICK f : Is(f, m)
    BY <1>2
  <2> DEFINE g == [i \in 0..(m + 1) |-> IF i <= m THEN f[i] ELSE F[m + 1][f[m]]]
  <2>2. m \in Nat /\ m + 1 \in 1..n /\ m + 1 \in 0..n /\ m \in 0..m
    OBVIOUS
  <2>3. f[m] \in S /\ F[m + 1] \in [S -> S]
    BY <2>1, <2>2
  <2>4. g \in [0..(m + 1) -> S]
    BY <2>1, <2>2, <2>3
  <2>5. g[0] = z
    BY <2>1, <2>2
  <2>6. ASSUME NEW i \in 1..(m + 1) PROVE g[i] = F[i][g[i - 1]]
    <3>1. CASE i <= m
      <4>1. i \in 1..m /\ g[i] = f[i] /\ g[i - 1] = f[i - 1]
        BY <2>2, <3>1
      <4> QED
        BY <2>1, <4>1
    <3>2. CASE ~(i <= m)
      <4>1. i = m + 1 /\ g[i] = F[m + 1][f[m]] /\ g[i - 1] = f[m]
        BY <2>2, <3>2
      <4> QED
        BY <4>1
    <3> QED
      BY <3>1, <3>2
  <2>7. Is(g, m + 1)
    BY <2>4, <2>5, <2>6
  <2> QED
    BY <2>2, <2>7
<1>3. n \in T
  <2> HIDE DEF T
  <2>1. \A i \in 0..n : i \in T
    BY <1>1, <1>2, UpTo
  <2> QED
    BY <2>1
<1> QED
  BY <1>3 DEF Recursive

(***************************************************************************)
(* Remainders.                                                             *)
(***************************************************************************)

\* A remainder is in its range.
LEMMA ModRange ==
  ASSUME NEW m \in Nat \ {0}, NEW a \in Int
  PROVE  a % m \in 0..(m - 1)
  OBVIOUS

\* A number below the modulus is its own remainder.
LEMMA ModBelow ==
  ASSUME NEW m \in Nat \ {0}, NEW a \in 0..(m - 1)
  PROVE  a % m = a
  OBVIOUS

\* A number that passes the modulus once wraps once.
LEMMA ModAbove ==
  ASSUME NEW m \in Nat \ {0}, NEW a \in m..(2 * m - 1)
  PROVE  a % m = a - m
  OBVIOUS

\* The remainder is unique.
LEMMA ModUnique ==
  ASSUME NEW m \in Nat \ {0}, NEW a \in Int, NEW q \in Int, NEW r \in 0..(m - 1),
         a = q * m + r
  PROVE  a % m = r
  OBVIOUS

\* Multiples of the modulus do not matter.
LEMMA ModShift ==
  ASSUME NEW m \in Nat \ {0}, NEW a \in Int, NEW k \in Int
  PROVE  (a + k * m) % m = a % m
<1>1. a = (a \div m) * m + (a % m) /\ a \div m \in Int /\ a % m \in 0..(m - 1)
  OBVIOUS
<1> DEFINE d == a \div m
           r == a % m
<1> HIDE DEF d, r
<1>2. d \in Int /\ r \in 0..(m - 1) /\ a = d * m + r
  BY <1>1 DEF d, r
<1>3. d + k \in Int /\ a + k * m \in Int /\ a + k * m = (d + k) * m + r
  BY <1>2
<1>4. (a + k * m) % m = r
  BY <1>2, <1>3, ModUnique
<1> QED
  BY <1>4 DEF r

\* Two numbers less than the modulus apart have different remainders.
LEMMA ModApart ==
  ASSUME NEW m \in Nat \ {0}, NEW a \in Int, NEW b \in Int,
         a % m = b % m, b - a \in 0..(m - 1)
  PROVE  a = b
<1> DEFINE q == a \div m
           r == a % m
           d == b - a
<1>1. q \in Int /\ r \in 0..(m - 1) /\ a = q * m + r /\ d \in 0..(m - 1) /\ b = a + d
  OBVIOUS
<1> HIDE DEF q, r, d
<1>2. CASE r + d < m
  <2>1. b = q * m + (r + d) /\ r + d \in 0..(m - 1)
    BY <1>1, <1>2
  <2>2. b % m = r + d
    BY <1>1, <2>1, ModUnique
  <2> QED
    BY <1>1, <2>2 DEF r
<1>3. CASE r + d >= m
  <2>1. b = (q + 1) * m + (r + d - m) /\ r + d - m \in 0..(m - 1) /\ q + 1 \in Int
    BY <1>1, <1>3
  <2>2. b % m = r + d - m
    BY <2>1, ModUnique
  <2> QED
    BY <1>1, <2>2 DEF r
<1> QED
  BY <1>1, <1>2, <1>3

\* Nor does a width that is a multiple of the modulus.
LEMMA ModWidth ==
  ASSUME NEW m \in Nat \ {0}, NEW c \in Nat, c % m = 0, NEW a \in Int
  PROVE  (a - c) % m = a % m
<1> DEFINE k == c \div m
<1>1. c = k * m /\ k \in Int
  OBVIOUS
<1> HIDE DEF k
<1>2. a - c = a + (-k) * m /\ -k \in Int
  BY <1>1
<1> QED
  BY <1>2, ModShift

(***************************************************************************)
(* Counters that wrap.                                                     *)
(***************************************************************************)

\* A counter moves on by n and wraps at most once.
LEMMA AddWraps ==
  ASSUME NEW m \in Nat \ {0}, NEW a \in 0..(m - 1), NEW n \in 0..m
  PROVE  /\ (a + n) % m \in 0..(m - 1)
         /\ (a + n) % m = IF a + n < m THEN a + n ELSE a + n - m
<1> DEFINE x == a + n
<1>1. x \in Nat /\ x < 2 * m
  OBVIOUS
<1> HIDE DEF x
<1>2. CASE x < m
  BY <1>1, <1>2, ModBelow DEF x
<1>3. CASE x >= m
  <2>1. x \in m..(2 * m - 1)
    BY <1>1, <1>3
  <2>2. x % m = x - m /\ x - m \in 0..(m - 1)
    BY <2>1, ModAbove
  <2> QED
    BY <1>1, <1>3, <2>2 DEF x
<1> QED
  BY <1>1, <1>2, <1>3

\* The distance from counter b up to counter a.
LEMMA DiffWraps ==
  ASSUME NEW m \in Nat \ {0}, NEW a \in 0..(m - 1), NEW b \in 0..(m - 1)
  PROVE  /\ (a + m - b) % m \in 0..(m - 1)
         /\ (a + m - b) % m = IF a >= b THEN a - b ELSE a + m - b
<1> DEFINE n == m - b
<1>1. n \in 0..m /\ a + m - b = a + n
  OBVIOUS
<1> HIDE DEF n
<1>2. /\ (a + n) % m \in 0..(m - 1)
      /\ (a + n) % m = IF a + n < m THEN a + n ELSE a + n - m
  BY <1>1, AddWraps
<1>3. a + n < m <=> ~(a >= b)
  BY <1>1
<1>4. a + n - m = a - b /\ a + n = a + m - b
  BY <1>1 DEF n
<1> QED
  BY <1>1, <1>2, <1>3, <1>4
=============================================================================
