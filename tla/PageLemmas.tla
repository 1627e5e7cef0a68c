---------------------------- MODULE PageLemmas ----------------------------
(* What the proofs need of numbers: quotients, page counts and residues;   *)
(* induction and functions defined by recursion.                           *)
EXTENDS Pages, TLAPS, WellFoundedInduction

(* Quotient and remainder are the only ones that fit: what the two facts   *)
(* about PageCount below rest on.                                          *)
LEMMA DivModUnique ==
    ASSUME NEW p \in Nat \ {0}, NEW n \in Nat,
           NEW q \in Nat, NEW r \in 0..(p - 1), n = p * q + r
    PROVE  n \div p = q /\ n % p = r
OBVIOUS

LEMMA DivModDef ==
    ASSUME NEW p \in Nat \ {0}, NEW n \in Nat
    PROVE  /\ n \div p \in Nat
           /\ n % p \in 0..(p - 1)
           /\ n = p * (n \div p) + (n % p)
OBVIOUS

(* The page count of a range: none for the empty range, at least one for   *)
(* any other.                                                              *)
LEMMA PageCountZero ==
    ASSUME NEW p \in Nat \ {0}, NEW n \in Nat
    PROVE  /\ PageCount(n, p) \in Nat
           /\ PageCount(n, p) = 0 <=> n = 0
BY DivModDef DEF PageCount

(* Filling one page takes exactly one off the count of the rest. *)
LEMMA PageCountStep ==
    ASSUME NEW p \in Nat \ {0}, NEW n \in Nat \ {0}
    PROVE  /\ Least(n, p) \in 1..n
           /\ PageCount(n - Least(n, p), p) = PageCount(n, p) - 1
<1>1. CASE n <= p
  BY <1>1, DivModUnique DEF PageCount, Least
<1>2. CASE n > p
  <2>1. n - p \in Nat
    BY <1>2
  <2>2. n - p = p * (n \div p - 1) + (n % p)
    BY DivModDef
  <2>3. n \div p - 1 \in Nat
    BY <1>2, DivModDef
  <2>4. (n - p) \div p = n \div p - 1 /\ (n - p) % p = n % p
    <3> DEFINE m == n - p
               q == n \div p - 1
               r == n % p
    <3>1. m \in Nat /\ q \in Nat /\ r \in 0..(p - 1) /\ m = p * q + r
      BY <2>1, <2>2, <2>3, DivModDef
    <3> HIDE DEF m, q, r
    <3>2. m \div p = q /\ m % p = r
      BY <3>1, DivModUnique
    <3> QED
      BY <3>2 DEF m, q, r
  <2> QED
    BY <1>2, <2>4, DivModDef DEF PageCount, Least
<1> QED
  BY <1>1, <1>2

(* Every page the count allows for begins inside the range. *)
LEMMA PageStartsInside ==
    ASSUME NEW p \in Nat \ {0}, NEW n \in Nat, NEW i \in 1..PageCount(n, p)
    PROVE  (i - 1) * p \in Nat /\ (i - 1) * p < n
<1> DEFINE q == n \div p
           r == n % p
<1>1. q \in Nat /\ r \in 0..(p - 1) /\ n = p * q + r
  BY DivModDef
<1>2. i \in Nat \ {0} /\ (i <= q \/ (i = q + 1 /\ r # 0))
  BY <1>1, PageCountZero DEF PageCount
<1> HIDE DEF q, r
<1>3. (i - 1) * p \in Nat
  BY <1>2
<1>4. CASE i <= q
  <2>1. (i - 1) * p + p = i * p
    BY <1>2
  <2>2. \A d \in Nat : (i + d) * p = i * p + d * p /\ d * p \in Nat
    BY <1>2
  <2>3. q - i \in Nat /\ i + (q - i) = q
    BY <1>1, <1>2, <1>4
  <2>4. q * p = i * p + (q - i) * p /\ (q - i) * p \in Nat
    BY <2>2, <2>3
  <2>5. q * p = p * q /\ i * p \in Nat
    BY <1>1, <1>2
  <2> QED
    BY <1>1, <1>3, <2>1, <2>4, <2>5
<1>5. CASE i = q + 1 /\ r # 0
  <2>1. (i - 1) * p = p * q
    BY <1>1, <1>5
  <2> QED
    BY <1>1, <1>3, <1>5, <2>1
<1> QED
  BY <1>2, <1>4, <1>5

(* Two numbers less than m apart with one residue are the same number. *)
LEMMA SameResidue ==
    ASSUME NEW m \in Nat \ {0}, NEW x \in Nat, NEW y \in Nat,
           x <= y, y - x < m, x % m = y % m
    PROVE  x = y
<1> DEFINE d == y - x
           q == x \div m
           r == x % m
<1>1. d \in 0..(m - 1) /\ y = x + d
  OBVIOUS
<1>6. q \in Nat /\ r \in 0..(m - 1) /\ x = m * q + r
  BY DivModDef
<1>2. y % m = r
  OBVIOUS
<1> HIDE DEF d, q, r
<1>3. CASE r + d < m
  <2>1. y = m * q + (r + d) /\ r + d \in 0..(m - 1)
    BY <1>1, <1>6, <1>3
  <2>2. y % m = r + d
    BY <1>1, <1>6, <2>1, DivModUnique
  <2> QED
    BY <1>1, <1>6, <1>2, <2>2
<1>4. CASE r + d >= m
  <2>1. r + d - m \in 0..(m - 1) /\ q + 1 \in Nat
    BY <1>1, <1>6, <1>4
  <2>2. m * (q + 1) = m * q + m
    BY <1>1, <1>6
  <2>3. m * q \in Nat /\ m * (q + 1) \in Nat
    BY <1>1, <1>6
  <2>4. y = m * (q + 1) + (r + d - m)
    BY <1>1, <1>6, <2>2, <2>3
  <2>5. y % m = r + d - m
    BY <2>1, <2>4, DivModUnique
  <2> QED
    BY <1>1, <1>6, <1>2, <2>5
<1> QED
  BY <1>1, <1>6, <1>3, <1>4

LEMMA SmallResidue ==
    ASSUME NEW m \in Nat \ {0}, NEW r \in 0..(m - 1)
    PROVE  r % m = r
OBVIOUS

(* Counting on modulo m. *)
LEMMA NextResidue ==
    ASSUME NEW m \in Nat \ {0}, NEW x \in Nat
    PROVE  (x + 1) % m = ((x % m) + 1) % m
<1> DEFINE q == x \div m
           r == x % m
<1>1. q \in Nat /\ r \in 0..(m - 1) /\ x = m * q + r
  BY DivModDef
<1> HIDE DEF q, r
<1>2. CASE r + 1 < m
  <2> DEFINE y == x + 1
             s == r + 1
  <2>1. y \in Nat /\ y = m * q + s /\ s \in 0..(m - 1)
    BY <1>1, <1>2
  <2> HIDE DEF y, s
  <2>2. y % m = s
    BY <1>1, <2>1, DivModUnique
  <2>3. s % m = s
    BY <2>1, SmallResidue
  <2> QED
    BY <2>2, <2>3 DEF r, s, y
<1>3. CASE r + 1 = m
  <2>1. m * (q + 1) = m * q + m /\ m * q \in Nat
    BY <1>1
  <2>2. x + 1 = m * (q + 1) + 0 /\ q + 1 \in Nat /\ 0 \in 0..(m - 1)
    BY <1>1, <1>3, <2>1
  <2>3. (x + 1) % m = 0
    BY <1>1, <2>2, DivModUnique
  <2>4. m = m * 1 + 0
    OBVIOUS
  <2>5. (r + 1) % m = 0
    BY <1>3, <2>2, <2>4, DivModUnique
  <2> QED
    BY <2>3, <2>5 DEF r
<1> QED
  BY <1>1, <1>2, <1>3
---------------------------------------------------------------------------
(* A set of numbers has a least one: induction, in a form that needs no    *)
(* operator for the statement that is proved by it.                        *)
LEMMA Smallest ==
    ASSUME NEW T \in SUBSET Nat, T # {}
    PROVE  \E m \in T : \A n \in T : m <= n
<1> DEFINE R == OpToRel(<, Nat)
<1>1. IsWellFoundedOn(R, Nat)
  BY NatLessThanWellFounded
<1>2. \A x, y \in Nat : <<x, y>> \in R <=> x < y
  BY DEF OpToRel
<1> HIDE DEF R
<1>3. PICK m \in T : \A n \in T : ~(<<n, m>> \in R)
  BY <1>1, WFMin
<1>4. ASSUME NEW n \in T
      PROVE  m <= n
  <2>1. ~(<<n, m>> \in R) /\ n \in Nat /\ m \in Nat
    BY <1>3
  <2>2. ~(n < m)
    BY <1>2, <2>1
  <2> QED
    BY <2>1, <2>2
<1> QED
  BY <1>4

(* And a set of numbers up to n has a greatest one. *)
LEMMA Greatest ==
    ASSUME NEW n \in Nat, NEW T \in SUBSET (1..n), T # {}
    PROVE  \E m \in T : \A i \in T : m >= i
<1> DEFINE U == {n - i : i \in T}
<1>1. U \in SUBSET Nat /\ U # {}
  <2>1. \A i \in 1..n : n - i \in Nat
    OBVIOUS
  <2>2. PICK i : i \in T
    OBVIOUS
  <2>3. n - i \in U
    BY <2>2
  <2> QED
    BY <2>1, <2>3
<1>2. PICK u \in U : \A v \in U : u <= v
  BY <1>1, Smallest
<1>3. PICK m \in T : u = n - m
  BY <1>2
<1>4. ASSUME NEW i \in T
      PROVE  m >= i
  <2>1. n - i \in U /\ i \in 1..n /\ m \in 1..n
    OBVIOUS
  <2>2. u <= n - i
    BY <1>2, <2>1
  <2> QED
    BY <1>3, <2>1, <2>2
<1> QED
  BY <1>4

(* Induction along 0..n, likewise. *)
LEMMA UpTo ==
    ASSUME NEW n \in Nat, NEW T, 0 \in T, \A i \in 1..n : i - 1 \in T => i \in T
    PROVE  0..n \subseteq T
<1> DEFINE U == (0..n) \ T
<1> SUFFICES ASSUME U # {} PROVE FALSE
  OBVIOUS
<1>1. U \in SUBSET Nat
  OBVIOUS
<1>2. PICK m \in U : \A k \in U : m <= k
  BY <1>1, Smallest
<1>3. m \in 1..n /\ m - 1 \in 0..n /\ ~(m <= m - 1)
  BY <1>2
<1>4. m - 1 \in T
  BY <1>2, <1>3
<1> QED
  BY <1>2, <1>3, <1>4

(* f takes the value a at 0 and is continued by F. *)
Unfolds(f, n, A, a, F) ==
    f \in [0..n -> A] /\ f[0] = a /\ \A i \in 1..n : f[i] = F[i][f[i - 1]]

(* A function defined by recursion along 1..n exists. *)
LEMMA Recursion ==
    ASSUME NEW A, NEW n \in Nat, NEW a \in A,
           NEW F, \A i \in 1..n, x \in A : F[i][x] \in A
    PROVE  \E f : Unfolds(f, n, A, a, F)
<1> DEFINE T == {m \in 0..n : \E f : Unfolds(f, m, A, a, F)}
<1>1. 0 \in T
  <2> DEFINE f == [i \in {0} |-> a]
  <2>1. f \in [{0} -> A] /\ f[0] = a /\ 0..0 = {0} /\ 1..0 = {}
    OBVIOUS
  <2> HIDE DEF f
  <2>2. Unfolds(f, 0, A, a, F)
    BY <2>1 DEF Unfolds
  <2> QED
    BY <2>2
<1>2. ASSUME NEW m \in 1..n, m - 1 \in T
      PROVE  m \in T
  <2>1. PICK f : Unfolds(f, m - 1, A, a, F)
    BY <1>2
  <2> USE <2>1 DEF Unfolds
  <2> DEFINE g == [i \in 0..m |-> IF i = m THEN F[m][f[m - 1]] ELSE f[i]]
  <2>2. \A i \in 0..m : i = m \/ i \in 0..(m - 1)
    OBVIOUS
  <2>3. f[m - 1] \in A /\ F[m][f[m - 1]] \in A
    BY <1>2
  <2>4. g \in [0..m -> A]
    BY <2>2, <2>3
  <2>5. g[0] = a
    BY <1>2
  <2>6. ASSUME NEW i \in 1..m
        PROVE  g[i] = F[i][g[i - 1]]
    <3>1. i - 1 \in 0..m /\ i - 1 # m /\ i \in 0..m /\ g[i - 1] = f[i - 1]
      OBVIOUS
    <3>2. CASE i = m
      BY <3>1, <3>2
    <3>3. CASE i # m
      <4>1. i \in 1..(m - 1)
        BY <3>3
      <4>2. f[i] = F[i][f[i - 1]]
        BY <4>1
      <4> QED
        BY <3>1, <3>3, <4>2
    <3> QED
      BY <3>2, <3>3
  <2> HIDE DEF g
  <2>7. Unfolds(g, m, A, a, F)
    BY <2>4, <2>5, <2>6
  <2> QED
    BY <2>7
<1> HIDE DEF T
<1>3. n \in T
  <2>1. 0..n \subseteq T
    BY <1>1, <1>2, UpTo
  <2> QED
    BY <2>1
<1>4. PICK f : Unfolds(f, n, A, a, F)
  BY <1>3 DEF T
<1> QED
  BY <1>4
===========================================================================
