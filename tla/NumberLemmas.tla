----------------------------- MODULE NumberLemmas -----------------------------
(***************************************************************************)
(* What the proofs need of numbers: of remainders, whose divisor is a       *)
(* constant of the model (the size of a ring, of a base address register,   *)
(* of a cluster), and of induction.                                         *)
(***************************************************************************)
EXTENDS Integers, FiniteSets, FiniteSetTheorems, WellFoundedInduction, TLAPS

(* The remainder is unique.                                                 *)
LEMMA ModUnique ==
    ASSUME NEW s \in Nat \ {0}, NEW q \in Int, NEW r \in 0 .. (s - 1),
           NEW a \in Int, a = s * q + r
    PROVE  a % s = r
<1> DEFINE q2 == a \div s   r2 == a % s
<1>1. q2 \in Int /\ r2 \in 0 .. (s - 1) /\ a = s * q2 + r2
  OBVIOUS
<1> HIDE DEF q2, r2
<1>2. s * (q - q2) = r2 - r
  BY <1>1
<1>3. q - q2 = 0
  <2>1. CASE q - q2 >= 1
    <3>1. s * (q - q2) >= s
      BY <1>1, <2>1
    <3> QED
      BY <1>1, <1>2, <3>1
  <2>2. CASE q - q2 <= -1
    <3>1. s * (q - q2) <= -s
      BY <1>1, <2>2
    <3> QED
      BY <1>1, <1>2, <3>1
  <2> QED
    BY <1>1, <2>1, <2>2
<1>4. s * (q - q2) = 0
  BY <1>3
<1>5. r2 = r
  BY <1>1, <1>2, <1>4
<1> QED
  BY <1>5 DEF r2

(* What precedes a multiple.                                                *)
LEMMA BeforeMultiple ==
    ASSUME NEW t \in Nat \ {0}, NEW s \in Nat \ {0}, t % s = 0
    PROVE  (t - 1) % s = s - 1
<1> DEFINE k == t \div s   a == t - 1   q == k - 1   r == s - 1
<1>1. t = s * k /\ k \in Int
  OBVIOUS
<1> HIDE DEF k
<1>2. a = s * q + r /\ q \in Int /\ r \in 0 .. (s - 1) /\ a \in Int
  BY <1>1
<1> HIDE DEF a, q, r
<1>3. a % s = r
  BY <1>2, ModUnique
<1> QED
  BY <1>3 DEF a, r

(* An index that runs beyond the end of a ring, or before its beginning, by *)
(* less than its size.                                                      *)
LEMMA ModSmall ==
    ASSUME NEW s \in Nat \ {0}, NEW a \in Int, -s <= a, a < 2 * s
    PROVE  /\ a < 0 => a % s = a + s
           /\ 0 <= a /\ a < s => a % s = a
           /\ s <= a => a % s = a - s
<1>1. CASE a < 0
  <2> DEFINE r == a + s
  <2>1. r \in 0 .. (s - 1) /\ a = s * (-1) + r
    BY <1>1
  <2> HIDE DEF r
  <2>2. a % s = r
    BY <2>1, ModUnique
  <2> QED
    BY <1>1, <2>2 DEF r
<1>2. CASE 0 <= a /\ a < s
  <2>1. a \in 0 .. (s - 1) /\ a = s * 0 + a
    BY <1>2
  <2>2. a % s = a
    BY <2>1, ModUnique
  <2> QED
    BY <1>2, <2>2
<1>3. CASE s <= a
  <2> DEFINE r == a - s
  <2>1. r \in 0 .. (s - 1) /\ a = s * 1 + r
    BY <1>3
  <2> HIDE DEF r
  <2>2. a % s = r
    BY <2>1, ModUnique
  <2> QED
    BY <1>3, <2>2 DEF r
<1> QED
  BY <1>1, <1>2, <1>3
-----------------------------------------------------------------------------
(* Induction.  The induction theorems of the library take an operator; what *)
(* follows says the same of sets.                                           *)

LEMMA LeastNumber ==
    ASSUME NEW T \in SUBSET Nat, T # {}
    PROVE  \E n \in T : \A m \in T : n <= m
<1> DEFINE U == {0 .. n : n \in T}
<1>1. IsWellFoundedOn(StrictSubsetOrdering(Nat), FiniteSubsetsOf(Nat))
  BY FS_StrictSubsetOrderingWellFounded
<1>2. ASSUME NEW n \in T PROVE 0 .. n \in FiniteSubsetsOf(Nat)
  <2>1. 0 \in Int /\ n \in Int
    OBVIOUS
  <2>2. IsFiniteSet(0 .. n)
    BY <2>1, FS_Interval
  <2> QED
    BY <2>2 DEF FiniteSubsetsOf
<1>3. U \subseteq FiniteSubsetsOf(Nat) /\ U # {}
  BY <1>2
<1>4. PICK S \in U : \A X \in U : ~ (<<X, S>> \in StrictSubsetOrdering(Nat))
  BY <1>1, <1>3, WFMin
<1>5. PICK n \in T : S = 0 .. n
  OBVIOUS
<1>6. ASSUME NEW m \in T, m < n
      PROVE  FALSE
  <2>1. <<0 .. m, S>> \in StrictSubsetOrdering(Nat)
    BY <1>5, <1>6 DEF StrictSubsetOrdering
  <2> QED
    BY <1>4, <2>1
<1> QED
  BY <1>6

LEMMA UpTo ==
    ASSUME NEW N \in Nat, NEW S, 0 \in S,
           \A i \in 1 .. N : i - 1 \in S => i \in S
    PROVE  0 .. N \subseteq S
<1> DEFINE T == {i \in 0 .. N : i \notin S}
<1> SUFFICES ASSUME T # {} PROVE FALSE
  OBVIOUS
<1>1. T \in SUBSET Nat
  OBVIOUS
<1>2. PICK n \in T : \A m \in T : n <= m
  BY <1>1, LeastNumber
<1>3. n \in 1 .. N /\ n - 1 \in 0 .. N /\ n - 1 \notin T
  BY <1>2
<1> QED
  BY <1>3

(* g[i] is what f[1] to f[i] make of s, one after the other, for i up to n. *)
Composes(g, n, f, s) == g = [i \in 0 .. n |-> IF i = 0 THEN s ELSE f[i][g[i - 1]]]

(* A function may be defined by its value before.                           *)
LEMMA ComposeExists ==
    ASSUME NEW N \in Nat, NEW f, NEW s
    PROVE  \E g : Composes(g, N, f, s)
<1> DEFINE S == {n \in 0 .. N : \E g : Composes(g, n, f, s)}
<1>1. 0 \in S
  <2>1. Composes([i \in 0 .. 0 |-> s], 0, f, s)
    BY DEF Composes
  <2> QED
    BY <2>1
<1>2. ASSUME NEW n \in 1 .. N, n - 1 \in S
      PROVE  n \in S
  <2>1. PICK g : Composes(g, n - 1, f, s)
    BY <1>2
  <2> DEFINE h == [i \in 0 .. n |-> IF i = n THEN f[n][g[n - 1]] ELSE g[i]]
  <2>2. ASSUME NEW i \in 0 .. n
        PROVE  h[i] = IF i = 0 THEN s ELSE f[i][h[i - 1]]
    <3>1. CASE i = n
      BY <3>1
    <3>2. CASE i # n
      <4>1. i \in 0 .. (n - 1) /\ h[i] = g[i]
        BY <3>2
      <4>2. g[i] = IF i = 0 THEN s ELSE f[i][g[i - 1]]
        BY <2>1, <4>1 DEF Composes
      <4>3. i # 0 => h[i - 1] = g[i - 1]
        BY <4>1
      <4> QED
        BY <4>1, <4>2, <4>3
    <3> QED
      BY <3>1, <3>2
  <2>3. Composes(h, n, f, s)
    BY <2>2 DEF Composes
  <2> HIDE DEF h
  <2> QED
    BY <2>3
<1> HIDE DEF S
<1>3. 0 .. N \subseteq S
  BY <1>1, <1>2, UpTo
<1> QED
  BY <1>3 DEF S

LEMMA ComposeStays ==
    ASSUME NEW N \in Nat, NEW S, NEW s \in S, NEW f \in [1 .. N -> [S -> S]]
    PROVE  \E g \in [0 .. N -> S] : Composes(g, N, f, s)
<1>1. PICK g : Composes(g, N, f, s)
  BY ComposeExists
<1> DEFINE T == {i \in 0 .. N : g[i] \in S}
<1>2. 0 \in T
  BY <1>1 DEF Composes
<1>3. ASSUME NEW i \in 1 .. N, i - 1 \in T PROVE i \in T
  BY <1>1, <1>3 DEF Composes
<1> HIDE DEF T
<1>4. 0 .. N \subseteq T
  BY <1>2, <1>3, UpTo
<1> QED
  BY <1>1, <1>4 DEF Composes, T

(* g is what f makes of s in i turns, for i up to n.                        *)
Iterates(g, n, f, s) == g = [i \in 0 .. n |-> IF i = 0 THEN s ELSE f[g[i - 1]]]

LEMMA IterateExists ==
    ASSUME NEW N \in Nat, NEW f, NEW s
    PROVE  \E g : Iterates(g, N, f, s)
<1> DEFINE fs == [i \in 1 .. N |-> f]
<1>1. PICK g : Composes(g, N, fs, s)
  BY ComposeExists
<1>2. ASSUME NEW i \in 0 .. N
      PROVE  (IF i = 0 THEN s ELSE fs[i][g[i - 1]]) = (IF i = 0 THEN s ELSE f[g[i - 1]])
  BY DEF fs
<1> HIDE DEF fs
<1>3. Iterates(g, N, f, s)
  BY <1>1, <1>2 DEF Composes, Iterates
<1> QED
  BY <1>3

LEMMA IterateSteps ==
    ASSUME NEW N \in Nat, NEW f, NEW s, NEW g, Iterates(g, N, f, s)
    PROVE  g[0] = s /\ \A i \in 1 .. N : g[i] = f[g[i - 1]]
BY DEF Iterates

(* The quotient of a number. *)
LEMMA Quotient ==
    ASSUME NEW a \in Nat, NEW b \in Nat \ {0}
    PROVE  a \div b \in 0 .. a /\ a % b \in 0 .. (b - 1) /\ a = b * (a \div b) + (a % b)
<1> DEFINE q == a \div b   r == a % b
<1>1. q \in Int /\ r \in 0 .. (b - 1) /\ a = b * q + r
  OBVIOUS
<1> HIDE DEF q, r
<1>2. q >= 0
  <2> SUFFICES ASSUME q <= -1 PROVE FALSE
    BY <1>1
  <2>1. b * q <= -b
    BY <1>1
  <2> QED
    BY <1>1, <2>1
<1>3. b * q >= q
  BY <1>1, <1>2
<1> QED
  BY <1>1, <1>2, <1>3 DEF q, r

(* Where a number goes on from a multiple by less than, or up to, the next. *)
LEMMA QuotientStep ==
    ASSUME NEW a \in Nat, NEW b \in Nat \ {0}, NEW m \in 0 .. (b - (a % b))
    PROVE  IF (a + m) % b = 0 /\ m # 0
           THEN (a + m) \div b = (a \div b) + 1 /\ m = b - (a % b)
           ELSE (a + m) \div b = a \div b
<1> DEFINE q == a \div b   r == a % b   t == (a + m) \div b   u == (a + m) % b
<1>1. q \in Nat /\ r \in 0 .. (b - 1) /\ a = b * q + r
  <2>1. q \in 0 .. a /\ r \in 0 .. (b - 1) /\ a = b * q + r
    BY Quotient
  <2> HIDE DEF q, r
  <2> QED
    BY <2>1
<1>2. m \in Nat /\ m <= b - r
  <2> HIDE DEF r
  <2>1. m \in 0 .. (b - r)
    BY DEF r
  <2> QED
    BY <1>1, <2>1
<1>3. a + m \in Nat
  BY <1>2
<1>4. t \in Nat /\ u \in 0 .. (b - 1) /\ a + m = b * t + u
  <2>1. t \in 0 .. (a + m) /\ u \in 0 .. (b - 1) /\ a + m = b * t + u
    BY <1>3, Quotient
  <2> HIDE DEF t, u
  <2> QED
    BY <1>3, <2>1
<1> HIDE DEF q, r, t, u
<1>5. b * q \in Int /\ b * t \in Int /\ b * (q + 1) = b * q + b /\ b * (q + 2) = b * q + b + b
  BY <1>1, <1>4
<1>6. t >= q
  <2> SUFFICES ASSUME t + 1 <= q PROVE FALSE
    BY <1>1, <1>4
  <2>1. b * (t + 1) <= b * q /\ b * (t + 1) = b * t + b
    BY <1>1, <1>4
  <2> QED
    BY <1>1, <1>2, <1>4, <1>5, <2>1
<1>7. t <= q + 1
  <2> SUFFICES ASSUME t >= q + 2 PROVE FALSE
    BY <1>1, <1>4
  <2>1. b * t >= b * (q + 2)
    BY <1>1, <1>4
  <2> QED
    BY <1>1, <1>2, <1>4, <1>5, <2>1
<1>8. t = q \/ t = q + 1
  BY <1>1, <1>4, <1>6, <1>7
<1>9. CASE t = q
  <2>1. r + m = u
    BY <1>1, <1>2, <1>4, <1>5, <1>9
  <2>2. ~(u = 0 /\ m # 0)
    BY <1>1, <1>2, <1>4, <2>1
  <2> QED
    BY <1>9, <2>2 DEF q, t, u
<1>10. CASE t = q + 1
  <2>1. r + m = b + u
    BY <1>1, <1>2, <1>4, <1>5, <1>10
  <2>2. u = 0 /\ m = b - r /\ m # 0
    BY <1>1, <1>2, <1>4, <2>1
  <2> QED
    BY <1>10, <2>2 DEF q, r, t, u
<1> QED
  BY <1>8, <1>9, <1>10
=============================================================================
