---------------------------- MODULE SumsTheorems ----------------------------
(***************************************************************************)
(* What the accounting proofs need of finite sums: the recursion is well   *)
(* defined, a sum follows the change of one term, and a sum of naturals    *)
(* bounds each of its terms.  Induction is over sets of naturals, from the *)
(* well-foundedness of < on Nat.                                           *)
(***************************************************************************)
EXTENDS Sums, WellFoundedInduction, TLAPS

Below == {ss \in Nat \X Nat : ss[1] < ss[2]}

\* A non-empty set of naturals has a least element.
LEMMA LeastNatural ==
    ASSUME NEW S, S \subseteq Nat, S # {}
    PROVE  \E x \in S : \A y \in S : x <= y
<1>1. IsWellFoundedOn(Below, Nat)
  BY ONLY NatLessThanWellFounded DEF Below, OpToRel
<1>2. PICK x \in S : \A y \in S : ~(<<y, x>> \in Below)
  BY <1>1, WFMin, Zenon
<1>3. \A y \in S : ~(y < x)
  BY <1>2, Zenon DEF Below
<1>4. \A y \in S : y \in Nat /\ x \in Nat
  OBVIOUS
<1> QED BY <1>3, <1>4

\* A set that contains 0 and is closed under successor contains every natural.
LEMMA NatSetInduction ==
    ASSUME NEW S, 0 \in S, \A n \in Nat : n \in S => n + 1 \in S
    PROVE  \A n \in Nat : n \in S
<1> DEFINE T == Nat \ S
<1>1. SUFFICES ASSUME T # {} PROVE FALSE
  OBVIOUS
<1>2. T \subseteq Nat
  OBVIOUS
<1>4. PICK x \in T : \A y \in T : x <= y
  <2> HIDE DEF T
  <2> QED BY <1>1, <1>2, LeastNatural
<1>5. \A y \in T : ~(y < x)
  BY <1>4
<1>6. x \in Nat /\ x # 0
  OBVIOUS
<1>7. x - 1 \in Nat /\ x - 1 < x
  BY <1>6
<1>8. x - 1 \in S
  BY <1>5, <1>7
<1> QED BY <1>7, <1>8

\* p is the function of partial sums of f up to n terms.
ArePartialSums(p, f, n) ==
    /\ p \in [0 .. n -> Int]
    /\ p[0] = 0
    /\ \A i \in 1 .. n : p[i] = p[i - 1] + f[i]

\* Partial sums exist for every finite sequence of integers.
LEMMA PartialSumsExist ==
    ASSUME NEW n \in Nat, NEW f, \A i \in 1 .. n : f[i] \in Int
    PROVE  \E p : ArePartialSums(p, f, n)
<1> DEFINE S == {m \in Nat : m <= n => \E p : ArePartialSums(p, f, m)}
<1>1. 0 \in S
  <2>1. ArePartialSums([i \in 0 .. 0 |-> 0], f, 0)
    BY DEF ArePartialSums
  <2> QED BY <2>1
<1>2. ASSUME NEW m \in Nat, m \in S PROVE m + 1 \in S
  <2>1. SUFFICES ASSUME m + 1 <= n PROVE \E p : ArePartialSums(p, f, m + 1)
    OBVIOUS
  <2>2. PICK p : ArePartialSums(p, f, m)
    BY <1>2, <2>1
  <2> DEFINE q == [i \in 0 .. m + 1 |-> IF i = m + 1 THEN p[m] + f[m + 1] ELSE p[i]]
  <2>3. f[m + 1] \in Int /\ p[m] \in Int
    BY <2>1, <2>2 DEF ArePartialSums
  <2>4. q \in [0 .. m + 1 -> Int]
    BY <2>2, <2>3 DEF ArePartialSums
  <2>5. q[0] = 0
    BY <2>2 DEF ArePartialSums
  <2>6. ASSUME NEW i \in 1 .. m + 1 PROVE q[i] = q[i - 1] + f[i]
    <3>1. CASE i = m + 1
      BY <3>1
    <3>2. CASE i # m + 1
      <4>1. i \in 1 .. m /\ i - 1 \in 0 .. m
        BY <3>2
      <4>2. q[i] = p[i] /\ q[i - 1] = p[i - 1]
        BY <4>1
      <4> QED BY <2>2, <4>1, <4>2 DEF ArePartialSums
    <3> QED BY <3>1, <3>2
  <2>7. ArePartialSums(q, f, m + 1)
    <3> HIDE DEF q
    <3> QED BY <2>4, <2>5, <2>6 DEF ArePartialSums
  <2> QED BY <2>7
<1>3. \A m \in Nat : m \in S
  <2> HIDE DEF S
  <2> QED BY <1>1, <1>2, NatSetInduction
<1> QED BY <1>3

\* The recursive function of module Sums is the function of partial sums.
LEMMA PartialSumsDef ==
    ASSUME NEW n \in Nat, NEW f, \A i \in 1 .. n : f[i] \in Int
    PROVE  ArePartialSums(PartialSums(f, n), f, n)
<1> DEFINE R(p) == p = [i \in 0 .. n |-> IF i = 0 THEN 0 ELSE p[i - 1] + f[i]]
<1>1. PICK p : ArePartialSums(p, f, n)
  BY PartialSumsExist
<1>2. R(p)
  BY <1>1 DEF ArePartialSums
<1>3. PartialSums(f, n) = CHOOSE q : R(q)
  BY DEF PartialSums
<1>4. R(PartialSums(f, n))
  <2> HIDE DEF R
  <2> QED BY <1>2, <1>3
<1> DEFINE P == PartialSums(f, n)
           S == {i \in Nat : i <= n => P[i] \in Int}
<1>5. P = [i \in 0 .. n |-> IF i = 0 THEN 0 ELSE P[i - 1] + f[i]]
  BY <1>4
<1> HIDE DEF P
<1>6. 0 \in S
  BY <1>5
<1>7. ASSUME NEW i \in Nat, i \in S PROVE i + 1 \in S
  BY <1>5, <1>7
<1>8. \A i \in Nat : i \in S
  <2> HIDE DEF S
  <2> QED BY <1>6, <1>7, NatSetInduction
<1>9. P \in [0 .. n -> Int]
  BY <1>5, <1>8
<1>10. P[0] = 0 /\ \A i \in 1 .. n : P[i] = P[i - 1] + f[i]
  BY <1>5
<1> QED BY <1>9, <1>10 DEF ArePartialSums, P

\* A sum of integers is an integer.
LEMMA SumType ==
    ASSUME NEW n \in Nat, NEW f, \A i \in 1 .. n : f[i] \in Int
    PROVE  Sum(f, n) \in Int
BY PartialSumsDef DEF ArePartialSums, Sum

\* Changing one term changes the sum by the difference of that term.
LEMMA SumUpdate ==
    ASSUME NEW n \in Nat, NEW f, NEW g, NEW k \in 1 .. n,
           \A i \in 1 .. n : f[i] \in Int, \A i \in 1 .. n : g[i] \in Int,
           \A i \in 1 .. n : i # k => g[i] = f[i]
    PROVE  Sum(g, n) = Sum(f, n) - f[k] + g[k]
<1> DEFINE P == PartialSums(f, n)
           Q == PartialSums(g, n)
           S == {i \in Nat : i <= n => Q[i] = P[i] + (IF i >= k THEN g[k] - f[k] ELSE 0)}
<1>1. ArePartialSums(P, f, n) /\ ArePartialSums(Q, g, n)
  BY PartialSumsDef
<1> HIDE DEF P, Q
<1>2. 0 \in S
  BY <1>1 DEF ArePartialSums
<1>3. ASSUME NEW i \in Nat, i \in S PROVE i + 1 \in S
  <2>1. SUFFICES ASSUME i + 1 <= n
                 PROVE  Q[i + 1] = P[i + 1] + (IF i + 1 >= k THEN g[k] - f[k] ELSE 0)
    OBVIOUS
  <2>2. Q[i + 1] = Q[i] + g[i + 1] /\ P[i + 1] = P[i] + f[i + 1]
    BY <1>1, <2>1 DEF ArePartialSums
  <2>a. i \in 0 .. n /\ i + 1 \in 1 .. n
    BY <2>1
  <2>b. Q[i] \in Int /\ P[i] \in Int
    BY ONLY <1>1, <2>a DEF ArePartialSums
  <2>3. Q[i] \in Int /\ P[i] \in Int /\ f[i + 1] \in Int /\ g[i + 1] \in Int
        /\ f[k] \in Int /\ g[k] \in Int
    BY <2>a, <2>b, Zenon
  <2>4. Q[i] = P[i] + (IF i >= k THEN g[k] - f[k] ELSE 0)
    BY <1>3, <2>1
  <2>5. CASE i + 1 = k
    BY <2>2, <2>3, <2>4, <2>5
  <2>6. CASE i + 1 # k
    <3>1. g[i + 1] = f[i + 1] /\ (i + 1 >= k <=> i >= k)
      BY <2>1, <2>6
    <3> QED BY <2>2, <2>3, <2>4, <3>1
  <2> QED BY <2>5, <2>6
<1>4. \A i \in Nat : i \in S
  <2> HIDE DEF S
  <2> QED BY <1>2, <1>3, NatSetInduction
<1>5. Q[n] = P[n] + (g[k] - f[k])
  BY <1>4
<1>6. Q[n] \in Int /\ P[n] \in Int /\ f[k] \in Int /\ g[k] \in Int
  BY <1>1 DEF ArePartialSums
<1>7. Sum(f, n) = P[n] /\ Sum(g, n) = Q[n]
  BY DEF Sum, P, Q
<1> QED BY <1>5, <1>6, <1>7

\* A sum of naturals is a natural and at least each of its terms.
LEMMA SumBoundsTerms ==
    ASSUME NEW n \in Nat, NEW f, \A i \in 1 .. n : f[i] \in Nat
    PROVE  /\ Sum(f, n) \in Nat
           /\ \A k \in 1 .. n : f[k] <= Sum(f, n)
<1> DEFINE P == PartialSums(f, n)
           S == {i \in Nat : i <= n => P[i] \in Nat /\ \A k \in 1 .. i : f[k] <= P[i]}
<1>1. ArePartialSums(P, f, n)
  BY PartialSumsDef
<1> HIDE DEF P
<1>2. 0 \in S
  BY <1>1 DEF ArePartialSums
<1>3. ASSUME NEW i \in Nat, i \in S PROVE i + 1 \in S
  <2>1. SUFFICES ASSUME i + 1 <= n
                 PROVE  P[i + 1] \in Nat /\ \A k \in 1 .. i + 1 : f[k] <= P[i + 1]
    OBVIOUS
  <2>2. P[i + 1] = P[i] + f[i + 1] /\ f[i + 1] \in Nat
    BY <1>1, <2>1 DEF ArePartialSums
  <2>3. P[i] \in Nat /\ \A k \in 1 .. i : f[k] <= P[i]
    BY <1>3, <2>1
  <2>4. P[i + 1] \in Nat
    BY <2>2, <2>3
  <2>5. ASSUME NEW k \in 1 .. i + 1 PROVE f[k] <= P[i + 1]
    <3>1. f[k] \in Nat
      BY <2>1
    <3>2. CASE k = i + 1
      BY <2>2, <2>3, <3>2
    <3>3. CASE k # i + 1
      <4>1. f[k] <= P[i]
        BY <2>3, <3>3
      <4> QED BY <2>2, <2>3, <3>1, <4>1
    <3> QED BY <3>2, <3>3
  <2> QED BY <2>4, <2>5
<1>4. \A i \in Nat : i \in S
  <2> HIDE DEF S
  <2> QED BY <1>2, <1>3, NatSetInduction
<1>5. P[n] \in Nat /\ \A k \in 1 .. n : f[k] <= P[n]
  BY <1>4
<1> QED BY <1>5 DEF Sum, P

\* A sum of zeros is zero.
LEMMA SumZero ==
    ASSUME NEW n \in Nat, NEW f, \A i \in 1 .. n : f[i] = 0
    PROVE  Sum(f, n) = 0
<1> DEFINE P == PartialSums(f, n)
           S == {i \in Nat : i <= n => P[i] = 0}
<1>1. ArePartialSums(P, f, n)
  BY PartialSumsDef
<1> HIDE DEF P
<1>2. 0 \in S
  BY <1>1 DEF ArePartialSums
<1>3. ASSUME NEW i \in Nat, i \in S PROVE i + 1 \in S
  <2>1. SUFFICES ASSUME i + 1 <= n PROVE P[i + 1] = 0
    OBVIOUS
  <2>2. P[i + 1] = P[i] + f[i + 1]
    BY <1>1, <2>1 DEF ArePartialSums
  <2> QED BY <1>3, <2>1, <2>2
<1>4. \A i \in Nat : i \in S
  <2> HIDE DEF S
  <2> QED BY <1>2, <1>3, NatSetInduction
<1> QED BY <1>4 DEF Sum, P

=============================================================================
