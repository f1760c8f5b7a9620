----------------------------- MODULE SetInduction ----------------------------
(***************************************************************************)
(* Induction and recursion over the natural numbers in a form that takes   *)
(* sets and functions, not operators: what the other modules' proofs about *)
(* minima and about recursive functions rest on.                           *)
(***************************************************************************)
EXTENDS Naturals, FiniteSetTheorems, WellFoundedInduction, TLAPS

\* A set of numbers has a least one: 1 .. n grows with n, and the order of
\* finite sets by inclusion is well-founded.
LEMMA NatHasLeast ==
  ASSUME NEW S \in SUBSET Nat, S # {}
  PROVE  \E m \in S : \A n \in S : m <= n
<1> DEFINE R == StrictSubsetOrdering(Nat)
           F == FiniteSubsetsOf(Nat)
           T == {1 .. n : n \in S}
<1>1. IsWellFoundedOn(R, F)
  BY FS_StrictSubsetOrderingWellFounded
<1>2. ASSUME NEW n \in Nat PROVE 1 .. n \in F
  <2>1. IsFiniteSet(1 .. n)
    BY FS_Interval
  <2>2. QED
    BY <2>1 DEF FiniteSubsetsOf
<1>3. ASSUME NEW m \in Nat, NEW n \in Nat, m < n
      PROVE  <<1 .. m, 1 .. n>> \in R
  <2>1. 1 .. m \subseteq 1 .. n /\ n \in 1 .. n /\ n \notin 1 .. m
    BY <1>3
  <2>2. 1 .. m \in SUBSET Nat /\ 1 .. n \in SUBSET Nat
    OBVIOUS
  <2>3. QED
    BY <2>1, <2>2 DEF StrictSubsetOrdering
<1> HIDE DEF R, F
<1>4. T \subseteq F /\ T # {}
  BY <1>2
<1>5. PICK x \in T : \A y \in T : <<y, x>> \notin R
  BY <1>1, <1>4, WFMin
<1>6. PICK m \in S : x = 1 .. m
  OBVIOUS
<1>7. ASSUME NEW n \in S, n < m PROVE FALSE
  <2>1. <<1 .. n, 1 .. m>> \in R
    BY <1>3, <1>7
  <2>2. 1 .. n \in T
    OBVIOUS
  <2>3. QED
    BY <1>5, <1>6, <2>1, <2>2
<1>8. QED
  BY <1>7

\* Induction: a set that holds zero and every successor holds every number.
LEMMA NatInSet ==
  ASSUME NEW S, 0 \in S, \A n \in Nat : n \in S => n + 1 \in S
  PROVE  \A n \in Nat : n \in S
<1> DEFINE Out == Nat \ S
<1> SUFFICES ASSUME Out # {} PROVE FALSE
  OBVIOUS
<1>1. PICK m \in Out : \A n \in Out : m <= n
  <2>1. Out \in SUBSET Nat
    OBVIOUS
  <2> HIDE DEF Out
  <2>2. QED
    BY <2>1, NatHasLeast
<1>2. m \in Nat /\ m # 0
  OBVIOUS
<1>3. m - 1 \in Nat /\ (m - 1) + 1 = m /\ ~(m <= m - 1)
  BY <1>2
<1>4. m - 1 \in S
  BY <1>1, <1>3
<1>5. QED
  BY <1>3, <1>4

\* f has the first value a, and step gives each later one from the one before.
Recurs(f, a, step) == f[0] = a /\ \A n \in Nat : f[n + 1] = step[<<n, f[n]>>]

\* Recursion: there is such a function.
LEMMA RecursiveFunction ==
  ASSUME NEW T, NEW a \in T, NEW step \in [Nat \X T -> T]
  PROVE  \E f \in [Nat -> T] : Recurs(f, a, step)
<1> DEFINE Follows(g, m) == g[0] = a /\ \A n \in Nat : n < m => g[n + 1] = step[<<n, g[n]>>]
           S == {m \in Nat : \E g \in [Nat -> T] : Follows(g, m)}
           h(m) == CHOOSE g \in [Nat -> T] : Follows(g, m)
           f == [m \in Nat |-> h(m)[m]]
<1>1. \A m \in Nat : m \in S
  <2>1. 0 \in S
    <3>1. [n \in Nat |-> a] \in [Nat -> T] /\ Follows([n \in Nat |-> a], 0)
      OBVIOUS
    <3>2. QED
      BY <3>1
  <2>2. ASSUME NEW m \in Nat, m \in S
        PROVE  m + 1 \in S
    <3>1. PICK g \in [Nat -> T] : Follows(g, m)
      BY <2>2
    <3>2. step[<<m, g[m]>>] \in T
      OBVIOUS
    <3> DEFINE k == [g EXCEPT ![m + 1] = step[<<m, g[m]>>]]
    <3>3. k \in [Nat -> T] /\ k[m + 1] = step[<<m, g[m]>>] /\ \A n \in Nat : n # m + 1 => k[n] = g[n]
      BY <3>2
    <3> HIDE DEF k
    <3>4. k[0] = a
      BY <3>1, <3>3
    <3>5. ASSUME NEW n \in Nat, n < m + 1
          PROVE  k[n + 1] = step[<<n, k[n]>>]
      <4>1. k[n] = g[n]
        BY <3>3, <3>5
      <4>2. CASE n = m
        BY <3>3, <4>1, <4>2
      <4>3. CASE n # m
        <5>1. n < m /\ n + 1 \in Nat /\ n + 1 # m + 1
          BY <3>5, <4>3
        <5>2. g[n + 1] = step[<<n, g[n]>>]
          BY <3>1, <5>1
        <5>3. k[n + 1] = g[n + 1]
          BY <3>3, <5>1
        <5>4. QED
          BY <4>1, <5>2, <5>3
      <4>4. QED
        BY <4>2, <4>3
    <3>6. Follows(k, m + 1)
      BY <3>4, <3>5
    <3>7. QED
      BY <3>3, <3>6
  <2> HIDE DEF S
  <2>3. QED
    BY <2>1, <2>2, NatInSet
<1>2. \A m \in Nat : h(m) \in [Nat -> T] /\ Follows(h(m), m)
  <2> SUFFICES ASSUME NEW m \in Nat PROVE h(m) \in [Nat -> T] /\ Follows(h(m), m)
    OBVIOUS
  <2>1. \E g \in [Nat -> T] : Follows(g, m)
    BY <1>1
  <2> HIDE DEF Follows
  <2>2. QED
    BY <2>1
<1> HIDE DEF h
<1>3. \A k \in Nat : \A m \in Nat, n \in Nat : k <= m /\ k <= n => h(m)[k] = h(n)[k]
  <2> DEFINE A == {k \in Nat : \A m \in Nat, n \in Nat : k <= m /\ k <= n => h(m)[k] = h(n)[k]}
  <2>1. 0 \in A
    BY <1>2
  <2>2. ASSUME NEW k \in Nat, k \in A
        PROVE  k + 1 \in A
    <3> SUFFICES ASSUME NEW m \in Nat, NEW n \in Nat, k + 1 <= m, k + 1 <= n
                 PROVE  h(m)[k + 1] = h(n)[k + 1]
      OBVIOUS
    <3>1. k < m /\ k < n /\ k <= m /\ k <= n
      OBVIOUS
    <3>2. h(m)[k + 1] = step[<<k, h(m)[k]>>] /\ h(n)[k + 1] = step[<<k, h(n)[k]>>]
      BY <1>2, <3>1
    <3>3. h(m)[k] = h(n)[k]
      BY <2>2, <3>1
    <3>4. QED
      BY <3>2, <3>3
  <2>3. \A k \in Nat : k \in A
    <3> HIDE DEF A
    <3>1. QED
      BY <2>1, <2>2, NatInSet
  <2>4. QED
    BY <2>3
<1>4. f \in [Nat -> T] /\ f[0] = a
  BY <1>2
<1>5. ASSUME NEW n \in Nat
      PROVE  f[n + 1] = step[<<n, f[n]>>]
  <2>1. n + 1 \in Nat /\ n < n + 1 /\ n <= n + 1 /\ n <= n
    OBVIOUS
  <2>2. h(n + 1)[n + 1] = step[<<n, h(n + 1)[n]>>]
    BY <1>2, <2>1
  <2>3. h(n + 1)[n] = h(n)[n]
    BY <1>3, <2>1
  <2>4. QED
    BY <2>1, <2>2, <2>3
<1>6. Recurs(f, a, step)
  BY <1>4, <1>5 DEF Recurs
<1>7. QED
  BY <1>4, <1>6
==============================================================================
