------------------------------ MODULE SetFacts ------------------------------
(***************************************************************************)
(* Minima and maxima of sets of naturals: the rowids, times and positions  *)
(* the models choose by are the ones they name. Computations step by step, *)
(* of which recursive definitions are shown to be one.                     *)
(***************************************************************************)
EXTENDS FiniteSetsExt, WellFoundedInduction, TLAPS

\* A non-empty set of naturals has a least element.
LEMMA LeastNatural ==
  ASSUME NEW T, T \subseteq Nat, T # {}
  PROVE  \E x \in T : \A y \in T : x =< y
<1> DEFINE R == OpToRel(<, Nat)
<1>1. IsWellFoundedOn(R, Nat)
  BY NatLessThanWellFounded
<1>2. \E x \in T : \A y \in T : ~ (<<y, x>> \in R)
  <2> HIDE DEF R
  <2> QED BY <1>1, WFMin
<1>3. \A x, y \in Nat : x < y => <<x, y>> \in R
  BY DEF OpToRel
<1>4. PICK x \in T : \A y \in T : ~ (<<y, x>> \in R)
  BY <1>2
<1>5. \A y \in T : x =< y
  <2> HIDE DEF R
  <2> SUFFICES ASSUME NEW y \in T PROVE x =< y
    OBVIOUS
  <2>1. x \in Nat /\ y \in Nat
    OBVIOUS
  <2>2. ~ (y < x)
    BY <1>3, <1>4, <2>1
  <2> QED BY <2>1, <2>2
<1> QED BY <1>5

\* The least element is the one Min names.
LEMMA MinIsLeast ==
  ASSUME NEW T, T \subseteq Nat, T # {}
  PROVE  Min(T) \in T /\ \A y \in T : Min(T) =< y
BY LeastNatural DEF Min

\* A set of naturals with a bound has a greatest element, the one Max names.
LEMMA MaxIsGreatest ==
  ASSUME NEW T, T \subseteq Nat, T # {}, NEW b \in Nat, \A x \in T : x =< b
  PROVE  Max(T) \in T /\ \A y \in T : y =< Max(T)
<1> DEFINE Gaps == {b - x : x \in T}
<1>1. Gaps \subseteq Nat /\ Gaps # {}
  <2>1. \A x \in T : x \in Nat /\ b - x \in Nat
    OBVIOUS
  <2>2. PICK x \in T : TRUE
    OBVIOUS
  <2>3. b - x \in Gaps
    BY <2>2
  <2> QED BY <2>1, <2>3
<1>2. PICK gap \in Gaps : \A g \in Gaps : gap =< g
  BY <1>1, LeastNatural
<1>3. PICK m \in T : gap = b - m
  BY <1>2
<1>4. \A x \in T : b - m =< b - x
  BY <1>2, <1>3
<1>5. \A x \in T : m >= x
  BY <1>3, <1>4
<1>6. Max(T) \in T /\ \A x \in T : Max(T) >= x
  BY <1>5 DEF Max
<1> QED BY <1>6

\* The steps of a computation with values in T, and what n of them make of a value.
Steps(T, n) == [T \X (1..n) -> T]
Computations(T, n, base, next) ==
    {f \in [0..n -> T] : f[0] = base /\ \A i \in 1..n : f[i] = next[<<f[i - 1], i>>]}

\* What is iterated n times with values in T exists as a function of the step.
LEMMA Iteration ==
  ASSUME NEW n \in Nat, NEW T, NEW base \in T, NEW next \in Steps(T, n)
  PROVE  \E f : f \in Computations(T, n, base, next)
<1> USE DEF Steps, Computations
<1> DEFINE Upto(k) == \E f \in [0..k -> T] :
                         f[0] = base /\ \A i \in 1..k : f[i] = next[<<f[i - 1], i>>]
           Bad == {k \in 0..n : ~Upto(k)}
<1>1. Upto(0)
  <2> DEFINE h == [i \in 0..0 |-> base]
  <2>1. h \in [0..0 -> T] /\ h[0] = base /\ 1..0 = {}
    OBVIOUS
  <2> HIDE DEF h
  <2> QED BY <2>1
<1>2. ASSUME NEW k \in 1..n, Upto(k - 1) PROVE Upto(k)
  <2>1. PICK f \in [0..k - 1 -> T] :
             f[0] = base /\ \A i \in 1..k - 1 : f[i] = next[<<f[i - 1], i>>]
    BY <1>2
  <2>2. k - 1 \in 0..k - 1 /\ f[k - 1] \in T /\ <<f[k - 1], k>> \in T \X (1..n)
    BY <2>1
  <2> DEFINE v == next[<<f[k - 1], k>>]
             h == [i \in 0..k |-> IF i = k THEN v ELSE f[i]]
  <2>3. v \in T
    BY <2>2
  <2>4. h \in [0..k -> T]
    <3>1. \A i \in 0..k : i # k => i \in 0..k - 1
      OBVIOUS
    <3> QED BY <2>3, <3>1
  <2>5. h[0] = base
    BY <2>1
  <2>6. \A i \in 1..k : h[i] = next[<<h[i - 1], i>>]
    <3>1. \A i \in 1..k : i - 1 \in 0..k /\ i - 1 # k /\ h[i - 1] = f[i - 1]
      OBVIOUS
    <3>2. \A i \in 1..k : i # k => i \in 1..k - 1 /\ h[i] = f[i]
      OBVIOUS
    <3>3. h[k] = v
      OBVIOUS
    <3> HIDE DEF h
    <3> QED BY <2>1, <3>1, <3>2, <3>3
  <2> HIDE DEF h
  <2> QED BY <2>4, <2>5, <2>6
<1>3. Bad = {}
  <2> SUFFICES ASSUME Bad # {} PROVE FALSE
    OBVIOUS
  <2>1. Bad \subseteq Nat
    OBVIOUS
  <2>2. PICK k \in Bad : \A j \in Bad : k =< j
    <3> HIDE DEF Bad
    <3> QED BY <2>1, LeastNatural
  <2>3. k \in 0..n /\ ~Upto(k)
    OBVIOUS
  <2> HIDE DEF Upto
  <2>4. k # 0
    BY <1>1, <2>3
  <2>5. k - 1 \in 0..n /\ k - 1 \notin Bad
    BY <2>2, <2>3, <2>4
  <2>6. Upto(k - 1)
    BY <2>5
  <2>7. k \in 1..n
    BY <2>3, <2>4
  <2> QED BY <1>2, <2>3, <2>6, <2>7
<1>4. Upto(n)
  <2>1. n \in 0..n
    OBVIOUS
  <2> HIDE DEF Upto
  <2> QED BY <1>3, <2>1
<1> QED BY <1>4

\* What holds of 0, and of a number up to n if of the one before, holds of all of them.
LEMMA UpTo ==
  ASSUME NEW n \in Nat, NEW S, 0 \in S, \A i \in 1..n : i - 1 \in S => i \in S
  PROVE  \A i \in 0..n : i \in S
<1> DEFINE Bad == {i \in 0..n : i \notin S}
<1>1. Bad = {}
  <2> SUFFICES ASSUME Bad # {} PROVE FALSE
    OBVIOUS
  <2>1. PICK i \in Bad : \A j \in Bad : i =< j
    <3>1. Bad \subseteq Nat
      OBVIOUS
    <3> HIDE DEF Bad
    <3> QED BY <3>1, LeastNatural
  <2>2. i \in 0..n /\ i \notin S /\ i # 0
    OBVIOUS
  <2>3. i \in 1..n /\ i - 1 \in 0..n
    BY <2>2
  <2>4. i - 1 \notin Bad
    BY <2>1, <2>3
  <2> QED BY <2>2, <2>3, <2>4
<1> QED BY <1>1
=============================================================================
