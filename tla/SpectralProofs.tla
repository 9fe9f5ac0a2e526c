--------------------------- MODULE SpectralProofs ---------------------------
(***************************************************************************)
(* Lemmas about forests and about what the spectral stage computes of a    *)
(* drawing: the transformed graph is connected, and a breadth-first search *)
(* in a connected graph reaches every node.                                *)
(***************************************************************************)
EXTENDS SpectralLayout, SetFacts, FiniteSetTheorems, TLAPS

\* A finite set with two elements has more than one.
LEMMA TwoElements ==
  ASSUME NEW S, IsFiniteSet(S), NEW a \in S, NEW b \in S, a # b
  PROVE  Cardinality(S) > 1
<1>1. IsFiniteSet({a}) /\ Cardinality({a}) = 1
  BY FS_Singleton
<1>2. Cardinality({a} \cup {b}) = 2
  BY <1>1, FS_AddElement
<1>3. IsFiniteSet({a} \cup {b}) /\ {a} \cup {b} \subseteq S
  BY FS_Subset
<1>4. Cardinality({a} \cup {b}) =< Cardinality(S) /\ Cardinality(S) \in Nat
  BY <1>3, FS_Subset, FS_CardinalityType
<1> QED BY <1>2, <1>4
\* The values of a function on a finite set are finitely many.
LEMMA FiniteValues ==
  ASSUME NEW S, IsFiniteSet(S), NEW f, f = [x \in S |-> f[x]]
  PROVE  IsFiniteSet({f[x] : x \in S})
<1> DEFINE T == {f[x] : x \in S}
<1>1. f \in Surjection(S, T)
  BY DEF Surjection
<1> HIDE DEF T
<1>2. IsFiniteSet(T)
  BY <1>1, FS_Surjection
<1> QED BY <1>2 DEF T

------------------------------------------------------------------------------
(* The way up a forest.                                                     *)

\* Above and Ancestors, of any table of parents.
Up(parent) ==
    CHOOSE up : up = [m \in DOMAIN parent |->
        IF parent[m] = Root THEN {} ELSE {parent[m]} \cup up[parent[m]]]

\* The recursion has a solution: what every set closed upwards holds.
LEMMA UpUnfolds ==
  ASSUME NEW parent, parent \in [DOMAIN parent -> DOMAIN parent \cup {Root}],
         Root \notin DOMAIN parent
  PROVE  Up(parent) = [m \in DOMAIN parent |->
             IF parent[m] = Root THEN {} ELSE {parent[m]} \cup Up(parent)[parent[m]]]
<1> DEFINE N == DOMAIN parent
           Closed(m, S) == /\ parent[m] \in N => parent[m] \in S
                           /\ \A x \in S : parent[x] \in N => parent[x] \in S
           f == [m \in N |-> {p \in N : \A S \in SUBSET N : Closed(m, S) => p \in S}]
<1>1. ASSUME NEW m \in N, parent[m] = Root PROVE f[m] = {}
  <2>1. {} \in SUBSET N /\ Closed(m, {})
    BY <1>1
  <2> QED BY <2>1
<1>2. ASSUME NEW m \in N, parent[m] # Root PROVE f[m] = {parent[m]} \cup f[parent[m]]
  <2> DEFINE q == parent[m]
  <2>1. q \in N
    BY <1>2
  <2>2. ASSUME NEW S \in SUBSET N, Closed(m, S) PROVE q \in S /\ Closed(q, S)
    BY <2>1, <2>2
  <2>3. ASSUME NEW S \in SUBSET N, Closed(q, S)
        PROVE  S \cup {q} \in SUBSET N /\ Closed(m, S \cup {q})
    BY <2>1, <2>3
  <2>4. f[m] \subseteq {q} \cup f[q]
    <3> SUFFICES ASSUME NEW p \in f[m], p # q PROVE p \in f[q]
      OBVIOUS
    <3>1. p \in N /\ \A S \in SUBSET N : Closed(m, S) => p \in S
      OBVIOUS
    <3>2. ASSUME NEW S \in SUBSET N, Closed(q, S) PROVE p \in S
      BY <2>3, <3>1, <3>2
    <3> QED BY <2>1, <3>1, <3>2
  <2>5. {q} \cup f[q] \subseteq f[m]
    <3>1. \A S \in SUBSET N : Closed(m, S) => q \in S /\ f[q] \subseteq S
      BY <2>1, <2>2
    <3>2. f[q] \subseteq N
      BY <2>1
    <3> QED BY <2>1, <3>1, <3>2
  <2> QED BY <2>4, <2>5
<1>3. f = [m \in N |-> IF parent[m] = Root THEN {} ELSE {parent[m]} \cup f[parent[m]]]
  <2> DEFINE h == [m \in N |-> IF parent[m] = Root THEN {} ELSE {parent[m]} \cup f[parent[m]]]
  <2>1. \A m \in N : f[m] = h[m]
    BY <1>1, <1>2
  <2>2. DOMAIN f = N /\ DOMAIN h = N /\ f = [m \in N |-> f[m]] /\ h = [m \in N |-> h[m]]
    OBVIOUS
  <2> HIDE DEF f, h
  <2>3. f = h
    BY <2>1, <2>2
  <2> QED BY <2>3 DEF h
<1>4. \E up : up = [m \in N |-> IF parent[m] = Root THEN {} ELSE {parent[m]} \cup up[parent[m]]]
  <2> HIDE DEF f
  <2> QED BY <1>3
<1> QED BY <1>4 DEF Up

\* The compounds around a node, in the drawing and in the graph, are those on its way up.
LEMMA WaysUp ==
  ASSUME NEW dr, NEW gr, NEW n
  PROVE  /\ DOMAIN dr.parent = dr.nodes => Above(dr, n) = Up(dr.parent)[n]
         /\ Ancestors(gr, n) = Up(gr.owner)[n]
BY DEF Above, Ancestors, Up

\* What holds below the root, and of a node if of its parent, holds in all the forest.
LEMMA ForestInduction ==
  ASSUME NEW parent, Forest(parent), NEW S \in SUBSET DOMAIN parent,
         \A n \in DOMAIN parent : parent[n] = Root \/ parent[n] \in S => n \in S
  PROVE  S = DOMAIN parent
<1>1. parent \in [DOMAIN parent -> DOMAIN parent \cup {Root}]
      /\ \A T \in (SUBSET DOMAIN parent) \ {{}} : \E n \in T : parent[n] \notin T
  BY DEF Forest
<1>2. CASE DOMAIN parent \ S # {}
  <2>1. PICK n \in DOMAIN parent \ S : parent[n] \notin DOMAIN parent \ S
    BY <1>1, <1>2
  <2> QED BY <1>1, <2>1
<1> QED BY <1>2

\* In a forest the way up is a strict order, and on one way all are comparable.
LEMMA ForestOrder ==
  ASSUME NEW parent, Forest(parent), Root \notin DOMAIN parent
  PROVE  \A n \in DOMAIN parent :
            /\ Up(parent)[n] \subseteq DOMAIN parent /\ n \notin Up(parent)[n]
            /\ \A p \in Up(parent)[n] : Up(parent)[p] \subseteq Up(parent)[n]
            /\ \A p, q \in Up(parent)[n] : p = q \/ p \in Up(parent)[q] \/ q \in Up(parent)[p]
<1> DEFINE N == DOMAIN parent
           U == Up(parent)
<1>1. \A n \in N : /\ parent[n] = Root => U[n] = {}
                   /\ parent[n] # Root => parent[n] \in N /\ U[n] = {parent[n]} \cup U[parent[n]]
  BY UpUnfolds DEF Forest
<1>2. ASSUME NEW S \in SUBSET N, \A n \in N : parent[n] = Root \/ parent[n] \in S => n \in S
      PROVE  S = N
  BY <1>2, ForestInduction
<1> HIDE DEF U
<1>3. \A n \in N : U[n] \subseteq N
  <2> DEFINE S == {n \in N : U[n] \subseteq N}
  <2>1. S = N
    <3>1. \A n \in N : parent[n] = Root \/ parent[n] \in S => n \in S
      BY <1>1
    <3> QED BY <1>2, <3>1
  <2> QED BY <2>1
<1>4. \A n \in N : \A p \in U[n] : U[p] \subseteq U[n]
  <2> DEFINE S == {n \in N : \A p \in U[n] : U[p] \subseteq U[n]}
  <2>1. S = N
    <3>1. \A n \in N : parent[n] = Root \/ parent[n] \in S => n \in S
      BY <1>1
    <3> QED BY <1>2, <3>1
  <2> QED BY <2>1
<1>5. \A n \in N : n \notin U[n]
  <2> DEFINE S == {n \in N : n \notin U[n]}
  <2>1. S = N
    <3>1. ASSUME NEW n \in N, parent[n] = Root \/ parent[n] \in S PROVE n \in S
      <4>1. CASE parent[n] = Root
        BY <1>1, <4>1
      <4>2. CASE parent[n] # Root /\ n \in U[n]
        <5>1. parent[n] \in S /\ parent[n] \in U[n] /\ U[n] = {parent[n]} \cup U[parent[n]]
          BY <1>1, <3>1, <4>2
        <5>2. n # parent[n]
          BY <4>2, <5>1
        <5>3. n \in U[parent[n]] /\ parent[n] \in N
          BY <4>2, <5>1, <5>2
        <5>4. U[n] \subseteq U[parent[n]]
          BY <1>4, <5>3
        <5> QED BY <5>1, <5>4
      <4> QED BY <4>1, <4>2
    <3> QED BY <1>2, <3>1
  <2> QED BY <2>1
<1>6. \A n \in N : \A p, q \in U[n] : p = q \/ p \in U[q] \/ q \in U[p]
  <2> DEFINE S == {n \in N : \A p, q \in U[n] : p = q \/ p \in U[q] \/ q \in U[p]}
  <2>1. S = N
    <3>1. ASSUME NEW n \in N, parent[n] = Root \/ parent[n] \in S PROVE n \in S
      BY <1>1, <3>1
    <3> QED BY <1>2, <3>1
  <2> QED BY <2>1
<1> QED BY <1>3, <1>4, <1>5, <1>6 DEF U

\* What holds of a node if of all its children holds in all of a finite forest: no
\* node lies deeper than all others it fails for.
LEMMA DownInduction ==
  ASSUME NEW parent, Forest(parent), Root \notin DOMAIN parent, IsFiniteSet(DOMAIN parent),
         NEW S \in SUBSET DOMAIN parent,
         \A p \in DOMAIN parent :
            (\A c \in DOMAIN parent : parent[c] = p => c \in S) => p \in S
  PROVE  S = DOMAIN parent
<1> DEFINE N == DOMAIN parent
           U == Up(parent)
           Depths == {Cardinality(U[n]) : n \in N \ S}
<1>1. \A n \in N : parent[n] # Root => U[n] = {parent[n]} \cup U[parent[n]]
  BY UpUnfolds DEF Forest
<1>2. \A n \in N : U[n] \subseteq N /\ n \notin U[n]
  BY ForestOrder
<1> HIDE DEF U
<1>3. \A n \in N : IsFiniteSet(U[n]) /\ Cardinality(U[n]) \in Nat /\ Cardinality(U[n]) =< Cardinality(N)
  BY <1>2, FS_Subset, FS_CardinalityType
<1>4. CASE N \ S # {}
  <2>1. Depths \subseteq Nat /\ Depths # {} /\ Cardinality(N) \in Nat
        /\ \A x \in Depths : x =< Cardinality(N)
    BY <1>3, <1>4, FS_CardinalityType
  <2>2. Max(Depths) \in Depths /\ \A x \in Depths : x =< Max(Depths)
    <3> HIDE DEF Depths
    <3> QED BY <2>1, MaxIsGreatest
  <2>3. PICK p \in N \ S : Max(Depths) = Cardinality(U[p])
    BY <2>2
  <2>4. PICK c \in N \ S : parent[c] = p
    BY <2>3
  <2>5. U[c] = {p} \cup U[p] /\ p \notin U[p]
    BY <1>1, <1>2, <2>3, <2>4
  <2>6. Cardinality(U[c]) = Cardinality(U[p]) + 1
    <3>1. U[c] = U[p] \cup {p} /\ p \notin U[p] /\ IsFiniteSet(U[p])
      BY <1>3, <2>3, <2>5
    <3> QED BY <3>1, FS_AddElement
  <2>7. Cardinality(U[c]) \in Depths
    BY <2>4
  <2>8. Cardinality(U[c]) =< Cardinality(U[p])
    BY <2>2, <2>3, <2>7
  <2> QED BY <1>3, <2>3, <2>6, <2>8
<1> QED BY <1>4

\* The steps that compute a node's value in T from those of its children, and the tables
\* of such values.
DownSteps(parent, T) ==
    {step \in [(DOMAIN parent) \X [DOMAIN parent -> T] -> T] :
        \A p \in DOMAIN parent : \A u, v \in [DOMAIN parent -> T] :
            (\A c \in DOMAIN parent : parent[c] = p => u[c] = v[c]) => step[<<p, u>>] = step[<<p, v>>]}
DownSolutions(parent, T, step) ==
    {f \in [DOMAIN parent -> T] : \A p \in DOMAIN parent : f[p] = step[<<p, f>>]}

\* What is computed of a node from its children exists as a function: a set closed
\* downwards as large as can be, on which it does, is the whole forest.
LEMMA DownRecursion ==
  ASSUME NEW parent, Forest(parent), Root \notin DOMAIN parent, IsFiniteSet(DOMAIN parent),
         NEW T, T # {}, NEW step \in DownSteps(parent, T)
  PROVE  \E f : f \in DownSolutions(parent, T, step)
<1> DEFINE N == DOMAIN parent
           Down(S) == \A c \in N : parent[c] \in S => c \in S
           Solved(S) == \E f \in [N -> T] : \A p \in S : f[p] = step[<<p, f>>]
           Good == {S \in SUBSET N : Down(S) /\ Solved(S)}
           Sizes == {Cardinality(S) : S \in Good}
<1>0. /\ step \in [N \X [N -> T] -> T]
      /\ \A p \in N : \A u, v \in [N -> T] :
            (\A c \in N : parent[c] = p => u[c] = v[c]) => step[<<p, u>>] = step[<<p, v>>]
  BY DEF DownSteps
<1>1. {} \in Good
  <2>1. PICK t \in T : TRUE
    OBVIOUS
  <2>2. [p \in N |-> t] \in [N -> T]
    OBVIOUS
  <2>3. Solved({})
    BY <2>2
  <2> QED BY <2>3
<1>2. ASSUME NEW S \in Good, S # N PROVE \E p \in N \ S : S \cup {p} \in Good
  <2>1. PICK p \in N \ S : \A c \in N : parent[c] = p => c \in S
    BY <1>2, DownInduction
  <2>2. PICK f \in [N -> T] : \A q \in S : f[q] = step[<<q, f>>]
    BY <1>2
  <2> DEFINE t == step[<<p, f>>]
             h == [f EXCEPT ![p] = t]
  <2>3. t \in T
    <3>1. <<p, f>> \in N \X [N -> T]
      BY <2>1, <2>2
    <3> QED BY <1>0, <3>1
  <2> HIDE DEF t
  <2>4. h \in [N -> T] /\ h[p] = t /\ \A q \in N : q # p => h[q] = f[q]
    BY <2>1, <2>2, <2>3
  <2> HIDE DEF h
  <2>5. \A c \in N : parent[c] = p => c # p
    BY <2>1
  <2>6. step[<<p, h>>] = step[<<p, f>>]
    <3>1. \A c \in N : parent[c] = p => h[c] = f[c]
      BY <2>4, <2>5
    <3> QED BY <1>0, <2>1, <2>2, <2>4, <3>1
  <2>7. ASSUME NEW q \in S PROVE h[q] = step[<<q, h>>]
    <3>1. \A c \in N : parent[c] = q => c \in S
      BY <1>2, <2>7
    <3>2. \A c \in N : parent[c] = q => h[c] = f[c]
      BY <2>1, <2>4, <3>1
    <3>3. q \in N /\ h[q] = f[q]
      BY <1>2, <2>1, <2>4
    <3>4. step[<<q, h>>] = step[<<q, f>>]
      BY <1>0, <2>2, <2>4, <3>2, <3>3
    <3> QED BY <2>2, <3>3, <3>4
  <2>8. Solved(S \cup {p})
    BY <2>4, <2>6, <2>7 DEF t
  <2>9. Down(S \cup {p})
    BY <1>2, <2>1
  <2>10. S \cup {p} \in SUBSET N
    BY <1>2, <2>1
  <2> HIDE DEF Down, Solved
  <2> QED BY <2>1, <2>8, <2>9, <2>10
<1>3. Sizes \subseteq Nat /\ Sizes # {} /\ Cardinality(N) \in Nat /\ \A x \in Sizes : x =< Cardinality(N)
  <2>1. \A S \in Good : Cardinality(S) \in Nat /\ Cardinality(S) =< Cardinality(N)
    BY FS_Subset, FS_CardinalityType
  <2>2. Cardinality(N) \in Nat
    BY FS_CardinalityType
  <2> HIDE DEF Good
  <2> QED BY <1>1, <2>1, <2>2
<1>4. PICK S \in Good : \A R \in Good : Cardinality(R) =< Cardinality(S)
  <2>1. Max(Sizes) \in Sizes /\ \A x \in Sizes : x =< Max(Sizes)
    <3> HIDE DEF Sizes
    <3> QED BY <1>3, MaxIsGreatest
  <2> HIDE DEF Good
  <2> QED BY <2>1
<1>5. S = N
  <2> SUFFICES ASSUME S # N PROVE FALSE
    OBVIOUS
  <2>1. PICK p \in N \ S : S \cup {p} \in Good
    BY <1>2, <1>4
  <2>2. IsFiniteSet(S) /\ Cardinality(S) \in Nat
    BY <1>4, FS_Subset, FS_CardinalityType
  <2>3. Cardinality(S \cup {p}) = Cardinality(S) + 1
    BY <2>1, <2>2, FS_AddElement
  <2>4. Cardinality(S \cup {p}) =< Cardinality(S)
    BY <1>4, <2>1
  <2> QED BY <2>2, <2>3, <2>4
<1> QED BY <1>4, <1>5 DEF DownSolutions

------------------------------------------------------------------------------
(* Searches.                                                                *)

\* What is reached from a node has the node in it, and stays inside every set that
\* has the node in it and is closed under the links.
LEMMA ReachStaysInside ==
  ASSUME NEW V, IsFiniteSet(V), NEW to \in [V -> SUBSET V], NEW n \in V,
         NEW M \in SUBSET V, n \in M, \A m \in M : to[m] \subseteq M
  PROVE  n \in Reach({n}, to) /\ Reach({n}, to) \subseteq M
<1> DEFINE k == Cardinality(V)
           next == [x \in (SUBSET V) \X (1..k) |-> x[1] \cup UNION {to[m] : m \in x[1]}]
           steps == CHOOSE f : f = [i \in 0..k |->
                        IF i = 0 THEN {n}
                        ELSE LET before == f[i - 1] IN before \cup UNION {to[m] : m \in before}]
<1>1. k \in Nat /\ DOMAIN to = V
  BY FS_CardinalityType
<1>2. Reach({n}, to) = steps[k]
  BY <1>1 DEF Reach
<1>3. next \in [(SUBSET V) \X (1..k) -> SUBSET V] /\ {n} \in SUBSET V
  OBVIOUS
<1>4. PICK f \in [0..k -> SUBSET V] : f[0] = {n} /\ \A i \in 1..k : f[i] = next[<<f[i - 1], i>>]
  <2>1. next \in Steps(SUBSET V, k)
    BY <1>3 DEF Steps
  <2> HIDE DEF k, next
  <2>2. \E f : f \in Computations(SUBSET V, k, {n}, next)
    BY <1>1, <1>3, <2>1, Iteration
  <2> QED BY <2>2 DEF Computations
<1>5. f = [i \in 0..k |-> IF i = 0 THEN {n}
                          ELSE LET before == f[i - 1] IN before \cup UNION {to[m] : m \in before}]
  <2>1. ASSUME NEW i \in 1..k
        PROVE  next[<<f[i - 1], i>>] = f[i - 1] \cup UNION {to[m] : m \in f[i - 1]}
    <3>1. i - 1 \in 0..k
      BY <1>1
    <3>2. <<f[i - 1], i>> \in (SUBSET V) \X (1..k)
      BY <3>1
    <3> QED BY <3>2
  <2> HIDE DEF next
  <2>2. \A i \in 0..k : f[i] = IF i = 0 THEN {n} ELSE f[i - 1] \cup UNION {to[m] : m \in f[i - 1]}
    <3> SUFFICES ASSUME NEW i \in 0..k
                 PROVE  f[i] = IF i = 0 THEN {n} ELSE f[i - 1] \cup UNION {to[m] : m \in f[i - 1]}
      OBVIOUS
    <3>1. CASE i = 0
      BY <1>4, <3>1
    <3>2. CASE i # 0
      <4>1. i \in 1..k
        BY <1>1, <3>2
      <4>2. f[i] = next[<<f[i - 1], i>>]
        BY <1>4, <4>1
      <4> QED BY <2>1, <3>2, <4>1, <4>2
    <3> QED BY <3>1, <3>2
  <2>3. f = [i \in 0..k |-> f[i]]
    OBVIOUS
  <2> QED BY <2>2, <2>3
<1>6. steps = [i \in 0..k |-> IF i = 0 THEN {n}
                          ELSE LET before == steps[i - 1] IN before \cup UNION {to[m] : m \in before}]
  <2>1. \E h : h = [i \in 0..k |-> IF i = 0 THEN {n}
                          ELSE LET before == h[i - 1] IN before \cup UNION {to[m] : m \in before}]
    BY <1>5
  <2> HIDE DEF k
  <2> QED BY <2>1
<1> HIDE DEF steps, k
<1> DEFINE Bad == {i \in 0..k : ~(n \in steps[i] /\ steps[i] \subseteq M)}
<1>7. Bad = {}
  <2> SUFFICES ASSUME Bad # {} PROVE FALSE
    OBVIOUS
  <2>1. PICK i \in Bad : \A j \in Bad : i =< j
    <3>1. Bad \subseteq Nat
      BY <1>1
    <3> HIDE DEF Bad
    <3> QED BY <3>1, LeastNatural
  <2>2. i \in 0..k /\ ~(n \in steps[i] /\ steps[i] \subseteq M)
    OBVIOUS
  <2>3. steps[0] = {n}
    BY <1>1, <1>6
  <2>4. i # 0
    BY <2>2, <2>3
  <2>5. i - 1 \in 0..k /\ i - 1 \notin Bad
    BY <1>1, <2>1, <2>2, <2>4
  <2>6. n \in steps[i - 1] /\ steps[i - 1] \subseteq M
    BY <2>5
  <2>7. steps[i] = steps[i - 1] \cup UNION {to[m] : m \in steps[i - 1]}
    BY <1>6, <2>2, <2>4
  <2> QED BY <2>2, <2>6, <2>7
<1>8. k \in 0..k
  BY <1>1
<1> QED BY <1>2, <1>7, <1>8

\* The tables of distances up to k of nodes in V.
Tables(V, k) == UNION {[S -> 0..k] : S \in SUBSET V}

\* A table of distances has nodes with distances at most k.
LEMMA TableFacts ==
  ASSUME NEW V, NEW k \in Nat
  PROVE  \A t : t \in Tables(V, k) <=> DOMAIN t \subseteq V /\ t \in [DOMAIN t -> 0..k]
BY DEF Tables

\* The distances after i rounds of a search.
SearchRounds(near_, v) ==
    CHOOSE dist : dist = [i \in 0..Cardinality(DOMAIN near_) |->
        IF i = 0 THEN [w \in {v} |-> 0]
        ELSE LET before == dist[i - 1]
             IN  [w \in DOMAIN before \cup UNION {near_[u] : u \in DOMAIN before} |->
                     IF w \in DOMAIN before THEN before[w] ELSE i]]

\* Round i of a search.
Round(near_, t, i) ==
    [w \in DOMAIN t \cup UNION {near_[u] : u \in DOMAIN t} |-> IF w \in DOMAIN t THEN t[w] ELSE i]

\* BFS goes round by round.
LEMMA SearchUnfolds ==
  ASSUME NEW V, IsFiniteSet(V), NEW near_ \in [V -> SUBSET V], NEW v \in V
  PROVE  /\ Cardinality(V) \in Nat
         /\ Distances(near_, v) = SearchRounds(near_, v)[Cardinality(V)]
         /\ SearchRounds(near_, v)[0] = [w \in {v} |-> 0]
         /\ \A i \in 1..Cardinality(V) :
               SearchRounds(near_, v)[i] = Round(near_, SearchRounds(near_, v)[i - 1], i)
<1> DEFINE k == Cardinality(V)
           T == Tables(V, k)
           more(t, i) == Round(near_, t, i)
           next == [x \in T \X (1..k) |-> more(x[1], x[2])]
           first == [w \in {v} |-> 0]
           dist == SearchRounds(near_, v)
<1>1. k \in Nat /\ DOMAIN near_ = V
  BY FS_CardinalityType
<1>2. first \in T
  BY <1>1, TableFacts
<1>3. ASSUME NEW t \in T, NEW i \in 1..k PROVE more(t, i) \in T
  <2> DEFINE m == more(t, i)
             U == UNION {near_[u] : u \in DOMAIN t}
  <2>1. DOMAIN t \subseteq V /\ \A x \in DOMAIN t : t[x] \in 0..k
    BY <1>1, TableFacts
  <2>2. U \subseteq V
    BY <2>1
  <2>3. m = [x \in (DOMAIN t) \cup U |-> IF x \in DOMAIN t THEN t[x] ELSE i]
    BY DEF Round
  <2>4. DOMAIN m \subseteq V /\ m \in [DOMAIN m -> 0..k]
    <3> HIDE DEF U
    <3>1. DOMAIN m = (DOMAIN t) \cup U
      BY <2>3
    <3>2. \A x \in DOMAIN m : m[x] \in 0..k
      BY <1>1, <2>1, <2>3
    <3>3. m = [x \in DOMAIN m |-> m[x]]
      BY <2>3
    <3> HIDE DEF m
    <3> QED BY <2>1, <2>2, <3>1, <3>2, <3>3
  <2> HIDE DEF m
  <2>5. m \in T
    BY <1>1, <2>4, TableFacts
  <2> QED BY <2>5 DEF m
<1>4. next \in Steps(T, k)
  <2> HIDE DEF more, T, k
  <2> QED BY <1>3 DEF Steps
<1>5. PICK f \in [0..k -> T] : f[0] = first /\ \A i \in 1..k : f[i] = next[<<f[i - 1], i>>]
  <2> HIDE DEF k, next, T, first
  <2>1. \E f : f \in Computations(T, k, first, next)
    BY <1>1, <1>2, <1>4, Iteration
  <2> QED BY <2>1 DEF Computations
<1>6. f = [i \in 0..k |-> IF i = 0 THEN first ELSE more(f[i - 1], i)]
  <2> HIDE DEF k, T, first, more
  <2>1. ASSUME NEW i \in 1..k PROVE next[<<f[i - 1], i>>] = more(f[i - 1], i)
    <3>1. i - 1 \in 0..k
      BY <1>1
    <3>2. <<f[i - 1], i>> \in T \X (1..k)
      BY <3>1
    <3> QED BY <3>2
  <2> HIDE DEF next
  <2>2. \A i \in 0..k : f[i] = IF i = 0 THEN first ELSE more(f[i - 1], i)
    <3> SUFFICES ASSUME NEW i \in 0..k PROVE f[i] = IF i = 0 THEN first ELSE more(f[i - 1], i)
      OBVIOUS
    <3>1. CASE i = 0
      BY <1>5, <3>1
    <3>2. CASE i # 0
      <4>1. i \in 1..k
        BY <1>1, <3>2
      <4> QED BY <1>5, <2>1, <3>2, <4>1
    <3> QED BY <3>1, <3>2
  <2>3. f = [i \in 0..k |-> f[i]]
    OBVIOUS
  <2> QED BY <2>2, <2>3
<1>7. dist = [i \in 0..k |-> IF i = 0 THEN first ELSE more(dist[i - 1], i)]
  <2>1. \E h : h = [i \in 0..k |-> IF i = 0 THEN first ELSE more(h[i - 1], i)]
    <3> HIDE DEF more, first, k, T, next
    <3> QED BY <1>6
  <2> QED BY <1>1, <2>1 DEF SearchRounds, Round
<1>8. Distances(near_, v) = dist[k]
  BY <1>1 DEF Distances, SearchRounds
<1> HIDE DEF dist, k
<1>9. dist[0] = first /\ \A i \in 1..k : dist[i] = more(dist[i - 1], i)
  <2> HIDE DEF more, first
  <2>1. 0 \in 0..k /\ \A i \in 1..k : i \in 0..k /\ i # 0
    BY <1>1
  <2> QED BY <1>7, <2>1
<1> QED BY <1>1, <1>8, <1>9 DEF dist, k

\* A search finds a set closed under the links, with the distance 0 to the first node
\* only: a round that is not the last finds one more node of finitely many.
LEMMA SearchIsClosed ==
  ASSUME NEW V, IsFiniteSet(V), NEW near_ \in [V -> SUBSET V], NEW v \in V
  PROVE  /\ Cardinality(V) \in Nat
         /\ DOMAIN Distances(near_, v) \subseteq V /\ v \in DOMAIN Distances(near_, v)
         /\ \A w \in DOMAIN Distances(near_, v) :
               /\ near_[w] \subseteq DOMAIN Distances(near_, v)
               /\ Distances(near_, v)[w] \in 0..Cardinality(V)
               /\ Distances(near_, v)[w] = 0 <=> w = v
<1> DEFINE k == Cardinality(V)
           dist == SearchRounds(near_, v)
           Closed(S) == \A w \in S : near_[w] \subseteq S
           Sound(i) ==
               /\ DOMAIN dist[i] \subseteq V /\ v \in DOMAIN dist[i]
               /\ \A w \in DOMAIN dist[i] : dist[i][w] \in 0..i /\ (dist[i][w] = 0 <=> w = v)
               /\ Closed(DOMAIN dist[i]) \/ Cardinality(DOMAIN dist[i]) >= i + 1
<1>1. k \in Nat /\ Distances(near_, v) = dist[k] /\ dist[0] = [w \in {v} |-> 0]
      /\ \A i \in 1..k : dist[i] = Round(near_, dist[i - 1], i)
  BY SearchUnfolds
<1>2. \A S \in SUBSET V : IsFiniteSet(S) /\ Cardinality(S) \in Nat /\ Cardinality(S) =< k
  BY FS_Subset, FS_CardinalityType
<1> HIDE DEF dist, k
<1>3. Sound(0)
  <2>1. Cardinality({v}) = 1
    BY FS_Singleton
  <2>2. DOMAIN dist[0] = {v} /\ dist[0][v] = 0
    BY <1>1
  <2> QED BY <2>1, <2>2
<1>4. ASSUME NEW i \in 1..k, Sound(i - 1) PROVE Sound(i)
  <2> DEFINE t == dist[i - 1]
             U == UNION {near_[u] : u \in DOMAIN t}
  <2>1. dist[i] = [w \in (DOMAIN t) \cup U |-> IF w \in DOMAIN t THEN t[w] ELSE i]
    BY <1>1 DEF Round
  <2>2. i \in Nat /\ i # 0 /\ (\A x \in 0..(i - 1) : x \in 0..i)
    BY <1>1
  <2>3. /\ DOMAIN t \subseteq V /\ v \in DOMAIN t
        /\ \A w \in DOMAIN t : t[w] \in 0..i /\ (t[w] = 0 <=> w = v)
        /\ Closed(DOMAIN t) \/ Cardinality(DOMAIN t) >= i
    <3>1. (i - 1) + 1 = i
      BY <2>2
    <3> QED BY <1>4, <2>2, <3>1
  <2>4. U \subseteq V
    BY <2>3
  <2>5. DOMAIN dist[i] = (DOMAIN t) \cup U
    BY <2>1
  <2>6. \A w \in DOMAIN dist[i] : dist[i][w] \in 0..i /\ (dist[i][w] = 0 <=> w = v)
    <3> HIDE DEF t, U
    <3>1. ASSUME NEW w \in DOMAIN t PROVE dist[i][w] = t[w]
      BY <2>1
    <3>2. ASSUME NEW w \in DOMAIN dist[i], w \notin DOMAIN t PROVE dist[i][w] = i
      BY <2>1, <3>2
    <3>3. i \in 0..i
      BY <2>2
    <3> QED BY <2>2, <2>3, <3>1, <3>2, <3>3
  <2>7. CASE Closed(DOMAIN t)
    <3>1. DOMAIN dist[i] = DOMAIN t
      BY <2>5, <2>7
    <3> HIDE DEF t, U
    <3> QED BY <2>3, <2>6, <2>7, <3>1
  <2>8. CASE ~Closed(DOMAIN t)
    <3>1. PICK w \in U : w \notin DOMAIN t
      BY <2>8
    <3> HIDE DEF t, U
    <3>2. Cardinality((DOMAIN t) \cup {w}) = Cardinality(DOMAIN t) + 1
      BY <1>2, <2>3, <3>1, FS_AddElement
    <3>3. (DOMAIN t) \cup {w} \subseteq DOMAIN dist[i] /\ DOMAIN dist[i] \subseteq V
      BY <2>3, <2>4, <2>5, <3>1
    <3>4. Cardinality((DOMAIN t) \cup {w}) =< Cardinality(DOMAIN dist[i])
      BY <1>2, <3>3, FS_Subset
    <3>5. /\ Cardinality(DOMAIN t) \in Nat /\ Cardinality(DOMAIN t) >= i
          /\ Cardinality(DOMAIN dist[i]) \in Nat
      BY <1>2, <2>3, <2>8, <3>3
    <3>6. Cardinality(DOMAIN dist[i]) >= i + 1
      BY <2>2, <3>2, <3>4, <3>5
    <3> QED BY <2>3, <2>6, <3>3, <3>6
  <2> QED BY <2>7, <2>8
<1>5. Sound(k)
  <2> DEFINE S == {i \in 0..k : Sound(i)}
  <2>1. 0 \in S /\ \A i \in 1..k : i - 1 \in S => i \in S
    <3> HIDE DEF Sound
    <3>1. 0 \in 0..k /\ \A i \in 1..k : i \in 0..k
      BY <1>1
    <3> QED BY <1>3, <1>4, <3>1
  <2>2. \A i \in 0..k : i \in S
    <3> HIDE DEF S
    <3> QED BY <1>1, <2>1, UpTo
  <2>3. k \in 0..k
    BY <1>1
  <2> QED BY <2>2, <2>3
<1>6. Closed(DOMAIN dist[k])
  <2>1. DOMAIN dist[k] \subseteq V
    BY <1>5
  <2>2. Cardinality(DOMAIN dist[k]) \in Nat /\ Cardinality(DOMAIN dist[k]) =< k
    BY <1>2, <2>1
  <2>3. Closed(DOMAIN dist[k]) \/ Cardinality(DOMAIN dist[k]) >= k + 1
    BY <1>5
  <2> HIDE DEF Closed
  <2> QED BY <1>1, <2>2, <2>3
<1> QED BY <1>1, <1>5, <1>6 DEF k

------------------------------------------------------------------------------
(* The transformed graph.                                                   *)

\* connectComponents joins a node of the piece.
LEMMA JoinedIsThere ==
  ASSUME NEW dr, IsFiniteSet(DOMAIN dr.ends), NEW piece, piece # {}
  PROVE  Joined(dr, piece) \in piece
<1> DEFINE Degrees == {Degree(dr, n) : n \in piece}
<1>1. \A n \in piece : Degree(dr, n) \in Nat
  <2> SUFFICES ASSUME NEW n \in piece PROVE Degree(dr, n) \in Nat
    OBVIOUS
  <2> DEFINE E == {e \in DOMAIN dr.ends : \E i \in 1..2 : dr.ends[e][i] = n}
  <2>1. E \subseteq DOMAIN dr.ends
    OBVIOUS
  <2>2. IsFiniteSet(E)
    <3> HIDE DEF E
    <3> QED BY <2>1, FS_Subset
  <2>3. Cardinality(E) \in Nat
    <3> HIDE DEF E
    <3> QED BY <2>2, FS_CardinalityType
  <2> QED BY <2>3 DEF Degree
<1>2. Degrees \subseteq Nat /\ Degrees # {}
  BY <1>1
<1>3. PICK x \in Degrees : \A y \in Degrees : x =< y
  <2> HIDE DEF Degrees
  <2> QED BY <1>2, LeastNatural
<1>4. \E n \in piece : \A m \in piece : Degree(dr, n) =< Degree(dr, m)
  BY <1>3
<1> QED BY <1>4 DEF Joined

\* Inside a node lie its children and what lies inside them.
LEMMA InsideFacts ==
  ASSUME NEW dr, IsDrawing(dr), Forest(dr.parent)
  PROVE  /\ \A p, x \in dr.nodes : dr.parent[x] = p => x \in Inside(dr, p)
         /\ \A p, c \in dr.nodes : c \in Inside(dr, p) => Inside(dr, c) \subseteq Inside(dr, p)
         /\ \A p, x \in dr.nodes : x \in Inside(dr, p) =>
               \E c \in ChildrenOf(dr, p) : x = c \/ x \in Inside(dr, c)
         /\ \A x \in dr.nodes :
               \E c \in ChildrenOf(dr, Root) : x = c \/ x \in Inside(dr, c)
<1> DEFINE N == dr.nodes
           U == Up(dr.parent)
<1>1. N = DOMAIN dr.parent /\ Root \notin N
  BY DEF IsDrawing
<1>2. \A x \in N : /\ dr.parent[x] = Root => U[x] = {}
                   /\ dr.parent[x] # Root => dr.parent[x] \in N /\ U[x] = {dr.parent[x]} \cup U[dr.parent[x]]
  BY <1>1, UpUnfolds DEF Forest
<1>3. \A x \in N : U[x] \subseteq N /\ \A p \in U[x] : U[p] \subseteq U[x]
  BY <1>1, ForestOrder
<1>4. \A p : Inside(dr, p) = {x \in N : p \in U[x]}
  BY <1>1, WaysUp DEF Inside
<1> HIDE DEF U
<1>5. \A x \in N : \A p \in U[x] : \E c \in ChildrenOf(dr, p) : x = c \/ c \in U[x]
  <2> DEFINE S == {x \in N : \A p \in U[x] : \E c \in ChildrenOf(dr, p) : x = c \/ c \in U[x]}
  <2>1. ASSUME NEW x \in N, dr.parent[x] = Root \/ dr.parent[x] \in S PROVE x \in S
    BY <1>2, <2>1 DEF ChildrenOf
  <2>2. S = N
    BY <1>1, <2>1, ForestInduction
  <2> QED BY <2>2
<1>6. \A x \in N : \E c \in ChildrenOf(dr, Root) : x = c \/ c \in U[x]
  <2> DEFINE S == {x \in N : \E c \in ChildrenOf(dr, Root) : x = c \/ c \in U[x]}
  <2>1. ASSUME NEW x \in N, dr.parent[x] = Root \/ dr.parent[x] \in S PROVE x \in S
    BY <1>2, <2>1 DEF ChildrenOf
  <2>2. S = N
    BY <1>1, <2>1, ForestInduction
  <2> QED BY <2>2
<1>7. \A p, x \in N : dr.parent[x] = p => p \in U[x]
  BY <1>1, <1>2
<1>8. \A p, c, x \in N : p \in U[c] /\ c \in U[x] => p \in U[x]
  BY <1>3
<1> QED BY <1>4, <1>5, <1>6, <1>7, <1>8

\* The recursion of StandsAt.
First(dr) ==
    CHOOSE first : first = [p \in {p \in dr.nodes : isParent(dr, p)} |->
        LET leaves == ChildrenOf(dr, p) \cap Childless(dr)
        IN  IF leaves = {} THEN first[CHOOSE c \in ChildrenOf(dr, p) : TRUE]
            ELSE Joined(dr, leaves)]

\* A compound is stood for by a leaf in it, or by what stands for a compound in it.
LEMMA FirstUnfolds ==
  ASSUME NEW dr, IsDrawing(dr), Forest(dr.parent)
  PROVE  /\ \A n : StandsAt(dr, n) = IF n \in dr.nodes /\ isParent(dr, n) THEN First(dr)[n] ELSE n
         /\ \A p \in dr.nodes : isParent(dr, p) =>
               LET leaves == ChildrenOf(dr, p) \cap Childless(dr)
               IN  First(dr)[p] = IF leaves = {} THEN First(dr)[CHOOSE c \in ChildrenOf(dr, p) : TRUE]
                                  ELSE Joined(dr, leaves)
<1> DEFINE N == dr.nodes
           P == {p \in N : isParent(dr, p)}
           kid(p) == CHOOSE c \in ChildrenOf(dr, p) : TRUE
           leaves(p) == ChildrenOf(dr, p) \cap Childless(dr)
           step == [x \in N \X [N -> N] |->
                       IF x[1] \notin P THEN x[1]
                       ELSE IF leaves(x[1]) = {} THEN x[2][kid(x[1])]
                       ELSE Joined(dr, leaves(x[1]))]
<1>1. N = DOMAIN dr.parent /\ Root \notin N /\ IsFiniteSet(N) /\ IsFiniteSet(DOMAIN dr.ends)
  BY DEF IsDrawing
<1>2. \A p \in P : kid(p) \in N /\ dr.parent[kid(p)] = p /\ leaves(p) \subseteq N
  BY DEF isParent, ChildrenOf
<1>3. \A p \in P : leaves(p) # {} => Joined(dr, leaves(p)) \in N
  BY <1>1, <1>2, JoinedIsThere
<1>4. \A p \in P : leaves(p) = {} => kid(p) \in P
  BY <1>2 DEF Childless, isParent, ChildrenOf
<1>5. CASE N = {}
  <2>1. P = {}
    BY <1>5
  <2> QED BY <1>5 DEF StandsAt
<1>6. CASE N # {}
  <2> HIDE DEF P, kid, leaves
  <2>1. P \subseteq N
    BY DEF P
  <2>2. ASSUME NEW p \in N, NEW u \in [N -> N]
        PROVE  /\ step[<<p, u>>] = IF p \notin P THEN p ELSE IF leaves(p) = {} THEN u[kid(p)]
                                                         ELSE Joined(dr, leaves(p))
               /\ step[<<p, u>>] \in N
    BY <1>2, <1>3
  <2>3. step \in [N \X [N -> N] -> N]
    <3>1. \A x \in N \X [N -> N] : step[x] \in N
      BY <2>2
    <3>2. step = [x \in N \X [N -> N] |-> step[x]]
      OBVIOUS
    <3> HIDE DEF step
    <3> QED BY <3>1, <3>2
  <2> HIDE DEF step
  <2>4. ASSUME NEW p \in N, NEW u \in [N -> N], NEW v \in [N -> N],
               \A c \in N : dr.parent[c] = p => u[c] = v[c]
        PROVE  step[<<p, u>>] = step[<<p, v>>]
    <3>1. p \in P => u[kid(p)] = v[kid(p)]
      BY <1>2, <2>4
    <3> QED BY <2>2, <3>1
  <2>5. step \in DownSteps(dr.parent, N)
    <3>1. DownSteps(dr.parent, N) =
            {s \in [N \X [N -> N] -> N] :
                \A p \in N : \A u, v \in [N -> N] :
                    (\A c \in N : dr.parent[c] = p => u[c] = v[c]) => s[<<p, u>>] = s[<<p, v>>]}
      BY <1>1 DEF DownSteps
    <3> HIDE DEF N
    <3> QED BY <2>3, <2>4, <3>1
  <2>6. PICK f \in [N -> N] : \A p \in N : f[p] = step[<<p, f>>]
    <3>1. \E f : f \in DownSolutions(dr.parent, N, step)
      BY <1>1, <1>6, <2>5, DownRecursion
    <3> QED BY <1>1, <3>1 DEF DownSolutions
  <2> DEFINE h == [p \in P |-> f[p]]
  <2>7. \A p \in P : h[p] = IF leaves(p) = {} THEN h[kid(p)] ELSE Joined(dr, leaves(p))
    <3>1. \A p \in P : f[p] = IF leaves(p) = {} THEN f[kid(p)] ELSE Joined(dr, leaves(p))
      BY <2>1, <2>2, <2>6
    <3> QED BY <1>4, <3>1
  <2>8. h = [p \in P |-> h[p]]
    OBVIOUS
  <2> HIDE DEF h
  <2>9. h = [p \in P |-> IF leaves(p) = {} THEN h[kid(p)] ELSE Joined(dr, leaves(p))]
    BY <2>7, <2>8
  <2>10. First(dr) = [p \in P |-> IF leaves(p) = {} THEN First(dr)[kid(p)] ELSE Joined(dr, leaves(p))]
    BY <2>9 DEF First, P, kid, leaves
  <2>11. \A p \in P : First(dr)[p] = IF leaves(p) = {} THEN First(dr)[kid(p)] ELSE Joined(dr, leaves(p))
    <3> HIDE DEF First
    <3> QED BY <2>10
  <2>12. \A n : StandsAt(dr, n) = IF n \in dr.nodes /\ isParent(dr, n) THEN First(dr)[n] ELSE n
    BY DEF StandsAt, First
  <2> HIDE DEF First
  <2> QED BY <2>11, <2>12 DEF P, kid, leaves
<1> QED BY <1>5, <1>6

\* A node stands at a childless one that is itself or lies inside it.
LEMMA StandsInside ==
  ASSUME NEW dr, IsDrawing(dr), Forest(dr.parent)
  PROVE  /\ \A n \in dr.nodes : /\ StandsAt(dr, n) \in Childless(dr)
                                /\ StandsAt(dr, n) = n \/ StandsAt(dr, n) \in Inside(dr, n)
         /\ \A n : n \notin dr.nodes => StandsAt(dr, n) = n
<1> DEFINE N == dr.nodes
           S == {n \in N : /\ StandsAt(dr, n) \in Childless(dr)
                           /\ StandsAt(dr, n) = n \/ StandsAt(dr, n) \in Inside(dr, n)}
<1>1. N = DOMAIN dr.parent /\ Root \notin N /\ IsFiniteSet(N) /\ IsFiniteSet(DOMAIN dr.ends)
  BY DEF IsDrawing
<1>2. ASSUME NEW p \in N, \A c \in N : dr.parent[c] = p => c \in S
      PROVE  p \in S
  <2>1. CASE ~isParent(dr, p)
    BY <2>1, FirstUnfolds DEF Childless
  <2>2. CASE isParent(dr, p)
    <3> DEFINE leaves == ChildrenOf(dr, p) \cap Childless(dr)
               c == CHOOSE c \in ChildrenOf(dr, p) : TRUE
    <3>1. c \in N /\ dr.parent[c] = p /\ c \in S
      BY <1>2, <2>2 DEF isParent, ChildrenOf
    <3>2. StandsAt(dr, p) = IF leaves = {} THEN First(dr)[c] ELSE Joined(dr, leaves)
      BY <2>2, FirstUnfolds
    <3>3. CASE leaves = {}
      <4>1. isParent(dr, c)
        BY <3>1, <3>3 DEF Childless, ChildrenOf
      <4>2. StandsAt(dr, p) = StandsAt(dr, c)
        BY <3>1, <3>2, <3>3, <4>1, FirstUnfolds
      <4>3. c \in Inside(dr, p) /\ Inside(dr, c) \subseteq Inside(dr, p)
        BY <3>1, InsideFacts
      <4> HIDE DEF c
      <4> QED BY <3>1, <4>2, <4>3
    <3>4. CASE leaves # {}
      <4>1. Joined(dr, leaves) \in leaves
        BY <1>1, <3>4, JoinedIsThere
      <4>2. StandsAt(dr, p) \in Childless(dr) /\ dr.parent[StandsAt(dr, p)] = p /\ StandsAt(dr, p) \in N
        BY <3>2, <3>4, <4>1 DEF ChildrenOf
      <4> QED BY <4>2, InsideFacts
    <3> QED BY <3>3, <3>4
  <2> QED BY <2>1, <2>2
<1>3. S = N
  <2> HIDE DEF S
  <2>1. S \subseteq N
    BY DEF S
  <2> QED BY <1>1, <1>2, <2>1, DownInduction
<1> QED BY <1>3, FirstUnfolds

\* The levels in pieces, and the piece of a node of a level.
InPieces(dr) == {p \in {Root} \cup dr.nodes : Cardinality(Pieces(dr, p)) > 1}
LevelLinks(dr, p) ==
    UNION {(ChildrenOf(dr, p) \cap ({l[1]} \cup Above(dr, l[1])))
           \X (ChildrenOf(dr, p) \cap ({l[2]} \cup Above(dr, l[2]))) : l \in Links(dr)}
PieceOf(dr, p, n) ==
    Reach({n}, [m \in ChildrenOf(dr, p) |-> {o \in ChildrenOf(dr, p) : <<m, o>> \in LevelLinks(dr, p)}])

\* A link is between two nodes, and goes both ways.
LEMMA LinkFacts ==
  ASSUME NEW dr, IsDrawing(dr), NEW l \in Links(dr)
  PROVE  l = <<l[1], l[2]>> /\ l[1] \in dr.nodes /\ l[2] \in dr.nodes /\ Swapped(l) \in Links(dr)
<1>1. PICK e \in DOMAIN dr.ends : l = dr.ends[e] \/ l = Swapped(dr.ends[e])
  BY DEF Links
<1>2. dr.ends[e] \in dr.nodes \X dr.nodes
  BY DEF IsDrawing
<1>3. /\ dr.ends[e] = <<dr.ends[e][1], dr.ends[e][2]>>
      /\ dr.ends[e][1] \in dr.nodes /\ dr.ends[e][2] \in dr.nodes
      /\ Swapped(dr.ends[e]) = <<dr.ends[e][2], dr.ends[e][1]>>
  BY <1>2 DEF Swapped
<1>4. Swapped(dr.ends[e]) \in Links(dr) /\ dr.ends[e] \in Links(dr)
  BY DEF Links
<1>5. CASE l = dr.ends[e]
  BY <1>3, <1>4, <1>5
<1>6. CASE l = Swapped(dr.ends[e])
  <2>1. l = <<dr.ends[e][2], dr.ends[e][1]>>
    BY <1>3, <1>6
  <2>2. l[1] = dr.ends[e][2] /\ l[2] = dr.ends[e][1]
    BY <2>1
  <2>3. Swapped(l) = dr.ends[e]
    BY <1>3, <2>2 DEF Swapped
  <2> QED BY <1>3, <1>4, <2>1, <2>2, <2>3
<1> QED BY <1>1, <1>5, <1>6

\* Every node of a level is in one of its pieces, and what the links of the level keep
\* together is all in a piece or not at all.
LEMMA PieceFacts ==
  ASSUME NEW dr, IsDrawing(dr), NEW p, NEW G \in SUBSET ChildrenOf(dr, p),
         \A l \in Links(dr) : \A m, o \in ChildrenOf(dr, p) :
            m \in {l[1]} \cup Above(dr, l[1]) /\ o \in {l[2]} \cup Above(dr, l[2]) => (m \in G <=> o \in G)
  PROVE  /\ Pieces(dr, p) = {PieceOf(dr, p, n) : n \in ChildrenOf(dr, p)}
         /\ IsFiniteSet(Pieces(dr, p))
         /\ \A n \in ChildrenOf(dr, p) :
               /\ n \in PieceOf(dr, p, n) /\ PieceOf(dr, p, n) \subseteq ChildrenOf(dr, p)
               /\ \A m \in PieceOf(dr, p, n) : m \in G <=> n \in G
<1> DEFINE L == ChildrenOf(dr, p)
           R == LevelLinks(dr, p)
           to == [m \in L |-> {o \in L : <<m, o>> \in R}]
<1>1. IsFiniteSet(L)
  <2>1. L \subseteq dr.nodes /\ IsFiniteSet(dr.nodes)
    BY DEF ChildrenOf, IsDrawing
  <2> QED BY <2>1, FS_Subset
<1>2. Pieces(dr, p) = {PieceOf(dr, p, n) : n \in L}
  BY DEF Pieces, PieceOf, LevelLinks
<1>3. IsFiniteSet({PieceOf(dr, p, n) : n \in L})
  <2> DEFINE f == [n \in L |-> PieceOf(dr, p, n)]
  <2>1. f = [n \in L |-> f[n]] /\ {PieceOf(dr, p, n) : n \in L} = {f[n] : n \in L}
    OBVIOUS
  <2> HIDE DEF L, f
  <2> QED BY <1>1, <2>1, FiniteValues
<1>4. \A m, o \in L : <<m, o>> \in R => (m \in G <=> o \in G)
  BY DEF LevelLinks
<1> HIDE DEF R
<1>5. to \in [L -> SUBSET L]
  OBVIOUS
<1>6. \A m \in G : to[m] \subseteq G
  BY <1>4
<1>7. \A m \in L \ G : to[m] \subseteq L \ G
  BY <1>4
<1>8. ASSUME NEW n \in L
      PROVE  /\ n \in PieceOf(dr, p, n) /\ PieceOf(dr, p, n) \subseteq L
             /\ \A m \in PieceOf(dr, p, n) : m \in G <=> n \in G
  <2>1. PieceOf(dr, p, n) = Reach({n}, to)
    BY DEF PieceOf, R
  <2> HIDE DEF to, L
  <2>2. CASE n \in G
    <3>1. G \in SUBSET L
      BY DEF L
    <3>2. n \in Reach({n}, to) /\ Reach({n}, to) \subseteq G
      BY <1>1, <1>5, <1>6, <2>2, <3>1, ReachStaysInside
    <3> QED BY <2>1, <2>2, <3>1, <3>2
  <2>3. CASE n \notin G
    <3>1. n \in Reach({n}, to) /\ Reach({n}, to) \subseteq L \ G
      BY <1>1, <1>5, <1>7, <2>3, ReachStaysInside
    <3> QED BY <2>1, <2>3, <3>1
  <2> QED BY <2>2, <2>3
<1> QED BY <1>2, <1>3, <1>8

\* The transformed graph: its nodes, and links in both directions between what the ends
\* of an edge stand at and between a dummy and the pieces of its level.
LEMMA NeighborhoodFacts ==
  ASSUME NEW dr, IsDrawing(dr), Forest(dr.parent)
  PROVE  /\ IsFiniteSet(DOMAIN Neighborhood(dr))
         /\ Neighborhood(dr) \in [DOMAIN Neighborhood(dr) -> SUBSET DOMAIN Neighborhood(dr)]
         /\ DOMAIN Neighborhood(dr) = Childless(dr) \cup {Dummy(p) : p \in InPieces(dr)}
         /\ \A l \in Links(dr) :
               /\ StandsAt(dr, l[1]) \in Childless(dr)
               /\ StandsAt(dr, l[2]) \in Neighborhood(dr)[StandsAt(dr, l[1])]
         /\ \A p \in InPieces(dr) : \A piece \in Pieces(dr, p) :
               /\ Joined(dr, piece) \in piece
               /\ StandsAt(dr, Joined(dr, piece)) \in Neighborhood(dr)[Dummy(p)]
               /\ Dummy(p) \in Neighborhood(dr)[StandsAt(dr, Joined(dr, piece))]
<1> DEFINE J == DummyEdges(dr)
           I == Childless(dr) \cup {j[1] : j \in J}
           E == Links(dr) \cup J \cup {Swapped(j) : j \in J}
           R == {<<StandsAt(dr, l[1]), StandsAt(dr, l[2])>> : l \in E}
           N == Neighborhood(dr)
<1>1. N = [v \in I |-> {w \in I : <<v, w>> \in R}]
  BY DEF Neighborhood
<1>2. IsFiniteSet(dr.nodes) /\ IsFiniteSet(DOMAIN dr.ends)
      /\ \A p \in dr.nodes \cup {Root} : Dummy(p) \notin dr.nodes
  BY DEF IsDrawing
<1>3. \A j : j \in J <=> \E p \in InPieces(dr) : \E piece \in Pieces(dr, p) :
                             j = <<Dummy(p), Joined(dr, piece)>>
  BY DEF DummyEdges, InPieces, JoinedAt
<1>4. ASSUME NEW p \in InPieces(dr) PROVE Pieces(dr, p) # {}
  <2>1. Cardinality(Pieces(dr, p)) > 1
    BY DEF InPieces
  <2>2. Cardinality({}) = 0
    BY FS_EmptySet
  <2> QED BY <2>1, <2>2
<1>5. {j[1] : j \in J} = {Dummy(p) : p \in InPieces(dr)}
  <2>1. ASSUME NEW j \in J PROVE j[1] \in {Dummy(p) : p \in InPieces(dr)}
    BY <1>3
  <2>2. ASSUME NEW p \in InPieces(dr) PROVE \E j \in J : j[1] = Dummy(p)
    <3>1. PICK piece \in Pieces(dr, p) : TRUE
      BY <1>4
    <3> DEFINE j == <<Dummy(p), Joined(dr, piece)>>
    <3>2. j \in J
      BY <1>3
    <3> QED BY <3>2
  <2> QED BY <2>1, <2>2
<1>6. IsFiniteSet(I)
  <2>1. Childless(dr) \subseteq dr.nodes
    BY DEF Childless
  <2>2. IsFiniteSet(dr.nodes \cup {Root})
    BY <1>2, FS_AddElement
  <2>3. InPieces(dr) \subseteq dr.nodes \cup {Root}
    BY DEF InPieces
  <2>4. IsFiniteSet(InPieces(dr)) /\ IsFiniteSet(Childless(dr))
    BY <1>2, <2>1, <2>2, <2>3, FS_Subset
  <2> DEFINE f == [p \in InPieces(dr) |-> Dummy(p)]
  <2>5. f = [p \in InPieces(dr) |-> f[p]] /\ {Dummy(p) : p \in InPieces(dr)} = {f[p] : p \in InPieces(dr)}
    OBVIOUS
  <2> HIDE DEF f
  <2>6. IsFiniteSet({Dummy(p) : p \in InPieces(dr)})
    BY <2>4, <2>5, FiniteValues
  <2> QED BY <1>5, <2>4, <2>6, FS_Union
<1>7. ASSUME NEW p \in InPieces(dr), NEW piece \in Pieces(dr, p)
      PROVE  /\ Joined(dr, piece) \in piece /\ Joined(dr, piece) \in dr.nodes
             /\ StandsAt(dr, Dummy(p)) = Dummy(p)
             /\ <<Dummy(p), Joined(dr, piece)>> \in J
  <2>1. Pieces(dr, p) = {PieceOf(dr, p, n) : n \in ChildrenOf(dr, p)}
        /\ \A n \in ChildrenOf(dr, p) : n \in PieceOf(dr, p, n)
                                        /\ PieceOf(dr, p, n) \subseteq ChildrenOf(dr, p)
    <3>1. {} \in SUBSET ChildrenOf(dr, p)
      OBVIOUS
    <3> QED BY <3>1, PieceFacts
  <2>2. piece # {} /\ piece \subseteq dr.nodes
    BY <2>1 DEF ChildrenOf
  <2>3. p \in dr.nodes \cup {Root}
    BY DEF InPieces
  <2> QED BY <1>2, <1>3, <2>2, <2>3, JoinedIsThere, StandsInside
<1> HIDE DEF J
<1>8. \A l \in Links(dr) : /\ StandsAt(dr, l[1]) \in Childless(dr) /\ StandsAt(dr, l[2]) \in Childless(dr)
                           /\ <<StandsAt(dr, l[1]), StandsAt(dr, l[2])>> \in R
  BY LinkFacts, StandsInside
<1>9. ASSUME NEW p \in InPieces(dr), NEW piece \in Pieces(dr, p)
      PROVE  /\ Dummy(p) \in I /\ StandsAt(dr, Joined(dr, piece)) \in I
             /\ <<Dummy(p), StandsAt(dr, Joined(dr, piece))>> \in R
             /\ <<StandsAt(dr, Joined(dr, piece)), Dummy(p)>> \in R
  <2> DEFINE j == <<Dummy(p), Joined(dr, piece)>>
  <2>1. j \in E /\ Swapped(j) \in E /\ Swapped(j) = <<Joined(dr, piece), Dummy(p)>>
    BY <1>7 DEF Swapped
  <2>2. <<StandsAt(dr, j[1]), StandsAt(dr, j[2])>> \in R
        /\ <<StandsAt(dr, Swapped(j)[1]), StandsAt(dr, Swapped(j)[2])>> \in R
    <3> HIDE DEF j, E
    <3> QED BY <2>1
  <2>3. Dummy(p) \in I
    BY <1>5
  <2>4. StandsAt(dr, Joined(dr, piece)) \in I
    BY <1>7, StandsInside
  <2> HIDE DEF R, I, E
  <2> QED BY <1>7, <2>1, <2>2, <2>3, <2>4
<1> HIDE DEF R, N
<1>10. I = Childless(dr) \cup {Dummy(p) : p \in InPieces(dr)}
  BY <1>5
<1>11. DOMAIN N = I /\ N \in [I -> SUBSET I]
  <2> HIDE DEF I
  <2> QED BY <1>1
<1>12. \A l \in Links(dr) : /\ StandsAt(dr, l[1]) \in Childless(dr)
                            /\ StandsAt(dr, l[2]) \in N[StandsAt(dr, l[1])]
  BY <1>1, <1>8
<1> HIDE DEF I
<1>13. \A p \in InPieces(dr) : \A piece \in Pieces(dr, p) :
               /\ Joined(dr, piece) \in piece
               /\ StandsAt(dr, Joined(dr, piece)) \in N[Dummy(p)]
               /\ Dummy(p) \in N[StandsAt(dr, Joined(dr, piece))]
  BY <1>1, <1>7, <1>9
<1> QED BY <1>6, <1>10, <1>11, <1>12, <1>13 DEF N

\* Of C, a set of nodes of the transformed graph, has all that is at or inside n, or none.
Agrees(dr, C, n) ==
    \A x \in dr.nodes : x = n \/ x \in Inside(dr, n) =>
        /\ x \in Childless(dr) => (x \in C <=> StandsAt(dr, n) \in C)
        /\ x \in InPieces(dr) => (Dummy(x) \in C <=> StandsAt(dr, n) \in C)

\* If every node of a level agrees, so do they with each other and with the level's
\* dummy: within a piece by the links, between pieces by the dummy.
LEMMA LevelAgrees ==
  ASSUME NEW dr, IsDrawing(dr), Forest(dr.parent),
         NEW C, \A v \in C : Neighborhood(dr)[v] \subseteq C,
         NEW p \in {Root} \cup dr.nodes, \A c \in ChildrenOf(dr, p) : Agrees(dr, C, c)
  PROVE  /\ \A m, o \in ChildrenOf(dr, p) : StandsAt(dr, m) \in C <=> StandsAt(dr, o) \in C
         /\ p \in InPieces(dr) =>
               \A m \in ChildrenOf(dr, p) : Dummy(p) \in C <=> StandsAt(dr, m) \in C
<1> DEFINE L == ChildrenOf(dr, p)
           G == {n \in L : StandsAt(dr, n) \in C}
<1>1. L \subseteq dr.nodes
  BY DEF ChildrenOf
<1>2. ASSUME NEW l \in Links(dr) PROVE StandsAt(dr, l[1]) \in C => StandsAt(dr, l[2]) \in C
  BY NeighborhoodFacts
<1>3. ASSUME NEW l \in Links(dr) PROVE StandsAt(dr, l[1]) \in C <=> StandsAt(dr, l[2]) \in C
  <2>1. Swapped(l) \in Links(dr) /\ Swapped(l)[1] = l[2] /\ Swapped(l)[2] = l[1]
    BY LinkFacts DEF Swapped
  <2> QED BY <1>2, <2>1
<1>4. ASSUME NEW m \in L, NEW x \in dr.nodes, m \in {x} \cup Above(dr, x)
      PROVE  StandsAt(dr, x) \in C <=> StandsAt(dr, m) \in C
  <2> DEFINE y == StandsAt(dr, x)
  <2>1. x = m \/ x \in Inside(dr, m)
    BY <1>4 DEF Inside
  <2>2. y \in Childless(dr) /\ (y = x \/ y \in Inside(dr, x)) /\ y \in dr.nodes
    BY StandsInside DEF Childless
  <2>3. y = m \/ y \in Inside(dr, m)
    BY <1>1, <2>1, <2>2, InsideFacts
  <2> HIDE DEF y
  <2>4. Agrees(dr, C, m)
    OBVIOUS
  <2> QED BY <2>2, <2>3, <2>4 DEF Agrees, y
<1>5. ASSUME NEW l \in Links(dr), NEW m \in L, NEW o \in L,
             m \in {l[1]} \cup Above(dr, l[1]), o \in {l[2]} \cup Above(dr, l[2])
      PROVE  m \in G <=> o \in G
  <2>1. l[1] \in dr.nodes /\ l[2] \in dr.nodes
    BY LinkFacts
  <2>2. StandsAt(dr, m) \in C <=> StandsAt(dr, o) \in C
    BY <1>3, <1>4, <1>5, <2>1
  <2> QED BY <2>2
<1>6. /\ Pieces(dr, p) = {PieceOf(dr, p, n) : n \in L} /\ IsFiniteSet(Pieces(dr, p))
      /\ \A n \in L : /\ n \in PieceOf(dr, p, n) /\ PieceOf(dr, p, n) \subseteq L
                      /\ \A m \in PieceOf(dr, p, n) : m \in G <=> n \in G
  <2>1. G \in SUBSET L
    OBVIOUS
  <2> HIDE DEF G
  <2> QED BY <1>5, <2>1, PieceFacts
<1>7. ASSUME p \in InPieces(dr), NEW m \in L PROVE Dummy(p) \in C <=> StandsAt(dr, m) \in C
  <2> DEFINE piece == PieceOf(dr, p, m)
             j == Joined(dr, piece)
  <2>1. piece \in Pieces(dr, p)
    BY <1>6
  <2> HIDE DEF piece
  <2>2. /\ j \in piece /\ StandsAt(dr, j) \in Neighborhood(dr)[Dummy(p)]
        /\ Dummy(p) \in Neighborhood(dr)[StandsAt(dr, j)]
    BY <1>7, <2>1, NeighborhoodFacts
  <2> HIDE DEF j
  <2>3. Dummy(p) \in C <=> StandsAt(dr, j) \in C
    BY <2>2
  <2>4. j \in L /\ (j \in G <=> m \in G)
    <3> HIDE DEF G
    <3> QED BY <1>6, <2>2 DEF piece
  <2> QED BY <2>3, <2>4
<1>8. ASSUME NEW m \in L, NEW o \in L PROVE StandsAt(dr, m) \in C <=> StandsAt(dr, o) \in C
  <2>1. CASE p \in InPieces(dr)
    BY <1>7, <2>1
  <2>2. CASE p \notin InPieces(dr)
    <3>1. ~(Cardinality(Pieces(dr, p)) > 1)
      BY <2>2 DEF InPieces
    <3>2. PieceOf(dr, p, m) \in Pieces(dr, p) /\ PieceOf(dr, p, o) \in Pieces(dr, p)
      BY <1>6
    <3>3. PieceOf(dr, p, m) = PieceOf(dr, p, o)
      BY <1>6, <3>1, <3>2, TwoElements
    <3>4. o \in PieceOf(dr, p, m) /\ (o \in G <=> m \in G)
      <4> HIDE DEF G
      <4> QED BY <1>6, <3>3
    <3> QED BY <3>4
  <2> QED BY <2>1, <2>2
<1> QED BY <1>7, <1>8

\* From level to level up: all of the transformed graph agrees.
LEMMA TransformedIsConnected ==
  ASSUME NEW dr, IsDrawing(dr), Forest(dr.parent),
         NEW C \in SUBSET DOMAIN Neighborhood(dr), C # {},
         \A v \in C : Neighborhood(dr)[v] \subseteq C
  PROVE  C = DOMAIN Neighborhood(dr)
<1> DEFINE N == dr.nodes
           S == {n \in N : Agrees(dr, C, n)}
<1>1. N = DOMAIN dr.parent /\ Root \notin N /\ IsFiniteSet(N)
  BY DEF IsDrawing
<1>0. ASSUME NEW v \in DOMAIN Neighborhood(dr)
      PROVE  v \in Childless(dr) \/ \E p \in InPieces(dr) : v = Dummy(p)
  BY NeighborhoodFacts
<1>2. ASSUME NEW n \in N, \A c \in N : dr.parent[c] = n => c \in S
      PROVE  Agrees(dr, C, n)
  <2>1. CASE ~isParent(dr, n)
    <3>1. ChildrenOf(dr, n) = {} /\ n \in Childless(dr)
      BY <2>1 DEF isParent, Childless
    <3>2. StandsAt(dr, n) = n /\ Inside(dr, n) = {}
      <4>1. Inside(dr, n) \subseteq N
        BY DEF Inside
      <4> QED BY <2>1, <3>1, <4>1, FirstUnfolds, InsideFacts
    <3>3. n \notin InPieces(dr)
      <4>1. {} \in SUBSET ChildrenOf(dr, n)
        OBVIOUS
      <4>2. Pieces(dr, n) = {PieceOf(dr, n, m) : m \in ChildrenOf(dr, n)}
        BY <4>1, PieceFacts
      <4>3. Pieces(dr, n) = {}
        BY <3>1, <4>2
      <4>4. n # Root /\ Cardinality({}) = 0
        BY <1>1, FS_EmptySet
      <4> QED BY <4>3, <4>4 DEF InPieces
    <3> QED BY <3>2, <3>3 DEF Agrees
  <2>2. CASE isParent(dr, n)
    <3> DEFINE L == ChildrenOf(dr, n)
    <3>1. L # {} /\ L \subseteq N /\ n \notin Childless(dr)
      BY <2>2 DEF isParent, Childless, ChildrenOf
    <3>2. \A c \in L : Agrees(dr, C, c)
      BY <1>2 DEF ChildrenOf
    <3>3. /\ \A m, o \in L : StandsAt(dr, m) \in C <=> StandsAt(dr, o) \in C
          /\ n \in InPieces(dr) => \A m \in L : Dummy(n) \in C <=> StandsAt(dr, m) \in C
      BY <3>2, LevelAgrees
    <3> HIDE DEF L
    <3>4. ASSUME NEW x \in Inside(dr, n)
          PROVE  \E c \in L : x \in N /\ (x = c \/ x \in Inside(dr, c))
      <4>1. x \in N
        BY DEF Inside
      <4> QED BY <4>1, InsideFacts DEF L
    <3>5. ASSUME NEW c \in L PROVE StandsAt(dr, n) \in C <=> StandsAt(dr, c) \in C
      <4> DEFINE y == StandsAt(dr, n)
      <4>1. y \in Childless(dr) /\ (y = n \/ y \in Inside(dr, n))
        BY StandsInside
      <4>2. y \in Inside(dr, n)
        BY <3>1, <4>1
      <4>3. PICK b \in L : y \in N /\ (y = b \/ y \in Inside(dr, b))
        BY <3>4, <4>2
      <4>4. y \in C <=> StandsAt(dr, b) \in C
        BY <3>2, <4>1, <4>3 DEF Agrees
      <4> QED BY <3>3, <4>4
    <3>6. ASSUME NEW x \in N, x = n \/ x \in Inside(dr, n)
          PROVE  /\ x \in Childless(dr) => (x \in C <=> StandsAt(dr, n) \in C)
                 /\ x \in InPieces(dr) => (Dummy(x) \in C <=> StandsAt(dr, n) \in C)
      <4>1. CASE x = n
        BY <3>1, <3>3, <3>5, <4>1
      <4>2. CASE x # n
        <5>1. PICK c \in L : x = c \/ x \in Inside(dr, c)
          BY <3>4, <3>6, <4>2
        <5> QED BY <3>2, <3>5, <5>1 DEF Agrees
      <4> QED BY <4>1, <4>2
    <3> QED BY <3>6 DEF Agrees
  <2> QED BY <2>1, <2>2
<1>3. S = N
  <2>1. \A n \in N : (\A c \in N : dr.parent[c] = n => c \in S) => n \in S
    BY <1>2
  <2>2. S \subseteq N
    OBVIOUS
  <2> HIDE DEF S
  <2> QED BY <1>1, <2>1, <2>2, DownInduction
<1> DEFINE L == ChildrenOf(dr, Root)
<1>4. /\ L \subseteq N /\ \A c \in L : Agrees(dr, C, c)
  BY <1>3 DEF ChildrenOf
<1>5. /\ \A m, o \in L : StandsAt(dr, m) \in C <=> StandsAt(dr, o) \in C
      /\ Root \in InPieces(dr) => \A m \in L : Dummy(Root) \in C <=> StandsAt(dr, m) \in C
  BY <1>4, LevelAgrees
<1>6. \A x \in N : \E c \in L : x = c \/ x \in Inside(dr, c)
  BY InsideFacts
<1> HIDE DEF L
<1>7. ASSUME NEW v \in DOMAIN Neighborhood(dr), NEW c \in L
      PROVE  v \in C <=> StandsAt(dr, c) \in C
  <2>1. v \in Childless(dr) \/ \E p \in InPieces(dr) : v = Dummy(p)
    BY <1>0
  <2>2. CASE v \in Childless(dr)
    <3>1. v \in N
      BY <2>2 DEF Childless
    <3>2. PICK b \in L : v = b \/ v \in Inside(dr, b)
      BY <1>6, <3>1
    <3>3. v \in C <=> StandsAt(dr, b) \in C
      BY <1>4, <2>2, <3>1, <3>2 DEF Agrees
    <3> QED BY <1>5, <3>3
  <2>3. ASSUME NEW p \in InPieces(dr), v = Dummy(p) PROVE v \in C <=> StandsAt(dr, c) \in C
    <3>1. CASE p = Root
      BY <1>5, <2>3, <3>1
    <3>2. CASE p # Root
      <4>1. p \in N
        BY <3>2 DEF InPieces
      <4>2. PICK b \in L : p = b \/ p \in Inside(dr, b)
        BY <1>6, <4>1
      <4>3. v \in C <=> StandsAt(dr, b) \in C
        BY <1>4, <2>3, <4>1, <4>2 DEF Agrees
      <4> QED BY <1>5, <4>3
    <3> QED BY <3>1, <3>2
  <2> QED BY <2>1, <2>2, <2>3
<1>8. L # {}
  <2>1. N # {}
    <3> SUFFICES ASSUME N = {} PROVE FALSE
      OBVIOUS
    <3>1. PICK v \in DOMAIN Neighborhood(dr) : TRUE
      OBVIOUS
    <3>2. PICK p \in InPieces(dr) : TRUE
      <4>1. v \in Childless(dr) \/ \E p \in InPieces(dr) : v = Dummy(p)
        BY <1>0, <3>1
      <4>2. Childless(dr) = {}
        BY DEF Childless
      <4> QED BY <4>1, <4>2
    <3>3. {} \in SUBSET ChildrenOf(dr, p)
      OBVIOUS
    <3>4. Pieces(dr, p) = {PieceOf(dr, p, m) : m \in ChildrenOf(dr, p)}
      BY <3>3, PieceFacts
    <3>5. Pieces(dr, p) = {}
      BY <3>4 DEF ChildrenOf
    <3>6. Cardinality({}) = 0
      BY FS_EmptySet
    <3> QED BY <3>5, <3>6 DEF InPieces
  <2> QED BY <1>6, <2>1
<1> QED BY <1>7, <1>8

\* The searches from all nodes reach all nodes.
LEMMA SearchesAreComplete ==
  ASSUME NEW dr, IsDrawing(dr), Forest(dr.parent), NEW v \in DOMAIN Neighborhood(dr)
  PROVE  DOMAIN Distances(Neighborhood(dr), v) = DOMAIN Neighborhood(dr)
<1> DEFINE N == Neighborhood(dr)
           V == DOMAIN N
           C == DOMAIN Distances(N, v)
<1>1. IsFiniteSet(V) /\ N \in [V -> SUBSET V]
  BY NeighborhoodFacts
<1>2. C \subseteq V /\ v \in C /\ \A w \in C : N[w] \subseteq C
  <2> HIDE DEF N
  <2> QED BY <1>1, SearchIsClosed DEF N
<1> HIDE DEF C
<1> QED BY <1>2, TransformedIsConnected DEF C

------------------------------------------------------------------------------
(* The sampling.                                                            *)

\* Of more nodes than pivots one is no pivot; it is farther from the pivots than they
\* are themselves, and so is the farthest.
LEMMA FarthestIsNew ==
  ASSUME NEW V, IsFiniteSet(V), NEW near_ \in [V -> SUBSET V],
         \A v \in V : DOMAIN Distances(near_, v) = V,
         NEW chosen \in Seq(V), Len(chosen) # 0, Len(chosen) < Cardinality(V)
  PROVE  \E v \in V : /\ v = (CHOOSE w \in Farthest(near_, chosen) : TRUE)
                      /\ \A i \in DOMAIN chosen : chosen[i] # v
<1> DEFINE k == Cardinality(V)
           D == DOMAIN chosen
           columns == {Distances(near_, chosen[i]) : i \in D}
           to(v) == {c[v] : c \in {c \in columns : v \in DOMAIN c}}
           least == MinDistance(near_, chosen)
<1>1. k \in Nat /\ DOMAIN near_ = V /\ D = 1..Len(chosen) /\ Len(chosen) \in Nat
      /\ \A i \in D : chosen[i] \in V
  BY FS_CardinalityType
<1>2. \A v \in V : to(v) = {Distances(near_, chosen[i])[v] : i \in D}
  BY <1>1
<1>3. \A i \in D : \A v \in V : /\ Distances(near_, chosen[i])[v] \in 0..k
                                /\ Distances(near_, chosen[i])[v] = 0 <=> v = chosen[i]
  BY <1>1, SearchIsClosed
<1>4. ASSUME NEW v \in V
      PROVE  least[v] \in 0..k /\ (least[v] = 0 <=> \E i \in D : chosen[i] = v)
  <2> DEFINE T == to(v)
  <2>1. T = {Distances(near_, chosen[i])[v] : i \in D}
    BY <1>2
  <2>2. T # {} /\ T \subseteq Nat /\ \A x \in T : x \in 0..k
    <3>1. 1 \in D
      BY <1>1
    <3> QED BY <1>1, <1>3, <2>1, <3>1
  <2>3. 0 \in T <=> \E i \in D : chosen[i] = v
    BY <1>3, <2>1
  <2>4. least[v] = CHOOSE x \in T : \A y \in T : x <= y
    BY <1>1, <2>2 DEF MinDistance
  <2> HIDE DEF T, least
  <2>5. \E x \in T : \A y \in T : x =< y
    BY <2>2, LeastNatural
  <2>6. least[v] \in T /\ \A y \in T : least[v] =< y
    BY <2>4, <2>5
  <2>7. least[v] \in 0..k /\ least[v] \in Nat
    BY <2>2, <2>6
  <2>8. 0 \in T <=> least[v] = 0
    BY <2>6, <2>7
  <2> QED BY <2>3, <2>7, <2>8
<1> HIDE DEF least
<1>5. PICK w \in V : \A i \in D : chosen[i] # w
  <2> DEFINE T == {chosen[i] : i \in D}
  <2>1. chosen \in Surjection(D, T)
    BY <1>1 DEF Surjection
  <2>2. IsFiniteSet(D) /\ Cardinality(D) = Len(chosen)
    BY <1>1, FS_Interval
  <2> HIDE DEF T
  <2>3. IsFiniteSet(T) /\ Cardinality(T) =< Len(chosen)
    BY <2>1, <2>2, FS_Surjection
  <2>4. T # V
    BY <1>1, <2>3, FS_CardinalityType
  <2> QED BY <1>1, <2>4 DEF T
<1>6. PICK v \in V : \A x \in V : least[x] =< least[v]
  <2> DEFINE T == {least[x] : x \in V}
  <2>1. T \subseteq Nat /\ T # {} /\ \A x \in T : x =< k
    BY <1>1, <1>4, <1>5
  <2>2. Max(T) \in T /\ \A x \in T : x =< Max(T)
    <3> HIDE DEF T
    <3> QED BY <1>1, <2>1, MaxIsGreatest
  <2> QED BY <2>2
<1> DEFINE F == Farthest(near_, chosen)
<1>7. F = {x \in V : \A y \in V : least[y] =< least[x]}
  BY <1>1 DEF Farthest, least
<1>8. v \in F
  BY <1>6, <1>7
<1> DEFINE next == CHOOSE x \in F : TRUE
<1>9. next \in F
  BY <1>8
<1> HIDE DEF F, next
<1>10. next \in V /\ least[w] =< least[next]
  BY <1>7, <1>9
<1>11. least[next] # 0
  BY <1>4, <1>5, <1>10
<1>12. \A i \in D : chosen[i] # next
  BY <1>4, <1>10, <1>11
<1> QED BY <1>10, <1>12 DEF next, F
=============================================================================
