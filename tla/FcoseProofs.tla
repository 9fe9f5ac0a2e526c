---------------------------- MODULE FcoseProofs ----------------------------
(***************************************************************************)
(* Theorems about the layout: the compound graph stays one while trees are *)
(* pruned and grown back, nothing throws, no cached list is stale, the     *)
(* pivots' distances have no gaps, and whatever is pruned or packed comes  *)
(* back, what is tiled into its compound and side by side.                 *)
(***************************************************************************)
EXTENDS FcoseLayout, SpectralProofs, TileProofs

------------------------------------------------------------------------------
(* Edges and levels.                                                        *)

\* An edge is between graphs if its two ends have different owners.
LEMMA Pairs ==
  ASSUME NEW gr, NEW a, NEW b, a # b
  PROVE  /\ Cardinality({a, b}) = 2
         /\ OtherEnd({a, b}, a) = b /\ OtherEnd({a, b}, b) = a
         /\ isInterGraph(gr, {a, b}) = (gr.owner[a] # gr.owner[b])
<1>1. ASSUME NEW x, NEW y PROVE Cardinality({x, y}) = IF x = y THEN 1 ELSE 2
  <2>1. {x, y} = {x} \cup {y} /\ (x = y <=> y \in {x})
    OBVIOUS
  <2>2. IsFiniteSet({x}) /\ Cardinality({x}) = 1
    BY FS_Singleton
  <2>3. Cardinality({x} \cup {y}) = IF y \in {x} THEN Cardinality({x}) ELSE Cardinality({x}) + 1
    BY <2>2, FS_AddElement
  <2> QED BY <2>1, <2>2, <2>3
<1>2. {gr.owner[n] : n \in {a, b}} = {gr.owner[a], gr.owner[b]}
  OBVIOUS
<1>3. isInterGraph(gr, {a, b}) = (gr.owner[a] # gr.owner[b])
  <2>1. isInterGraph(gr, {a, b}) = (Cardinality({gr.owner[a], gr.owner[b]}) = 2)
    BY Zenon, <1>2 DEF isInterGraph
  <2>2. Cardinality({gr.owner[a], gr.owner[b]}) = IF gr.owner[a] = gr.owner[b] THEN 1 ELSE 2
    BY <1>1
  <2> QED BY <2>1, <2>2
<1>4. OtherEnd({a, b}, a) = b
  <2>1. \E m \in {a, b} : m # a
    OBVIOUS
  <2> QED BY <2>1 DEF OtherEnd
<1>5. OtherEnd({a, b}, b) = a
  <2>1. \E m \in {a, b} : m # b
    OBVIOUS
  <2> QED BY <2>1 DEF OtherEnd
<1> QED BY <1>1, <1>3, <1>4, <1>5

\* An edge leaves its graph if its ends have different owners.
LEMMA BetweenGraphs ==
  ASSUME NEW gr, NEW a, NEW b, a # b
  PROVE  isInterGraph(gr, {a, b}) = (gr.owner[a] # gr.owner[b])
BY Pairs

\* layout-base.js, calcIdealEdgeLengths: an edge is longer than its ideal exactly
\* if it leaves its graph, for each end lies below the lowest graph around both.
LEMMA LongerBetweenGraphs ==
  ASSUME NEW gr, Forest(gr.owner), Root \notin DOMAIN gr.owner, IsFiniteSet(DOMAIN gr.owner),
         NEW a \in DOMAIN gr.owner, NEW b \in DOMAIN gr.owner, a # b
  PROVE  LevelsCrossed(gr, {a, b}) > 0 <=> isInterGraph(gr, {a, b})
<1> DEFINE N == DOMAIN gr.owner
           U == Up(gr.owner)
           D(n) == Cardinality(U[n])
<1>1. /\ \A n : Ancestors(gr, n) = U[n] /\ Depth(gr, n) = D(n) + 1
      /\ \A n \in N : (gr.owner[n] = Root => U[n] = {})
                      /\ (gr.owner[n] # Root => gr.owner[n] \in U[n])
  <2>1. \A n : Ancestors(gr, n) = U[n]
    BY WaysUp
  <2>2. gr.owner \in [DOMAIN gr.owner -> DOMAIN gr.owner \cup {Root}]
    BY DEF Forest
  <2>3. U = [m \in DOMAIN gr.owner |->
               IF gr.owner[m] = Root THEN {} ELSE {gr.owner[m]} \cup U[gr.owner[m]]]
    BY <2>2, UpUnfolds
  <2> HIDE DEF U
  <2> QED BY <2>1, <2>3 DEF Depth
<1>2. \A n \in N : /\ U[n] \subseteq N /\ n \notin U[n]
                   /\ \A p \in U[n] : U[p] \subseteq U[n]
                   /\ \A p, q \in U[n] : p = q \/ p \in U[q] \/ q \in U[p]
  BY ForestOrder
<1> HIDE DEF U
<1>3. \A n \in N : IsFiniteSet(U[n]) /\ D(n) \in Nat /\ D(n) =< Cardinality(N)
  <2> SUFFICES ASSUME NEW n \in N PROVE IsFiniteSet(U[n]) /\ D(n) \in Nat /\ D(n) =< Cardinality(N)
    OBVIOUS
  <2>1. U[n] \in SUBSET N
    BY <1>2
  <2> QED BY <2>1, FS_Subset, FS_CardinalityType
<1>4. \A n \in N : \A p \in U[n] : D(p) < D(n)
  <2> SUFFICES ASSUME NEW n \in N, NEW p \in U[n] PROVE D(p) < D(n)
    OBVIOUS
  <2>1. p \in N /\ U[p] \in SUBSET U[n] /\ p \notin U[p]
    BY <1>2
  <2>2. U[n] # U[p]
    BY <2>1
  <2>3. D(p) =< D(n) /\ D(p) # D(n)
    BY <1>3, <2>1, <2>2, FS_Subset
  <2> QED BY <1>3, <2>1, <2>3
<1>5. \A n \in N : gr.owner[n] # Root => D(n) > 0
  <2> SUFFICES ASSUME NEW n \in N, gr.owner[n] # Root PROVE D(n) > 0
    OBVIOUS
  <2>1. U[n] # {} /\ IsFiniteSet(U[n]) /\ D(n) \in Nat
    BY <1>1, <1>3
  <2>2. D(n) # 0
    BY <2>1, FS_EmptySet
  <2> QED BY <2>1, <2>2
<1> DEFINE common == {p \in N : p \in U[a] /\ p \in U[b]}
<1>6. {p \in DOMAIN gr.owner : \A n \in {a, b} : p \in Ancestors(gr, n)} = common
  BY <1>1
<1>7. CASE ~isInterGraph(gr, {a, b})
  BY <1>7 DEF LevelsCrossed
<1>8. /\ isInterGraph(gr, {a, b}) => gr.owner[a] # gr.owner[b]
      /\ OtherEnd({a, b}, a) = b /\ OtherEnd({a, b}, b) = a
  BY Pairs
<1>9. CASE isInterGraph(gr, {a, b})
  <2> DEFINE c == LowestCommon(gr, {a, b})
             G == GraphDepth(gr, c)
  <2>1. G \in Nat /\ D(a) \in Nat /\ D(b) \in Nat /\ D(a) + D(b) + 2 - 2 * G > 0
    <3>1. CASE common = {}
      <4>1. c = Root /\ G = 1
        BY <1>6, <3>1 DEF LowestCommon, GraphDepth
      <4>2. gr.owner[a] # Root \/ gr.owner[b] # Root
        BY <1>9, <1>8
      <4>3. D(a) > 0 \/ D(b) > 0
        BY <1>5, <4>2
      <4> HIDE DEF c, D
      <4> QED BY <1>3, <4>1, <4>3
    <3>2. CASE common # {}
      <4> DEFINE T == {D(p) : p \in common}
      <4>1. T # {} /\ T \subseteq Nat /\ \A x \in T : x =< Cardinality(N)
        BY <1>3, <3>2
      <4>2. Cardinality(N) \in Nat
        BY FS_CardinalityType
      <4>3. PICK x \in T : \A y \in T : y =< x
        BY <4>1, <4>2, MaxIsGreatest
      <4>4. PICK p \in common : x = D(p)
        BY <4>3
      <4>5. \A q \in common \ {p} : q \in Ancestors(gr, p)
        <5> SUFFICES ASSUME NEW q \in common \ {p}, q \notin U[p] PROVE FALSE
          BY <1>1
        <5>1. p \in U[q]
          BY <1>2, <4>4
        <5>2. D(p) < D(q) /\ D(q) =< D(p) /\ D(p) \in Nat /\ D(q) \in Nat
          BY <1>3, <1>4, <4>3, <4>4, <5>1
        <5> QED BY <5>2
      <4>6. c = CHOOSE p_1 \in common : \A q \in common \ {p_1} : q \in Ancestors(gr, p_1)
        BY <1>6, <3>2 DEF LowestCommon
      <4>7. c \in common
        BY <4>5, <4>6
      <4>8. c # Root /\ G = D(c) + 1
        BY <1>1, <4>7 DEF GraphDepth
      <4>9. D(c) < D(a) /\ D(c) < D(b) /\ D(c) \in Nat
        BY <1>3, <1>4, <4>7
      <4> HIDE DEF c, D
      <4> QED BY <1>3, <4>8, <4>9
    <3> QED BY <3>1, <3>2
  <2>2. PICK n \in {a, b} : n = CHOOSE n_1 \in {a, b} : TRUE
    OBVIOUS
  <2>3. LevelsCrossed(gr, {a, b}) = Depth(gr, n) + Depth(gr, OtherEnd({a, b}, n)) - 2 * G
    BY <1>9, <2>2 DEF LevelsCrossed
  <2>4. LevelsCrossed(gr, {a, b}) = (D(a) + 1) + (D(b) + 1) - 2 * G
    <3> HIDE DEF G, D
    <3>1. CASE n = a
      BY <1>1, <1>8, <2>3, <3>1
    <3>2. CASE n = b
      <4>1. LevelsCrossed(gr, {a, b}) = (D(b) + 1) + (D(a) + 1) - 2 * G
        BY <1>1, <1>8, <2>3, <3>2
      <4> QED BY <2>1, <4>1
    <3> QED BY <3>1, <3>2
  <2> HIDE DEF G, D
  <2> QED BY <1>9, <2>1, <2>4
<1> QED BY <1>7, <1>9

------------------------------------------------------------------------------
(* The compound graph.                                                      *)

\* A compound graph: who lists a node owns it, edges join two different nodes in
\* lists, and the owners lead up to the root.
GraphOK(gr) ==
    /\ \A p \in DOMAIN gr.members : \A n \in gr.members[p] :
           n \in DOMAIN gr.owner /\ gr.owner[n] = p
    /\ \A e \in gr.edges : e \subseteq AllNodes(gr) /\ \E a, b \in e : a # b /\ e = {a, b}
    /\ Forest(gr.owner) /\ Root \notin DOMAIN gr.owner /\ IsFiniteSet(DOMAIN gr.owner)

\* LGraph.remove and LGraphManager.remove leave a graph, with the nodes that were
\* not taken out.
LEMMA Removals ==
  ASSUME NEW gr, GraphOK(gr), NEW S
  PROVE  /\ GraphOK(RemoveNodes(gr, S)) /\ GraphOK(RemoveGraphs(gr, S)) /\ GraphOK(RemoveEdges(gr, S))
         /\ AllNodes(RemoveNodes(gr, S)) = AllNodes(gr) \ S
         /\ AllNodes(RemoveEdges(gr, S)) = AllNodes(gr)
<1>1. /\ \A p \in DOMAIN gr.members : \A n \in gr.members[p] : n \in DOMAIN gr.owner /\ gr.owner[n] = p
      /\ \A e \in gr.edges : e \subseteq AllNodes(gr) /\ \E a, b \in e : a # b /\ e = {a, b}
      /\ Forest(gr.owner) /\ Root \notin DOMAIN gr.owner /\ IsFiniteSet(DOMAIN gr.owner)
  BY DEF GraphOK
<1>2. GraphOK(RemoveEdges(gr, S)) /\ AllNodes(RemoveEdges(gr, S)) = AllNodes(gr)
  <2> DEFINE h == RemoveEdges(gr, S)
  <2>1. h = [members |-> gr.members, owner |-> gr.owner, edges |-> gr.edges \ S]
    BY <1>1 DEF RemoveEdges
  <2>2. AllNodes(h) = AllNodes(gr)
    BY <2>1 DEF AllNodes
  <2> HIDE DEF h
  <2>3. \A e \in h.edges : e \subseteq AllNodes(h) /\ \E a, b \in e : a # b /\ e = {a, b}
    BY <1>1, <2>1, <2>2
  <2>4. \A p \in DOMAIN h.members : \A n \in h.members[p] : n \in DOMAIN h.owner /\ h.owner[n] = p
    BY <1>1, <2>1
  <2>5. GraphOK(h)
    BY <1>1, <2>1, <2>3, <2>4 DEF GraphOK
  <2> QED BY <2>2, <2>5 DEF h
<1>3. GraphOK(RemoveNodes(gr, S)) /\ AllNodes(RemoveNodes(gr, S)) = AllNodes(gr) \ S
  <2> DEFINE h == RemoveNodes(gr, S)
             new == [p \in DOMAIN gr.members |-> gr.members[p] \ {n \in S : gr.owner[n] = p}]
  <2>1. h = [members |-> new, owner |-> gr.owner, edges |-> {e \in gr.edges : e \cap S = {}}]
    BY <1>1 DEF RemoveNodes
  <2>2. /\ DOMAIN new = DOMAIN gr.members
        /\ \A p \in DOMAIN gr.members : new[p] = gr.members[p] \ S
    BY <1>1
  <2> HIDE DEF new
  <2>3. AllNodes(h) = AllNodes(gr) \ S
    BY <2>1, <2>2 DEF AllNodes
  <2> HIDE DEF h
  <2>4. \A p \in DOMAIN h.members : \A n \in h.members[p] : n \in DOMAIN h.owner /\ h.owner[n] = p
    BY <1>1, <2>1, <2>2
  <2>5. \A e \in h.edges : e \subseteq AllNodes(h) /\ \E a, b \in e : a # b /\ e = {a, b}
    BY <1>1, <2>1, <2>3
  <2> QED BY <1>1, <2>1, <2>2, <2>3, <2>4, <2>5 DEF GraphOK, h
<1>4. GraphOK(RemoveGraphs(gr, S))
  <2> DEFINE h == RemoveGraphs(gr, S)
             new == [q \in DOMAIN gr.members \ S |-> gr.members[q]]
  <2>1. h = [members |-> new, owner |-> gr.owner,
             edges |-> {e \in gr.edges : \A p \in S : e \cap gr.members[p] = {}}]
    BY <1>1 DEF RemoveGraphs
  <2>2. /\ DOMAIN new = DOMAIN gr.members \ S
        /\ \A p \in DOMAIN new : new[p] = gr.members[p]
    OBVIOUS
  <2> HIDE DEF new, h
  <2>3. \A p \in DOMAIN h.members : \A n \in h.members[p] : n \in DOMAIN h.owner /\ h.owner[n] = p
    BY <1>1, <2>1, <2>2
  <2>4. ASSUME NEW e \in h.edges PROVE e \subseteq AllNodes(h) /\ \E a, b \in e : a # b /\ e = {a, b}
    <3>1. e \in gr.edges /\ \A p \in S : e \cap gr.members[p] = {}
      BY <2>1
    <3>2. ASSUME NEW n \in e PROVE n \in AllNodes(h)
      <4>1. PICK p \in DOMAIN gr.members : n \in gr.members[p]
        BY <1>1, <3>1 DEF AllNodes
      <4>2. p \notin S
        BY <3>1, <4>1
      <4> QED BY <2>1, <2>2, <4>1, <4>2 DEF AllNodes
    <3> QED BY <1>1, <3>1, <3>2
  <2> QED BY <1>1, <2>1, <2>2, <2>3, <2>4 DEF GraphOK, h
<1> QED BY <1>2, <1>3, <1>4

\* What a record says of a node taken out of gr: its owner, and an edge to a node
\* of the same owner.
Fitting(gr, r) ==
    /\ r.owner \in DOMAIN gr.members
    /\ r.node \in DOMAIN gr.owner /\ gr.owner[r.node] = r.owner

\* growTree puts nodes back where they were.
LEMMA Additions ==
  ASSUME NEW gr, GraphOK(gr), NEW R,
         \A r \in R : /\ Fitting(gr, r)
                      /\ \E m \in gr.members[r.owner] : m # r.node /\ r.edge = {r.node, m}
  PROVE  LET h == AddBack(gr, R)
         IN  /\ GraphOK(h) /\ h.owner = gr.owner /\ h.edges = gr.edges \cup {r.edge : r \in R}
             /\ DOMAIN h.members = DOMAIN gr.members
             /\ \A p \in DOMAIN gr.members :
                    h.members[p] = gr.members[p] \cup {r.node : r \in {r \in R : r.owner = p}}
             /\ AllNodes(h) = AllNodes(gr) \cup {r.node : r \in R}
<1> DEFINE h == AddBack(gr, R)
           nodes == {r.node : r \in R}
           new == [p \in DOMAIN gr.members |-> gr.members[p] \cup {r.node : r \in {r \in R : r.owner = p}}]
           over == [n \in nodes |-> (CHOOSE r \in R : r.node = n).owner]
<1>1. /\ \A p \in DOMAIN gr.members : \A n \in gr.members[p] : n \in DOMAIN gr.owner /\ gr.owner[n] = p
      /\ \A e \in gr.edges : e \subseteq AllNodes(gr) /\ \E a, b \in e : a # b /\ e = {a, b}
      /\ Forest(gr.owner) /\ Root \notin DOMAIN gr.owner /\ IsFiniteSet(DOMAIN gr.owner)
  BY DEF GraphOK
<1>2. \A n \in nodes : n \in DOMAIN gr.owner /\ over[n] = gr.owner[n]
  <2> SUFFICES ASSUME NEW n \in nodes PROVE n \in DOMAIN gr.owner /\ over[n] = gr.owner[n]
    OBVIOUS
  <2>1. PICK r \in R : r = CHOOSE r_1 \in R : r_1.node = n
    OBVIOUS
  <2>2. r.node = n
    BY <2>1
  <2>3. over[n] = r.owner
    BY <2>1
  <2> QED BY <2>2, <2>3 DEF Fitting
<1>3. [n \in DOMAIN gr.owner \cup nodes |->
          IF n \in nodes THEN (CHOOSE r \in R : r.node = n).owner ELSE gr.owner[n]] = gr.owner
  <2>1. gr.owner = [n \in DOMAIN gr.owner |-> gr.owner[n]]
    BY <1>1 DEF Forest
  <2>2. \A n \in nodes : (CHOOSE r \in R : r.node = n).owner = gr.owner[n]
    BY <1>2
  <2>3. DOMAIN gr.owner \cup nodes = DOMAIN gr.owner
    BY <1>2
  <2> HIDE DEF nodes
  <2> QED BY <2>1, <2>2, <2>3
<1>4. h = [members |-> new, owner |-> gr.owner, edges |-> gr.edges \cup {r.edge : r \in R}]
  BY <1>3 DEF AddBack
<1>5. /\ DOMAIN new = DOMAIN gr.members
      /\ \A p \in DOMAIN gr.members : new[p] = gr.members[p] \cup {r.node : r \in {r \in R : r.owner = p}}
  OBVIOUS
<1> HIDE DEF new, over
<1>6. AllNodes(h) = AllNodes(gr) \cup nodes
  <2>1. \A n : n \in nodes <=> \E p \in DOMAIN gr.members : n \in {r.node : r \in {r \in R : r.owner = p}}
    BY DEF Fitting
  <2> HIDE DEF nodes
  <2>2. AllNodes(h) = UNION {new[p] : p \in DOMAIN new}
    BY <1>4 DEF AllNodes
  <2> QED BY <1>5, <2>1, <2>2 DEF AllNodes
<1> HIDE DEF h
<1>7. \A p \in DOMAIN h.members : \A n \in h.members[p] : n \in DOMAIN h.owner /\ h.owner[n] = p
  BY <1>1, <1>4, <1>5 DEF Fitting
<1>8. ASSUME NEW e \in h.edges PROVE e \subseteq AllNodes(h) /\ \E a, b \in e : a # b /\ e = {a, b}
  <2>1. CASE e \in gr.edges
    BY <1>1, <1>6, <2>1
  <2>2. CASE e \in {r.edge : r \in R}
    <3>1. PICK r \in R : e = r.edge
      BY <2>2
    <3>2. PICK m \in gr.members[r.owner] : m # r.node /\ r.edge = {r.node, m}
      OBVIOUS
    <3>3. m \in AllNodes(gr) /\ r.node \in nodes
      BY <3>2 DEF AllNodes, Fitting
    <3> QED BY <1>6, <3>1, <3>2, <3>3
  <2> QED BY <1>4, <2>1, <2>2
<1>9. GraphOK(h)
  BY <1>1, <1>4, <1>5, <1>7, <1>8 DEF GraphOK
<1> QED BY <1>4, <1>5, <1>6, <1>9 DEF h

------------------------------------------------------------------------------
(* The graph of a drawing.                                                  *)

\* A new manager's graph is one.
LEMMA EmptyManager == GraphOK(NewManager) /\ AllNodes(NewManager) = {}
<1>1. DOMAIN <<>> = {} /\ <<>> \in [{} -> {Root}]
  OBVIOUS
<1>2. Forest(<<>>)
  <2>1. (SUBSET DOMAIN <<>>) \ {{}} = {} /\ {Root} = DOMAIN <<>> \cup {Root}
    BY <1>1
  <2>2. \A S \in (SUBSET DOMAIN <<>>) \ {{}} : \E n \in S : <<>>[n] \notin S
    BY <2>1
  <2>3. <<>> \in [DOMAIN <<>> -> DOMAIN <<>> \cup {Root}]
    BY <1>1, <2>1
  <2> HIDE DEF Forest
  <2> QED BY Zenon, <2>2, <2>3 DEF Forest
<1>3. IsFiniteSet({})
  BY FS_EmptySet
<1> QED BY <1>1, <1>2, <1>3 DEF GraphOK, NewManager, AllNodes

\* What the drawings are like.
LEMMA DrawingFacts ==
  ASSUME NEW dr \in Drawings
  PROVE  /\ IsFiniteSet(dr.nodes) /\ DOMAIN dr.parent = dr.nodes /\ Forest(dr.parent)
         /\ dr.ends \in [DOMAIN dr.ends -> dr.nodes \X dr.nodes]
         /\ Root \notin dr.nodes
         /\ \A p \in dr.nodes \cup {Root} : Dummy(p) \notin dr.nodes \cup {Root}
BY DrawingsAssumption DEF IsDrawing

\* A part of a forest that holds the parents of its nodes is a forest.
LEMMA PartOfForest ==
  ASSUME NEW parent, Forest(parent), NEW S \in SUBSET DOMAIN parent,
         \A n \in S : parent[n] \in S \cup {Root}
  PROVE  Forest([n \in S |-> parent[n]])
<1> DEFINE f == [n \in S |-> parent[n]]
<1>1. f \in [S -> S \cup {Root}] /\ DOMAIN f = S /\ \A n \in S : f[n] = parent[n]
  OBVIOUS
<1> HIDE DEF f
<1>2. ASSUME NEW T \in (SUBSET S) \ {{}} PROVE \E n \in T : f[n] \notin T
  BY <1>1, <1>2 DEF Forest
<1> QED BY <1>1, <1>2 DEF Forest, f

\* The ways up are the same in a part of a forest with the parents of its nodes.
LEMMA PartWays ==
  ASSUME NEW parent, Forest(parent), Root \notin DOMAIN parent, NEW S \in SUBSET DOMAIN parent,
         \A n \in S : parent[n] \in S \cup {Root}
  PROVE  \A n \in S : Up([n_1 \in S |-> parent[n_1]])[n] = Up(parent)[n]
<1> DEFINE f == [n \in S |-> parent[n]]
           U == Up(parent)
           V == Up(f)
<1>1. DOMAIN f = S /\ Forest(f) /\ f \in [S -> S \cup {Root}] /\ \A n \in S : f[n] = parent[n]
  BY PartOfForest
<1>2. U = [n \in DOMAIN parent |-> IF parent[n] = Root THEN {} ELSE {parent[n]} \cup U[parent[n]]]
  BY UpUnfolds DEF Forest
<1> HIDE DEF f, U
<1>3. V = [n \in DOMAIN f |-> IF f[n] = Root THEN {} ELSE {f[n]} \cup V[f[n]]]
  BY <1>1, UpUnfolds
<1> HIDE DEF V
<1> DEFINE T == {n \in S : V[n] = U[n]}
<1>4. T \in SUBSET DOMAIN f /\ \A n \in DOMAIN f : f[n] = Root \/ f[n] \in T => n \in T
  <2>1. ASSUME NEW n \in S, f[n] = Root \/ f[n] \in T PROVE V[n] = U[n]
    <3>1. V[n] = IF f[n] = Root THEN {} ELSE {f[n]} \cup V[f[n]]
      BY <1>1, <1>3
    <3>2. U[n] = IF f[n] = Root THEN {} ELSE {f[n]} \cup U[f[n]]
      BY <1>1, <1>2
    <3> QED BY <2>1, <3>1, <3>2
  <2> QED BY <1>1, <2>1
<1>5. T = DOMAIN f
  BY <1>1, <1>4, ForestInduction
<1> QED BY <1>1, <1>5 DEF V, U, f

\* processChildrenList comes to the parents of what it comes to, and copies the
\* children of what it opens.
LEMMA CopyMakesAGraph ==
  ASSUME d \in Drawings, copy
  PROVE  /\ GraphOK(g') /\ DOMAIN g'.owner \subseteq d.nodes
         /\ DOMAIN g'.members \subseteq {Root} \cup DOMAIN g'.owner
         /\ g'.edges = CopiedEdges /\ DOMAIN g'.owner = Copied
         /\ \A n \in Copied : Up(g'.owner)[n] = Up(d.parent)[n]
<1> DEFINE N == d.nodes
           U == Up(d.parent)
           C == Copied
           PW == ParentsWithoutChildren(d)
           opened == {p \in C : isParent(d, p)} \ PW
           h == [members |-> [p \in {Root} \cup opened |-> ChildrenOf(d, p)],
                 owner |-> [n \in C |-> d.parent[n]],
                 edges |-> CopiedEdges]
<1>1. g' = h
  BY DEF copy
<1>2. /\ IsFiniteSet(N) /\ DOMAIN d.parent = N /\ Forest(d.parent) /\ Root \notin N
      /\ \A n \in N : d.parent[n] \in N \cup {Root}
      /\ \A e \in DOMAIN d.ends : d.ends[e] \in N \X N
  BY DrawingFacts DEF Forest
<1>3. /\ \A n : Above(d, n) = U[n]
      /\ \A n \in N : (d.parent[n] = Root => U[n] = {})
                      /\ (d.parent[n] # Root => U[n] = {d.parent[n]} \cup U[d.parent[n]])
  <2>1. \A n : Above(d, n) = U[n]
    BY <1>2, WaysUp
  <2>2. d.parent \in [DOMAIN d.parent -> DOMAIN d.parent \cup {Root}] /\ Root \notin DOMAIN d.parent
    BY <1>2 DEF Forest
  <2>3. U = [m \in DOMAIN d.parent |->
               IF d.parent[m] = Root THEN {} ELSE {d.parent[m]} \cup U[d.parent[m]]]
    BY <2>2, UpUnfolds
  <2> HIDE DEF U
  <2> QED BY <1>2, <2>1, <2>3
<1>4. C = {n \in N : \A p \in PW : p \notin U[n]}
  BY <1>3 DEF Copied, Inside
<1>5. PW \subseteq N
  BY DEF ParentsWithoutChildren
<1> HIDE DEF U, C, PW
<1>6. \A n \in C : d.parent[n] \in C \cup {Root} /\ d.parent[n] \notin PW
  <2> SUFFICES ASSUME NEW n \in C, d.parent[n] # Root
               PROVE  d.parent[n] \in C /\ d.parent[n] \notin PW
    BY <1>2, <1>4, <1>5
  <2>1. n \in N /\ d.parent[n] \in N /\ U[n] = {d.parent[n]} \cup U[d.parent[n]]
    BY <1>2, <1>3, <1>4
  <2> QED BY <1>4, <2>1
<1>7. \A n \in N : \A p \in opened \cup {Root} : d.parent[n] = p => n \in C
  BY <1>2, <1>3, <1>4
<1>8. \A n \in C : d.parent[n] \in opened \cup {Root} /\ n \in N
  BY <1>4, <1>6, <1>2 DEF isParent, ChildrenOf
<1>9. /\ DOMAIN h.members = {Root} \cup opened /\ DOMAIN h.owner = C /\ h.edges = CopiedEdges
      /\ \A p \in {Root} \cup opened : h.members[p] = {n \in N : d.parent[n] = p}
      /\ \A n \in C : h.owner[n] = d.parent[n]
  BY DEF ChildrenOf
<1>10. Forest(h.owner)
  <2>1. C \in SUBSET DOMAIN d.parent /\ \A n \in C : d.parent[n] \in C \cup {Root}
    BY <1>2, <1>4, <1>6
  <2>2. Forest([n \in C |-> d.parent[n]])
    BY <1>2, <2>1, PartOfForest
  <2> QED BY <2>2
<1>11. opened \subseteq C /\ IsFiniteSet(C)
  <2>1. C \in SUBSET N
    BY <1>4
  <2> QED BY <1>2, <2>1, FS_Subset
<1> HIDE DEF opened, h
<1>12. AllNodes(h) = C
  BY <1>7, <1>8, <1>9 DEF AllNodes
<1>13. ASSUME NEW e \in h.edges PROVE e \subseteq AllNodes(h) /\ \E a, b \in e : a # b /\ e = {a, b}
  <2>1. PICK i \in DOMAIN d.ends : /\ e = {d.ends[i][1], d.ends[i][2]} /\ d.ends[i][1] # d.ends[i][2]
                                   /\ {d.ends[i][1], d.ends[i][2]} \subseteq C
    BY <1>9, <1>13 DEF CopiedEdges, C
  <2> QED BY <1>12, <2>1
<1>14. \A p \in DOMAIN h.members : \A n \in h.members[p] : n \in DOMAIN h.owner /\ h.owner[n] = p
  BY <1>7, <1>9
<1>15. GraphOK(h)
  BY <1>2, <1>9, <1>10, <1>11, <1>13, <1>14, <1>4 DEF GraphOK
<1>16. \A n \in C : Up(h.owner)[n] = Up(d.parent)[n]
  <2>1. C \in SUBSET DOMAIN d.parent /\ \A n \in C : d.parent[n] \in C \cup {Root}
    BY <1>2, <1>4, <1>6
  <2>2. \A n \in C : Up([n_1 \in C |-> d.parent[n_1]])[n] = Up(d.parent)[n]
    BY <1>2, <2>1, PartWays
  <2> QED BY <2>2 DEF h
<1> QED BY <1>1, <1>4, <1>9, <1>11, <1>15, <1>16 DEF C

\* A dummy compound is put between a node and those of its members that have no
\* edge: the graph stays one.
LEMMA GroupingMakesAGraph ==
  ASSUME d \in Drawings, GraphOK(g), DOMAIN g.owner \subseteq d.nodes,
         DOMAIN g.members \subseteq {Root} \cup DOMAIN g.owner, groupZeroDegreeMembers
  PROVE  /\ GraphOK(g') /\ g'.edges = g.edges /\ DOMAIN g.owner \subseteq DOMAIN g'.owner
         /\ \A n \in DOMAIN g.owner : Up(g'.owner)[n] \cap d.nodes = Up(g.owner)[n]
<1> DEFINE N == DOMAIN g.owner
           P == DOMAIN groups'
           dummies == {Dummy(p) : p \in P}
           moved(n) == g.owner[n] \in P /\ n \in groups'[g.owner[n]]
           M == [q \in DOMAIN g.members \cup dummies |->
                    IF q \in dummies THEN groups'[q[2]]
                    ELSE IF q \in P THEN (g.members[q] \ groups'[q]) \cup {Dummy(q)}
                    ELSE g.members[q]]
           O == [n \in N \cup dummies |->
                    IF n \in dummies THEN n[2]
                    ELSE IF moved(n) THEN Dummy(g.owner[n])
                    ELSE g.owner[n]]
<1>1. /\ \A p \in DOMAIN g.members : \A n \in g.members[p] : n \in N /\ g.owner[n] = p
      /\ \A e \in g.edges : e \subseteq AllNodes(g) /\ \E a, b \in e : a # b /\ e = {a, b}
      /\ Forest(g.owner) /\ Root \notin N /\ IsFiniteSet(N)
  BY DEF GraphOK
<1>2. /\ g'.members = M /\ g'.owner = O /\ g'.edges = g.edges
  BY DEF groupZeroDegreeMembers
<1>3. P \subseteq DOMAIN g.members /\ \A p \in P : groups'[p] \subseteq g.members[p]
  BY DEF groupZeroDegreeMembers, ZeroDegree
<1>4. /\ \A p \in P : p \in {Root} \cup N /\ Dummy(p) \notin {Root} \cup N /\ Dummy(p)[2] = p
      /\ \A n \in dummies : n[2] \in P /\ n = Dummy(n[2])
  <2>1. \A p \in d.nodes \cup {Root} : Dummy(p) \notin d.nodes \cup {Root}
    BY DrawingFacts
  <2>2. \A p : Dummy(p)[2] = p
    BY DEF Dummy
  <2> HIDE DEF P
  <2>3. \A p \in P : p \in {Root} \cup N /\ p \in d.nodes \cup {Root}
    BY <1>3
  <2> QED BY <2>1, <2>2, <2>3
<1> HIDE DEF P
<1>5. /\ DOMAIN M = DOMAIN g.members \cup dummies /\ DOMAIN O = N \cup dummies
      /\ \A p \in P : M[Dummy(p)] = groups'[p] /\ M[p] = (g.members[p] \ groups'[p]) \cup {Dummy(p)}
      /\ \A q \in DOMAIN g.members \ P : M[q] = g.members[q]
      /\ \A p \in P : O[Dummy(p)] = p
      /\ \A n \in N : O[n] = IF moved(n) THEN Dummy(g.owner[n]) ELSE g.owner[n]
  <2>1. \A q \in DOMAIN g.members : q \notin dummies
    BY <1>3, <1>4
  <2> QED BY <1>3, <1>4, <2>1
<1> HIDE DEF M, O
<1>6. \A q \in DOMAIN M : \A n \in M[q] : n \in DOMAIN O /\ O[n] = q
  <2> SUFFICES ASSUME NEW q \in DOMAIN M, NEW n \in M[q] PROVE n \in DOMAIN O /\ O[n] = q
    OBVIOUS
  <2>1. CASE q \in dummies
    <3>1. PICK p \in P : q = Dummy(p)
      BY <2>1
    <3>2. n \in groups'[p] /\ n \in g.members[p]
      BY <1>3, <1>5, <3>1
    <3> QED BY <1>1, <1>3, <1>5, <3>1, <3>2
  <2>2. CASE q \in P /\ n = Dummy(q)
    BY <1>5, <2>2
  <2>3. CASE q \in P /\ n \in g.members[q] \ groups'[q]
    BY <1>1, <1>3, <1>5, <2>3
  <2>4. CASE q \in DOMAIN g.members \ P
    BY <1>1, <1>5, <2>4
  <2> QED BY <1>5, <2>1, <2>2, <2>3, <2>4
<1>7. AllNodes(g) \subseteq AllNodes(g')
  <2> SUFFICES ASSUME NEW p \in DOMAIN g.members, NEW n \in g.members[p]
               PROVE  \E q \in DOMAIN M : n \in M[q]
    BY <1>2 DEF AllNodes
  <2>1. CASE p \in P /\ n \in groups'[p]
    <3>1. Dummy(p) \in DOMAIN M /\ n \in M[Dummy(p)]
      BY <1>5, <2>1
    <3> QED BY <3>1
  <2>2. CASE p \in P /\ n \notin groups'[p]
    BY <1>5, <2>2
  <2>3. CASE p \notin P
    BY <1>5, <2>3
  <2> QED BY <2>1, <2>2, <2>3
<1>8. Forest(O)
  <2>1. O \in [DOMAIN O -> DOMAIN O \cup {Root}]
    <3>1. \A n \in N : g.owner[n] \in N \cup {Root}
      BY <1>1 DEF Forest
    <3>2. \A n \in DOMAIN O : O[n] \in DOMAIN O \cup {Root}
      BY <1>3, <1>4, <1>5, <3>1
    <3>3. O = [n \in DOMAIN O |-> O[n]]
      BY DEF O
    <3> QED BY <3>2, <3>3
  <2>2. ASSUME NEW S \in (SUBSET DOMAIN O) \ {{}}, \A n \in S : O[n] \in S PROVE FALSE
    <3> DEFINE T == {n \in N : n \in S \/ (n \in P /\ Dummy(n) \in S)}
    <3>1. Root \notin S
      BY <1>1, <1>4, <1>5
    <3>2. \A p \in P : Dummy(p) \in S => p \in S /\ p \in N
      BY <1>4, <1>5, <2>2, <3>1
    <3>3. \A n \in T : n \in S
      BY <3>2
    <3>4. ASSUME NEW n \in T PROVE g.owner[n] \in T
      <4>1. n \in S /\ n \in N /\ O[n] \in S
        BY <2>2, <3>3
      <4>2. CASE moved(n)
        BY <1>5, <3>2, <4>1, <4>2
      <4>3. CASE ~moved(n)
        <5>1. g.owner[n] \in S /\ g.owner[n] \in N \cup {Root}
          BY <1>1, <1>5, <4>1, <4>3 DEF Forest
        <5> QED BY <3>1, <5>1
      <4> QED BY <4>2, <4>3
    <3>5. T # {}
      <4>1. PICK n \in S : n \in N \cup dummies
        BY <1>5
      <4> QED BY <3>2, <4>1
    <3>6. T \in (SUBSET N) \ {{}}
      BY <3>5
    <3> QED BY <1>1, <3>4, <3>6 DEF Forest
  <2> QED BY <2>1, <2>2 DEF Forest
<1>9. IsFiniteSet(DOMAIN O) /\ Root \notin DOMAIN O
  <2>1. IsFiniteSet(N \cup {Root})
    BY <1>1, FS_AddElement
  <2>2. P \in SUBSET (N \cup {Root})
    BY <1>4
  <2>3. IsFiniteSet(P)
    BY <2>1, <2>2, FS_Subset
  <2>4. IsFiniteSet(dummies)
    <3> DEFINE f == [p \in P |-> Dummy(p)]
    <3>1. f \in Surjection(P, dummies)
      BY DEF Surjection
    <3> HIDE DEF f, dummies
    <3> QED BY <2>3, <3>1, FS_Surjection
  <2>5. IsFiniteSet(N \cup dummies)
    BY <1>1, <2>4, FS_Union
  <2> QED BY <1>1, <1>4, <1>5, <2>5
<1>10. \A e \in g.edges : e \subseteq AllNodes(g') /\ \E a, b \in e : a # b /\ e = {a, b}
  BY <1>1, <1>7
<1>11. \A n \in N : Up(O)[n] \cap d.nodes = Up(g.owner)[n]
  <2> DEFINE U == Up(g.owner)
             V == Up(O)
             T == {n \in N : V[n] \cap d.nodes = U[n]}
  <2>1. U = [n \in DOMAIN g.owner |->
               IF g.owner[n] = Root THEN {} ELSE {g.owner[n]} \cup U[g.owner[n]]]
    <3>1. g.owner \in [DOMAIN g.owner -> DOMAIN g.owner \cup {Root}]
      BY <1>1 DEF Forest
    <3> QED BY <1>1, <3>1, UpUnfolds
  <2>2. V = [n \in DOMAIN O |-> IF O[n] = Root THEN {} ELSE {O[n]} \cup V[O[n]]]
    BY <1>8, <1>9, UpUnfolds DEF Forest
  <2> HIDE DEF U, V
  <2>3. N \subseteq d.nodes /\ Root \notin d.nodes /\ \A p \in P : Dummy(p) \notin d.nodes \cup {Root}
    BY <1>4, DrawingFacts
  <2>4. ASSUME NEW n \in N, g.owner[n] = Root \/ g.owner[n] \in T PROVE n \in T
    <3> DEFINE p == g.owner[n]
    <3>1. U[n] = (IF p = Root THEN {} ELSE {p} \cup U[p]) /\ (p # Root => p \in N /\ p \in T)
      BY <2>1, <2>4
    <3>2. V[n] = IF O[n] = Root THEN {} ELSE {O[n]} \cup V[O[n]]
      BY <1>5, <2>2
    <3>3. CASE moved(n)
      <4>1. O[n] = Dummy(p) /\ Dummy(p) \in DOMAIN O /\ O[Dummy(p)] = p /\ Dummy(p) \notin d.nodes \cup {Root}
        BY <1>5, <2>3, <3>3
      <4>2. V[Dummy(p)] = IF p = Root THEN {} ELSE {p} \cup V[p]
        BY <2>2, <4>1
      <4>3. V[n] = {Dummy(p)} \cup V[Dummy(p)]
        BY <3>2, <4>1
      <4> QED BY <2>3, <3>1, <4>1, <4>2, <4>3
    <3>4. CASE ~moved(n)
      <4>1. O[n] = p
        BY <1>5, <3>4
      <4> QED BY <2>3, <3>1, <3>2, <4>1
    <3> QED BY <3>3, <3>4
  <2>5. T = N
    <3>1. T \in SUBSET DOMAIN g.owner
      OBVIOUS
    <3>2. \A n \in DOMAIN g.owner : g.owner[n] = Root \/ g.owner[n] \in T => n \in T
      BY <2>4
    <3> HIDE DEF T
    <3> QED BY <1>1, <3>1, <3>2, ForestInduction
  <2> QED BY <2>5 DEF U, V
<1> QED BY <1>2, <1>5, <1>6, <1>8, <1>9, <1>10, <1>11 DEF GraphOK

------------------------------------------------------------------------------
(* The invariant.                                                           *)

\* The graph is one at every step of a drawing's layout; what copy makes of the
\* drawing has no dummies yet.
GraphInv ==
    /\ d \in Drawings /\ GraphOK(g)
    /\ at = "group" => DOMAIN g.owner \subseteq d.nodes
                       /\ DOMAIN g.members \subseteq {Root} \cup DOMAIN g.owner

\* The lists are made of the graph as it is, or not made.
ListsInv ==
    /\ all = [nodes |-> all.nodes, edges |-> all.edges, gravity |-> all.gravity]
    /\ at \in {"run", "sample", "copy", "group", "clear", "layout"} => all.edges = Unset
    /\ at \in {"run", "sample", "copy", "group", "layout"} => all.nodes = Unset
    /\ at \in {"reduce", "tick", "tiles"} =>
           all.nodes \in {Unset, AllNodes(g)} /\ all.edges \in {Unset, AllEdges(g)}
    /\ at \in {"tick", "tiles"} => all.gravity = heavy \cap AllNodes(g)

\* The counters of tick: growth begins with something to grow and ends with
\* nothing left, and what has cooled down is still.
LoopInv ==
    /\ loop \in [total : Nat, max : Nat, grow : 0..GrowPeriod - 1, after : 0..CoolSteps + 1,
                 growing : BOOLEAN, finished : BOOLEAN]
    /\ loop.total =< loop.max /\ still \in BOOLEAN
    /\ IF at = "tick" THEN loop.max > 0 ELSE loop = NoLoop
    /\ loop.finished => ~loop.growing /\ pruned = <<>>
    /\ loop.total = 0 => ~loop.growing /\ ~loop.finished /\ loop.grow = 0
    /\ loop.after = CoolSteps + 1 => loop.finished /\ still

Rounds(gr) ==
    Seq(SUBSET [node : DOMAIN gr.owner, edge : SUBSET DOMAIN gr.owner, owner : DOMAIN gr.members])

\* A node taken out in round i can come back when the rounds after i have.
Fits(gr, rounds, i, r) ==
    /\ gr.owner[r.node] = r.owner /\ r.node \notin AllNodes(gr)
    /\ \E m \in DOMAIN gr.owner :
          /\ m # r.node /\ r.edge = {r.node, m} /\ gr.owner[m] = r.owner
          /\ m \in AllNodes(gr) \/ \E j \in DOMAIN rounds : j > i /\ \E q \in rounds[j] : q.node = m

PrunedInv ==
    /\ pruned \in Rounds(g)
    /\ at \notin {"reduce", "tick"} => pruned = <<>>
    /\ \A i \in DOMAIN pruned : \A r \in pruned[i] : Fits(g, pruned, i, r)
    /\ \A i, j \in DOMAIN pruned : i # j => \A r \in pruned[i], q \in pruned[j] : r.node # q.node

\* The edges in the graph and those taken out are the ones there were.
EdgesInv ==
    at \in {"reduce", "tick", "tiles", "place", "done"} =>
        /\ g.edges \cup {r.edge : r \in UNION {pruned[i] : i \in DOMAIN pruned}} = DOMAIN lengths
        /\ \A e \in DOMAIN lengths : lengths[e] > 0 <=> isInterGraph(g, e)

\* The edges of the drawing that are laid out: not those into a node's own compounds.
LaidOut == {e \in CopiedEdges : \A n \in e : OtherEnd(e, n) \notin Inside(d, n)}

\* The graph has the edges of the drawing, and over a node the compounds it has there,
\* with dummies between, until the edges not laid out are dropped.
SourceInv ==
    /\ at = "group" => g.edges = CopiedEdges /\ Copied = DOMAIN g.owner
                       /\ \A n \in Copied : Up(g.owner)[n] = Up(d.parent)[n]
    /\ at \in {"clear", "layout"} => g.edges = CopiedEdges /\ Copied \subseteq DOMAIN g.owner
                       /\ \A n \in Copied : Up(g.owner)[n] \cap d.nodes = Up(d.parent)[n]
    /\ at \in {"reduce", "tick", "tiles", "place", "done"} => DOMAIN lengths = LaidOut

Places == {"run", "sample", "copy", "group", "clear", "layout", "reduce", "tick", "tiles",
           "place", "done"}

LayoutInv ==
    /\ at \in Places /\ GraphInv /\ ListsInv /\ LoopInv /\ PrunedInv /\ EdgesInv
    /\ SourceInv /\ SurroundingsKnown

------------------------------------------------------------------------------
(* Trees are pruned and grown.                                              *)

\* A leaf pruned has one edge, to a node of its graph that is not pruned with it.
LEMMA LeafFacts ==
  ASSUME GraphOK(g), getAllNodes = AllNodes(g), NEW n \in Pruned
  PROVE  /\ n \in AllNodes(g) /\ n \in DOMAIN g.owner /\ g.owner[n] \in DOMAIN g.members
         /\ \E m \in AllNodes(g) \ Pruned :
               /\ m # n /\ m \in DOMAIN g.owner /\ g.owner[m] = g.owner[n]
               /\ EdgesAt(g, n) = {{n, m}}
               /\ Record(n) = [node |-> n, edge |-> {n, m}, owner |-> g.owner[n]]
<1>1. /\ \A p \in DOMAIN g.members : \A x \in g.members[p] : x \in DOMAIN g.owner /\ g.owner[x] = p
      /\ \A e \in g.edges : e \subseteq AllNodes(g) /\ \E a, b \in e : a # b /\ e = {a, b}
      /\ IsFiniteSet(DOMAIN g.owner)
  BY DEF GraphOK
<1>2. \A x \in AllNodes(g) : x \in DOMAIN g.owner /\ g.owner[x] \in DOMAIN g.members
  BY <1>1 DEF AllNodes
<1>3. \A x \in Leaves : /\ x \in AllNodes(g) /\ Cardinality(EdgesAt(g, x)) = 1
                        /\ \A e \in EdgesAt(g, x) : ~isInterGraph(g, e)
  BY DEF Leaves
<1>4. \A x : IsFiniteSet(EdgesAt(g, x))
  <2> SUFFICES ASSUME NEW x PROVE IsFiniteSet(EdgesAt(g, x))
    OBVIOUS
  <2>1. EdgesAt(g, x) \in SUBSET (SUBSET DOMAIN g.owner)
    BY <1>1, <1>2 DEF EdgesAt
  <2>2. IsFiniteSet(SUBSET DOMAIN g.owner)
    BY <1>1, FS_SUBSET
  <2> QED BY <2>1, <2>2, FS_Subset
<1>5. \A x \in Leaves : \E e : EdgesAt(g, x) = {e}
  BY <1>3, <1>4, FS_Singleton
<1>6. n \in Leaves /\ \A m \in Leaves : {m, n} \in g.edges => n = CHOOSE x \in {m, n} : TRUE
  BY DEF Pruned
<1>7. PICK e : EdgesAt(g, n) = {e}
  BY <1>5, <1>6
<1>8. e \in g.edges /\ n \in e /\ ~isInterGraph(g, e) /\ Record(n).edge = e
  <2>1. e \in EdgesAt(g, n)
    BY <1>7
  <2>2. (CHOOSE x \in EdgesAt(g, n) : TRUE) = e
    BY <1>7
  <2> QED BY <1>3, <1>6, <2>1, <2>2 DEF EdgesAt, Record
<1>9. PICK m \in e : m # n /\ e = {n, m} /\ m \in AllNodes(g)
  BY <1>1, <1>8
<1>10. g.owner[m] = g.owner[n]
  <2>1. g.owner[n] # g.owner[m] => isInterGraph(g, {n, m})
    BY <1>9, BetweenGraphs
  <2>2. ~isInterGraph(g, {n, m})
    BY <1>8, <1>9
  <2> QED BY <2>1, <2>2
<1>11. m \notin Pruned
  <2> SUFFICES ASSUME m \in Pruned PROVE FALSE
    OBVIOUS
  <2>1. m \in Leaves /\ \A x \in Leaves : {x, m} \in g.edges => m = CHOOSE y \in {x, m} : TRUE
    BY DEF Pruned
  <2>2. {m, n} = {n, m} /\ {n, m} \in g.edges
    BY <1>8, <1>9
  <2>3. n = CHOOSE x \in {m, n} : TRUE
    BY <1>6, <2>1, <2>2
  <2>4. m = CHOOSE x \in {n, m} : TRUE
    BY <1>6, <2>1, <2>2
  <2> QED BY <1>9, <2>2, <2>3, <2>4
<1>12. Record(n) = [node |-> n, edge |-> {n, m}, owner |-> g.owner[n]]
  BY <1>8, <1>9 DEF Record
<1> QED BY <1>2, <1>3, <1>6, <1>7, <1>9, <1>10, <1>11, <1>12

\* reduceTrees: what is taken out is recorded so that it can come back.
LEMMA PruningKeepsRounds ==
  ASSUME GraphOK(g), getAllNodes = AllNodes(g), PrunedInv, EdgesInv, at = "reduce", reduce_step
  PROVE  PrunedInv' /\ EdgesInv'
<1> DEFINE R == {Record(n) : n \in Pruned}
           L == Len(pruned)
<1>1. /\ g' = RemoveNodes(g, Pruned) /\ pruned' = Append(pruned, R)
      /\ at' = "reduce" /\ lengths' = lengths
  BY DEF reduce_step, weights
<1>2. /\ g'.owner = g.owner /\ DOMAIN g'.members = DOMAIN g.members
      /\ AllNodes(g') = AllNodes(g) \ Pruned
      /\ g'.edges = {e \in g.edges : e \cap Pruned = {}}
  BY <1>1, Removals DEF RemoveNodes
<1>3. /\ pruned \in Rounds(g) /\ \A i \in DOMAIN pruned : \A r \in pruned[i] : Fits(g, pruned, i, r)
      /\ \A i, j \in DOMAIN pruned : i # j => \A r \in pruned[i], q \in pruned[j] : r.node # q.node
  BY DEF PrunedInv
<1>4. \A r \in R : r.node \in Pruned /\ r = Record(r.node) /\ Fits(g', pruned', L + 1, r)
  <2> SUFFICES ASSUME NEW n \in Pruned
               PROVE  Record(n).node = n /\ Fits(g', pruned', L + 1, Record(n))
    OBVIOUS
  <2>1. PICK m \in AllNodes(g) \ Pruned :
              /\ m # n /\ m \in DOMAIN g.owner /\ g.owner[m] = g.owner[n]
              /\ Record(n) = [node |-> n, edge |-> {n, m}, owner |-> g.owner[n]]
    BY LeafFacts
  <2> QED BY <1>2, <2>1 DEF Fits
<1>5. R \in SUBSET [node : DOMAIN g.owner, edge : SUBSET DOMAIN g.owner, owner : DOMAIN g.members]
  <2> SUFFICES ASSUME NEW n \in Pruned
               PROVE  Record(n) \in [node : DOMAIN g.owner, edge : SUBSET DOMAIN g.owner,
                                     owner : DOMAIN g.members]
    OBVIOUS
  <2>1. PICK m \in AllNodes(g) \ Pruned :
              /\ m \in DOMAIN g.owner
              /\ Record(n) = [node |-> n, edge |-> {n, m}, owner |-> g.owner[n]]
    BY LeafFacts
  <2>2. n \in DOMAIN g.owner /\ g.owner[n] \in DOMAIN g.members
    BY LeafFacts
  <2> QED BY <2>1, <2>2
<1> HIDE DEF R
<1>6. /\ L \in Nat /\ DOMAIN pruned = 1..L /\ DOMAIN pruned' = 1..L + 1
      /\ pruned'[L + 1] = R /\ \A i \in 1..L : pruned'[i] = pruned[i]
      /\ pruned' \in Rounds(g')
  BY <1>1, <1>2, <1>3, <1>5 DEF Rounds
<1> HIDE DEF L
<1>7. ASSUME NEW i \in DOMAIN pruned', NEW r \in pruned'[i] PROVE Fits(g', pruned', i, r)
  <2>1. CASE i = L + 1
    BY <1>4, <1>6, <2>1
  <2>2. CASE i \in 1..L
    <3>1. Fits(g, pruned, i, r)
      BY <1>3, <1>6, <2>2
    <3>2. PICK m \in DOMAIN g.owner :
              /\ m # r.node /\ r.edge = {r.node, m} /\ g.owner[m] = r.owner
              /\ m \in AllNodes(g) \/ \E j \in DOMAIN pruned : j > i /\ \E q \in pruned[j] : q.node = m
      BY <3>1 DEF Fits
    <3>3. m \in AllNodes(g') \/ \E j \in DOMAIN pruned' : j > i /\ \E q \in pruned'[j] : q.node = m
      <4>1. CASE m \in AllNodes(g) /\ m \notin Pruned
        BY <1>2, <4>1
      <4>2. CASE m \in Pruned
        <5>1. Record(m) \in R /\ Record(m).node = m
          BY <4>2 DEF R, Record
        <5>2. L + 1 \in DOMAIN pruned' /\ L + 1 > i
          BY <1>6, <2>2
        <5> QED BY <1>6, <5>1, <5>2
      <4>3. CASE \E j \in DOMAIN pruned : j > i /\ \E q \in pruned[j] : q.node = m
        BY <1>6, <4>3
      <4> QED BY <3>2, <4>1, <4>2, <4>3
    <3>4. g'.owner[r.node] = r.owner /\ r.node \notin AllNodes(g')
      BY <1>2, <3>1 DEF Fits
    <3> QED BY <1>2, <3>2, <3>3, <3>4 DEF Fits
  <2> QED BY <1>6, <2>1, <2>2
<1>8. ASSUME NEW i \in DOMAIN pruned, NEW r \in pruned[i] PROVE r.node \notin Pruned
  <2>1. r.node \notin AllNodes(g)
    BY <1>3 DEF Fits
  <2> QED BY <2>1, LeafFacts
<1>9. \A i, j \in DOMAIN pruned' : i # j => \A r \in pruned'[i], q \in pruned'[j] : r.node # q.node
  BY <1>3, <1>4, <1>6, <1>8
<1>10. g'.edges \cup {r.edge : r \in R} = g.edges
  <2>1. ASSUME NEW e \in g.edges, e \cap Pruned # {} PROVE \E r \in R : e = r.edge
    <3>1. PICK n \in Pruned : n \in e
      BY <2>1
    <3>2. PICK m : EdgesAt(g, n) = {{n, m}} /\ Record(n).edge = {n, m}
      BY LeafFacts
    <3>3. e = {n, m}
      BY <3>1, <3>2 DEF EdgesAt
    <3> QED BY <3>2, <3>3 DEF R
  <2>2. ASSUME NEW r \in R PROVE r.edge \in g.edges
    <3>1. PICK n \in Pruned : r = Record(n)
      BY DEF R
    <3>2. PICK m : EdgesAt(g, n) = {{n, m}} /\ Record(n).edge = {n, m}
      BY LeafFacts
    <3> QED BY <3>1, <3>2 DEF EdgesAt
  <2> QED BY <1>2, <2>1, <2>2
<1>11. UNION {pruned'[i] : i \in DOMAIN pruned'} = R \cup UNION {pruned[i] : i \in DOMAIN pruned}
  <2>1. \A i \in DOMAIN pruned' : i = L + 1 \/ i \in DOMAIN pruned
    BY <1>6
  <2>2. L + 1 \in DOMAIN pruned' /\ \A i \in DOMAIN pruned : i \in DOMAIN pruned' /\ pruned'[i] = pruned[i]
    BY <1>6
  <2> QED BY <1>6, <2>1, <2>2
<1>12. EdgesInv'
  <2>1. /\ g.edges \cup {r.edge : r \in UNION {pruned[i] : i \in DOMAIN pruned}} = DOMAIN lengths
        /\ \A e \in DOMAIN lengths : lengths[e] > 0 <=> isInterGraph(g, e)
    BY DEF EdgesInv
  <2>2. g'.edges \cup {r.edge : r \in UNION {pruned'[i] : i \in DOMAIN pruned'}} = DOMAIN lengths
    BY <1>10, <1>11, <2>1
  <2>3. \A e : isInterGraph(g', e) = isInterGraph(g, e)
    BY <1>2 DEF isInterGraph
  <2> QED BY <1>1, <2>1, <2>2, <2>3 DEF EdgesInv
<1> QED BY <1>1, <1>6, <1>7, <1>9, <1>12 DEF PrunedInv

\* growTree: every node of the last round has its neighbour, and what is back in the
\* graph leaves the rounds before as they were.
LEMMA GrowingKeepsRounds ==
  ASSUME GraphOK(g), getAllNodes = AllNodes(g), PrunedInv, EdgesInv, at = "tick", pruned # <<>>
  PROVE  /\ \A r \in Last(pruned) : CanRegrow(r)
         /\ GraphOK(growTree) /\ growTree.owner = g.owner /\ DOMAIN growTree.members = DOMAIN g.members
         /\ Front(pruned) \in Rounds(g)
         /\ \A i \in DOMAIN Front(pruned) : \A r \in Front(pruned)[i] :
                Fits(growTree, Front(pruned), i, r)
         /\ \A i, j \in DOMAIN Front(pruned) :
                i # j => \A r \in Front(pruned)[i], q \in Front(pruned)[j] : r.node # q.node
         /\ growTree.edges \cup {r.edge : r \in UNION {Front(pruned)[i] : i \in DOMAIN Front(pruned)}}
                = DOMAIN lengths
         /\ \A e : isInterGraph(growTree, e) = isInterGraph(g, e)
<1> DEFINE R == Last(pruned)
           F == Front(pruned)
           L == Len(pruned)
<1>1. /\ pruned \in Rounds(g) /\ \A i \in DOMAIN pruned : \A r \in pruned[i] : Fits(g, pruned, i, r)
      /\ \A i, j \in DOMAIN pruned : i # j => \A r \in pruned[i], q \in pruned[j] : r.node # q.node
  BY DEF PrunedInv
<1>2. /\ L \in Nat \ {0} /\ DOMAIN pruned = 1..L /\ DOMAIN F = 1..L - 1 /\ R = pruned[L]
      /\ \A i \in 1..L - 1 : F[i] = pruned[i] /\ i \in 1..L
      /\ F \in Rounds(g) /\ L \in 1..L
  BY <1>1 DEF Rounds, Front, Last
<1> HIDE DEF R, F, L
<1>3. \A p \in DOMAIN g.members : \A n \in g.members[p] : n \in DOMAIN g.owner /\ g.owner[n] = p
  BY DEF GraphOK
<1>4. R \in SUBSET [node : DOMAIN g.owner, edge : SUBSET DOMAIN g.owner, owner : DOMAIN g.members]
  BY <1>1, <1>2 DEF Rounds
<1>5. ASSUME NEW r \in R
      PROVE  /\ g.owner[r.node] = r.owner /\ r.node \notin AllNodes(g)
             /\ r.node \in DOMAIN g.owner /\ r.owner \in DOMAIN g.members
             /\ \E m \in g.members[r.owner] : m # r.node /\ r.edge = {r.node, m}
  <2>1. Fits(g, pruned, L, r)
    BY <1>1, <1>2
  <2>2. PICK m \in DOMAIN g.owner :
            /\ m # r.node /\ r.edge = {r.node, m} /\ g.owner[m] = r.owner
            /\ m \in AllNodes(g) \/ \E j \in DOMAIN pruned : j > L /\ \E q \in pruned[j] : q.node = m
    BY <2>1 DEF Fits
  <2>3. m \in AllNodes(g)
    BY <1>2, <2>2
  <2>4. m \in g.members[r.owner]
    BY <1>3, <2>2, <2>3 DEF AllNodes
  <2> QED BY <1>4, <2>1, <2>2, <2>4 DEF Fits
<1>6. ASSUME NEW r \in R PROVE CanRegrow(r)
  <2>1. PICK m \in g.members[r.owner] : m # r.node /\ r.edge = {r.node, m}
    BY <1>5
  <2>2. OtherEnd(r.edge, r.node) = m
    <3>1. ASSUME NEW a, NEW b, a # b PROVE OtherEnd({a, b}, a) = b
      BY <3>1, Pairs
    <3>2. OtherEnd({r.node, m}, r.node) = m
      BY <2>1, <3>1
    <3> QED BY <2>1, <3>2
  <2>3. m \in AllNodes(g) /\ r.node \notin g.members[r.owner] /\ r.edge \ {r.node} = {m}
    BY <1>5, <2>1 DEF AllNodes
  <2> QED BY <1>5, <2>1, <2>2, <2>3 DEF CanRegrow, CanAddBack
<1>7. /\ GraphOK(growTree) /\ growTree.owner = g.owner /\ DOMAIN growTree.members = DOMAIN g.members
      /\ growTree.edges = g.edges \cup {r.edge : r \in R}
      /\ AllNodes(growTree) = AllNodes(g) \cup {r.node : r \in R}
  <2>1. \A r \in R : /\ Fitting(g, r)
                     /\ \E m \in g.members[r.owner] : m # r.node /\ r.edge = {r.node, m}
    BY <1>5 DEF Fitting
  <2>2. growTree = AddBack(g, R)
    BY DEF growTree, R
  <2> QED BY <2>1, <2>2, Additions
<1>8. ASSUME NEW i \in DOMAIN F, NEW r \in F[i] PROVE Fits(growTree, F, i, r)
  <2>1. i \in DOMAIN pruned /\ r \in pruned[i] /\ Fits(g, pruned, i, r) /\ i # L /\ L \in DOMAIN pruned
    BY <1>1, <1>2
  <2>2. PICK m \in DOMAIN g.owner :
            /\ m # r.node /\ r.edge = {r.node, m} /\ g.owner[m] = r.owner
            /\ m \in AllNodes(g) \/ \E j \in DOMAIN pruned : j > i /\ \E q \in pruned[j] : q.node = m
    BY <2>1 DEF Fits
  <2>3. m \in AllNodes(growTree) \/ \E j \in DOMAIN F : j > i /\ \E q \in F[j] : q.node = m
    <3>1. CASE m \in AllNodes(g)
      BY <1>7, <3>1
    <3>2. ASSUME NEW j \in DOMAIN pruned, j > i, NEW q \in pruned[j], q.node = m
          PROVE  m \in AllNodes(growTree) \/ \E j_1 \in DOMAIN F : j_1 > i /\ \E q_1 \in F[j_1] : q_1.node = m
      <4>1. CASE j = L
        BY <1>2, <1>7, <3>2, <4>1
      <4>2. CASE j # L
        BY <1>2, <3>2, <4>2
      <4> QED BY <4>1, <4>2
    <3> QED BY <2>2, <3>1, <3>2
  <2>4. r.node \notin AllNodes(growTree) /\ growTree.owner[r.node] = r.owner
    BY <1>1, <1>2, <1>7, <2>1 DEF Fits
  <2> QED BY <1>7, <2>2, <2>3, <2>4 DEF Fits
<1>9. \A i, j \in DOMAIN F : i # j => \A r \in F[i], q \in F[j] : r.node # q.node
  BY <1>1, <1>2
<1>10. UNION {pruned[i] : i \in DOMAIN pruned} = R \cup UNION {F[i] : i \in DOMAIN F}
  <2>1. \A i \in DOMAIN pruned : i = L \/ i \in DOMAIN F
    BY <1>2
  <2> QED BY <1>2, <2>1
<1>11. growTree.edges \cup {r.edge : r \in UNION {F[i] : i \in DOMAIN F}} = DOMAIN lengths
  <2>1. g.edges \cup {r.edge : r \in UNION {pruned[i] : i \in DOMAIN pruned}} = DOMAIN lengths
    BY DEF EdgesInv
  <2> QED BY <1>7, <1>10, <2>1
<1>12. \A e : isInterGraph(growTree, e) = isInterGraph(g, e)
  BY <1>7 DEF isInterGraph
<1> QED BY <1>2, <1>6, <1>7, <1>8, <1>9, <1>11, <1>12 DEF R, F

------------------------------------------------------------------------------
(* The counters.                                                            *)

\* Counters taken modulo a period of at least two.
LEMMA Remainders ==
  ASSUME NEW P \in Nat \ {0, 1}
  PROVE  1 % P = 1 /\ \A x \in Nat : x % P \in 0..P - 1
OBVIOUS

\* tick: growth is taken up only with something to grow, and finished only without.
LEMMA Decisions ==
  ASSUME LoopInv, at = "tick", NEW conv \in isConverged(loop.total + 1)
  PROVE  LET dec == Decide(loop.total + 1, conv)
         IN  /\ dec.ends \in BOOLEAN /\ dec.grows \in BOOLEAN /\ dec.growing \in BOOLEAN
             /\ dec.counted \in BOOLEAN /\ dec.finished \in BOOLEAN
             /\ dec.grows => /\ pruned # <<>> /\ ~dec.finished /\ dec.growing /\ dec.counted
                             /\ loop.grow = 0
             /\ dec.finished => pruned = <<>> /\ ~dec.growing
             /\ loop.total = 0 /\ ~dec.grows /\ ~dec.ends => ~dec.growing /\ ~dec.finished
             /\ loop.finished => dec.finished
             /\ loop.after = CoolSteps + 1 => dec.ends
             /\ dec.ends => pruned = <<>>
<1> DEFINE n == loop.total + 1
           embedding == ~loop.growing /\ ~loop.finished
           last == n = loop.max /\ embedding
           check == n % CheckPeriod = 0 /\ embedding /\ ~(last /\ pruned # <<>>)
           done == last \/ (check /\ conv)
           growing == loop.growing \/ (done /\ pruned # <<>>)
           turn == growing /\ loop.grow = 0
           stops == turn /\ allGrown
           dec == Decide(n, conv)
<1>1. /\ loop.growing \in BOOLEAN /\ loop.finished \in BOOLEAN /\ still \in BOOLEAN
      /\ loop.finished => ~loop.growing /\ pruned = <<>>
      /\ loop.total = 0 => ~loop.growing /\ ~loop.finished /\ loop.grow = 0
      /\ loop.after = CoolSteps + 1 => loop.finished /\ still
  BY DEF LoopInv
<1>2. conv \in BOOLEAN /\ (still => conv)
  BY <1>1 DEF isConverged
<1>3. /\ dec.ends = ((done /\ pruned = <<>>) \/ ((loop.finished \/ stops) /\ conv))
      /\ dec.grows = (turn /\ pruned # <<>>) /\ dec.growing = (growing /\ ~stops)
      /\ dec.counted = growing /\ dec.finished = (loop.finished \/ stops)
  BY DEF Decide
<1>4. stops <=> growing /\ loop.grow = 0 /\ pruned = <<>>
  BY DEF allGrown
<1> HIDE DEF dec, last, check
<1> QED BY <1>1, <1>2, <1>3, <1>4 DEF dec

------------------------------------------------------------------------------
(* Every step keeps the invariant.                                          *)

\* What is copied is a matter of the drawing.
LEMMA SameDrawing ==
  ASSUME d' = d
  PROVE  Copied' = Copied /\ CopiedEdges' = CopiedEdges /\ LaidOut' = LaidOut
<1>1. Copied' = Copied
  BY DEF Copied
<1>2. CopiedEdges' = CopiedEdges
  BY <1>1 DEF CopiedEdges
<1> QED BY <1>1, <1>2 DEF LaidOut

\* The manager is empty at first.
LEMMA InvInit == Init => LayoutInv
<1> SUFFICES ASSUME Init PROVE LayoutInv
  OBVIOUS
<1>1. GraphInv
  BY EmptyManager DEF Init, GraphInv
<1>2. ListsInv
  BY DEF Init, ListsInv, NoLists
<1>3. LoopInv
  BY FcoseAssumption DEF Init, LoopInv, NoLoop
<1>4. PrunedInv
  BY DEF Init, PrunedInv, Rounds
<1>5. EdgesInv /\ SourceInv /\ SurroundingsKnown /\ at \in Places
  BY DEF Init, EdgesInv, SourceInv, SurroundingsKnown, Places
<1> QED BY <1>1, <1>2, <1>3, <1>4, <1>5 DEF LayoutInv

\* Steps that leave the graph and what is known of it alone.
LEMMA InvQuiet ==
  ASSUME LayoutInv, UNCHANGED <<d, g, all, weights, ticking>>,
         \/ at \in {"run", "sample"} /\ at' \in {"sample", "copy"}
         \/ at = "tiles" /\ at' = "place"
         \/ at = "place" /\ at' = "done"
         \/ at' = at
  PROVE  LayoutInv'
<1>1. at \in Places /\ at' \in Places
  BY DEF LayoutInv, Places
<1>2. /\ d' = d /\ g' = g /\ all' = all /\ heavy' = heavy /\ lengths' = lengths
      /\ pruned' = pruned /\ loop' = loop /\ still' = still /\ grid' = grid /\ seen' = seen
  BY DEF weights, ticking
<1>3. GraphInv'
  BY <1>2 DEF LayoutInv, GraphInv
<1>4. ListsInv'
  BY <1>2 DEF LayoutInv, ListsInv
<1>5. LoopInv'
  BY <1>2 DEF LayoutInv, LoopInv
<1>6. PrunedInv'
  BY <1>2 DEF LayoutInv, PrunedInv
<1>7. EdgesInv'
  BY <1>2 DEF LayoutInv, EdgesInv
<1>8. SurroundingsKnown'
  BY <1>2 DEF LayoutInv, SurroundingsKnown
<1>9. SourceInv'
  <2>1. Copied' = Copied /\ CopiedEdges' = CopiedEdges /\ LaidOut' = LaidOut
    BY <1>2, SameDrawing
  <2> QED BY <1>2, <2>1 DEF LayoutInv, SourceInv
<1> QED BY <1>1, <1>3, <1>4, <1>5, <1>6, <1>7, <1>8, <1>9 DEF LayoutInv

\* processChildrenList and processEdges build a compound graph.
LEMMA InvCopy ==
  ASSUME LayoutInv, copy
  PROVE  LayoutInv'
<1>1. /\ at = "copy" /\ at' = "group" /\ d' = d /\ all' = all /\ pruned' = pruned /\ loop' = loop
      /\ still' = still
  BY DEF copy, ticking
<1>2. GraphInv'
  BY <1>1, CopyMakesAGraph DEF LayoutInv, GraphInv
<1>3. ListsInv'
  BY <1>1 DEF LayoutInv, ListsInv
<1>4. LoopInv'
  BY <1>1 DEF LayoutInv, LoopInv
<1>5. PrunedInv'
  BY <1>1 DEF LayoutInv, PrunedInv, Rounds
<1>6. EdgesInv' /\ SurroundingsKnown' /\ at' \in Places
  BY <1>1 DEF EdgesInv, SurroundingsKnown, Places
<1>7. SourceInv'
  <2>1. Copied' = Copied /\ CopiedEdges' = CopiedEdges
    BY <1>1, SameDrawing
  <2>2. /\ g'.edges = CopiedEdges /\ DOMAIN g'.owner = Copied
        /\ \A n \in Copied : Up(g'.owner)[n] = Up(d.parent)[n]
    BY CopyMakesAGraph DEF LayoutInv, GraphInv
  <2> QED BY <1>1, <2>1, <2>2 DEF SourceInv
<1> QED BY <1>2, <1>3, <1>4, <1>5, <1>6, <1>7 DEF LayoutInv

\* groupZeroDegreeMembers: a dummy comes between members and their parent.
LEMMA InvGroup ==
  ASSUME LayoutInv, groupZeroDegreeMembers
  PROVE  LayoutInv'
<1>1. /\ at = "group" /\ at' = "clear" /\ d' = d /\ all' = [all EXCEPT !.nodes = getAllNodes]
      /\ pruned' = pruned /\ loop' = loop /\ still' = still
  BY DEF groupZeroDegreeMembers, ticking
<1>2. GraphInv'
  BY <1>1, GroupingMakesAGraph DEF LayoutInv, GraphInv
<1>3. ListsInv'
  BY <1>1 DEF LayoutInv, ListsInv
<1>4. LoopInv'
  BY <1>1 DEF LayoutInv, LoopInv
<1>5. PrunedInv'
  BY <1>1 DEF LayoutInv, PrunedInv, Rounds
<1>6. EdgesInv' /\ SurroundingsKnown' /\ at' \in Places
  BY <1>1 DEF EdgesInv, SurroundingsKnown, Places
<1>7. SourceInv'
  <2>1. Copied' = Copied /\ CopiedEdges' = CopiedEdges
    BY <1>1, SameDrawing
  <2>2. /\ g'.edges = g.edges /\ DOMAIN g.owner \subseteq DOMAIN g'.owner
        /\ \A n \in DOMAIN g.owner : Up(g'.owner)[n] \cap d.nodes = Up(g.owner)[n]
    BY <1>1, GroupingMakesAGraph DEF LayoutInv, GraphInv
  <2>3. /\ g.edges = CopiedEdges /\ Copied = DOMAIN g.owner
        /\ \A n \in Copied : Up(g.owner)[n] = Up(d.parent)[n]
    BY <1>1 DEF LayoutInv, SourceInv
  <2> QED BY <1>1, <2>1, <2>2, <2>3 DEF SourceInv
<1> QED BY <1>2, <1>3, <1>4, <1>5, <1>6, <1>7 DEF LayoutInv

\* A compound of the set S is to be tiled if the nodes of S are.
MayBeTiled(n, S) ==
    /\ IsCompound(g, n)
    /\ \A c \in g.members[n] : Edgeless(c) /\ (IsCompound(g, c) => c \in S)

\* The members of a compound to be tiled have no edges: what is remembered of a node
\* is the solution of getToBeTiled's recursion, the only one in a forest.
LEMMA TiledAreEdgeless ==
  ASSUME GraphOK(g)
  PROVE  /\ ToBeTiled \subseteq DOMAIN g.owner /\ \A p \in ToBeTiled : MayBeTiled(p, ToBeTiled)
         /\ \A S \in SUBSET DOMAIN g.owner : (\A n \in S : MayBeTiled(n, S)) => S \subseteq ToBeTiled
<1> DEFINE N == DOMAIN g.owner
           Rec(t) == [n \in N |-> /\ IsCompound(g, n)
                                  /\ \A c \in g.members[n] : Edgeless(c) /\ (IsCompound(g, c) => t[c])]
           Fit(S, n) == /\ IsCompound(g, n)
                        /\ \A c \in g.members[n] : Edgeless(c) /\ (IsCompound(g, c) => c \in S)
           Kept == {n \in N : \E S \in SUBSET N : n \in S /\ \A x \in S : Fit(S, x)}
           f == [n \in N |-> n \in Kept]
           tiled == CHOOSE t : t = Rec(t)
<1>1. \A p \in DOMAIN g.members : \A n \in g.members[p] : n \in N
  BY DEF GraphOK
<1>2. \A n \in Kept : Fit(Kept, n)
  <2> SUFFICES ASSUME NEW n \in Kept PROVE Fit(Kept, n)
    OBVIOUS
  <2>1. PICK S \in SUBSET N : n \in S /\ \A x \in S : Fit(S, x)
    OBVIOUS
  <2>2. S \subseteq Kept
    BY <2>1
  <2> HIDE DEF Kept
  <2> QED BY <2>1, <2>2
<1>3. \A n \in N : Fit(Kept, n) => n \in Kept
  <2> SUFFICES ASSUME NEW n \in N, Fit(Kept, n) PROVE n \in Kept
    OBVIOUS
  <2>1. \A x \in Kept \cup {n} : Fit(Kept \cup {n}, x)
    <3> HIDE DEF Kept
    <3> QED BY <1>2
  <2>2. Kept \cup {n} \in SUBSET N
    OBVIOUS
  <2>3. \E S \in SUBSET N : n \in S /\ \A x \in S : Fit(S, x)
    <3> HIDE DEF Kept, Fit
    <3> QED BY <2>1, <2>2
  <2> QED BY <2>3
<1> HIDE DEF Kept
<1>4. f = Rec(f)
  <2>1. \A n \in N : f[n] = Rec(f)[n]
    <3> SUFFICES ASSUME NEW n \in N PROVE (n \in Kept) = Rec(f)[n]
      OBVIOUS
    <3>1. Rec(f)[n] = (/\ IsCompound(g, n)
                       /\ \A c \in g.members[n] : Edgeless(c) /\ (IsCompound(g, c) => f[c]))
      OBVIOUS
    <3>2. IsCompound(g, n) => \A c \in g.members[n] : f[c] = (c \in Kept)
      BY <1>1 DEF IsCompound
    <3>3. Rec(f)[n] = Fit(Kept, n)
      <4> HIDE DEF f
      <4> QED BY <3>1, <3>2
    <3>4. (n \in Kept) = Fit(Kept, n)
      <4>1. Fit(Kept, n) \in BOOLEAN
        OBVIOUS
      <4> HIDE DEF Fit
      <4>2. n \in Kept <=> Fit(Kept, n)
        BY <1>2, <1>3
      <4> QED BY <4>1, <4>2
    <3> HIDE DEF Rec, Fit
    <3> QED BY <3>3, <3>4
  <2> QED BY <2>1
<1>5. tiled = Rec(tiled)
  <2> HIDE DEF f, Rec
  <2> QED BY <1>4
<1>6. ToBeTiled = {n \in N : tiled[n]}
  BY DEF ToBeTiled
<1> HIDE DEF tiled
<1>7. ASSUME NEW n \in N, tiled[n] PROVE MayBeTiled(n, ToBeTiled)
  <2>1. tiled[n] = Rec(tiled)[n]
    BY <1>5
  <2>2. /\ IsCompound(g, n)
        /\ \A c \in g.members[n] : Edgeless(c) /\ (IsCompound(g, c) => tiled[c])
    BY <1>7, <2>1
  <2>3. \A c \in g.members[n] : c \in N
    BY <1>1, <2>2 DEF IsCompound
  <2> QED BY <1>6, <2>2, <2>3 DEF MayBeTiled
<1>8. ASSUME NEW S \in SUBSET N, \A n \in S : MayBeTiled(n, S) PROVE S \subseteq ToBeTiled
  <2> DEFINE T == {n \in N : n \in S => tiled[n]}
  <2>1. ASSUME NEW n \in N, \A c \in N : g.owner[c] = n => c \in T PROVE n \in T
    <3> SUFFICES ASSUME n \in S PROVE tiled[n]
      OBVIOUS
    <3>1. /\ IsCompound(g, n)
          /\ \A c \in g.members[n] : Edgeless(c) /\ (IsCompound(g, c) => c \in S)
      BY <1>8 DEF MayBeTiled
    <3>2. \A c \in g.members[n] : c \in T
      BY <1>1, <2>1, <3>1 DEF GraphOK, IsCompound
    <3>3. \A c \in g.members[n] : Edgeless(c) /\ (IsCompound(g, c) => tiled[c])
      BY <3>1, <3>2
    <3>4. Rec(tiled)[n] = (/\ IsCompound(g, n)
                           /\ \A c \in g.members[n] : Edgeless(c) /\ (IsCompound(g, c) => tiled[c]))
      OBVIOUS
    <3>5. tiled[n] = Rec(tiled)[n]
      BY <1>5
    <3> HIDE DEF Rec
    <3> QED BY <3>1, <3>3, <3>4, <3>5
  <2>2. T = N
    <3>1. T \in SUBSET N
      OBVIOUS
    <3> HIDE DEF T
    <3> QED BY <2>1, <3>1, DownInduction DEF GraphOK
  <2> QED BY <1>6, <2>2
<1> QED BY <1>6, <1>7, <1>8

\* clearCompounds takes away compounds without edges, from below.
LEMMA InvClear ==
  ASSUME LayoutInv, clearCompounds
  PROVE  LayoutInv'
<1>1. /\ at = "clear" /\ at' = "layout" /\ d' = d /\ all' = [all EXCEPT !.nodes = Unset]
      /\ g' = RemoveGraphs(g, ToBeTiled)
      /\ pruned' = pruned /\ loop' = loop /\ still' = still
  BY DEF clearCompounds, ticking
<1>2. GraphInv'
  BY <1>1, Removals DEF LayoutInv, GraphInv
<1>3. ListsInv'
  BY <1>1 DEF LayoutInv, ListsInv
<1>4. LoopInv'
  BY <1>1 DEF LayoutInv, LoopInv
<1>5. PrunedInv'
  BY <1>1 DEF LayoutInv, PrunedInv, Rounds
<1>6. EdgesInv' /\ SurroundingsKnown' /\ at' \in Places
  BY <1>1 DEF EdgesInv, SurroundingsKnown, Places
<1>7. g'.edges = g.edges /\ g'.owner = g.owner
  <2>1. GraphOK(g)
    BY DEF LayoutInv, GraphInv
  <2>2. ASSUME NEW e \in g.edges, NEW p \in ToBeTiled PROVE e \cap g.members[p] = {}
    BY <2>1, TiledAreEdgeless DEF MayBeTiled, Edgeless, EdgesAt
  <2> QED BY <1>1, <2>2 DEF RemoveGraphs
<1>8. SourceInv'
  <2>1. Copied' = Copied /\ CopiedEdges' = CopiedEdges
    BY <1>1, SameDrawing
  <2>2. /\ g.edges = CopiedEdges /\ Copied \subseteq DOMAIN g.owner
        /\ \A n \in Copied : Up(g.owner)[n] \cap d.nodes = Up(d.parent)[n]
    BY <1>1 DEF LayoutInv, SourceInv
  <2> QED BY <1>1, <1>7, <2>1, <2>2 DEF SourceInv
<1> QED BY <1>2, <1>3, <1>4, <1>5, <1>6, <1>8 DEF LayoutInv

\* includesInvalidEdge: an edge to a compound around the node leaves the node's graph,
\* and the compounds around it are those of the drawing.
LEMMA InvalidAreOfTheDrawing ==
  ASSUME GraphOK(g), d \in Drawings, g.edges = CopiedEdges, Copied \subseteq DOMAIN g.owner,
         \A n \in Copied : Up(g.owner)[n] \cap d.nodes = Up(d.parent)[n]
  PROVE  g.edges \ InvalidEdges(g) = LaidOut
<1> DEFINE U == Up(g.owner)
<1>1. /\ \A n : Ancestors(g, n) = U[n] /\ Above(d, n) = Up(d.parent)[n]
      /\ \A n \in Copied : U[n] \cap d.nodes = Up(d.parent)[n]
  BY WaysUp, DrawingFacts
<1>2. \A n \in DOMAIN g.owner :
         /\ (g.owner[n] = Root => U[n] = {})
         /\ (g.owner[n] # Root => g.owner[n] \in DOMAIN g.owner /\ U[n] = {g.owner[n]} \cup U[g.owner[n]])
  <2>1. g.owner \in [DOMAIN g.owner -> DOMAIN g.owner \cup {Root}] /\ Root \notin DOMAIN g.owner
    BY DEF GraphOK, Forest
  <2>2. U = [n \in DOMAIN g.owner |->
               IF g.owner[n] = Root THEN {} ELSE {g.owner[n]} \cup U[g.owner[n]]]
    BY <2>1, UpUnfolds
  <2> HIDE DEF U
  <2> QED BY <2>1, <2>2
<1>3. \A n \in DOMAIN g.owner : n \notin U[n] /\ \A p \in U[n] : U[p] \subseteq U[n]
  BY ForestOrder DEF GraphOK
<1> HIDE DEF U
<1>4. ASSUME NEW a \in DOMAIN g.owner, NEW b \in DOMAIN g.owner, b \in U[a] PROVE g.owner[a] # g.owner[b]
  <2> SUFFICES ASSUME g.owner[a] = g.owner[b] PROVE FALSE
    OBVIOUS
  <2> DEFINE p == g.owner[b]
  <2>1. p \in DOMAIN g.owner /\ U[a] = {p} \cup U[p] /\ U[b] = {p} \cup U[p]
    BY <1>2, <1>4
  <2>2. b \in U[b]
    BY <1>4, <2>1
  <2> QED BY <1>3, <2>2
<1>5. ASSUME NEW e \in CopiedEdges PROVE e \in InvalidEdges(g) <=> e \notin LaidOut
  <2>1. PICK a \in Copied, b \in Copied : a # b /\ e = {a, b}
    BY DEF CopiedEdges
  <2>2. OtherEnd(e, a) = b /\ OtherEnd(e, b) = a
    <3>1. OtherEnd({a, b}, a) = b /\ OtherEnd({a, b}, b) = a
      BY <2>1, Pairs
    <3> QED BY <2>1, <3>1
  <2>3. a \in DOMAIN g.owner /\ b \in DOMAIN g.owner /\ a \in d.nodes /\ b \in d.nodes
    BY DEF Copied
  <2>4. /\ b \in U[a] <=> b \in Up(d.parent)[a]
        /\ a \in U[b] <=> a \in Up(d.parent)[b]
    BY <1>1, <2>3
  <2>5. e \in LaidOut <=> b \notin U[a] /\ a \notin U[b]
    BY <1>1, <2>1, <2>2, <2>3, <2>4 DEF LaidOut, Inside
  <2>6. b \in U[a] \/ a \in U[b] => isInterGraph(g, e)
    <3>1. b \in U[a] \/ a \in U[b] => g.owner[a] # g.owner[b]
      BY <1>4, <2>3
    <3>2. g.owner[a] # g.owner[b] => isInterGraph(g, {a, b})
      BY <2>1, BetweenGraphs
    <3> QED BY <2>1, <3>1, <3>2
  <2>7. (\E n \in e : OtherEnd(e, n) \in Ancestors(g, n)) <=> b \in U[a] \/ a \in U[b]
    BY <1>1, <2>1, <2>2
  <2>8. e \in g.edges
    OBVIOUS
  <2> HIDE DEF LaidOut
  <2> QED BY <2>5, <2>6, <2>7, <2>8 DEF InvalidEdges
<1>6. LaidOut \subseteq CopiedEdges
  BY DEF LaidOut
<1> HIDE DEF LaidOut
<1> QED BY <1>5, <1>6

\* The lists are made of the graph there is, and so no edge is without a depth.
LEMMA InvClassic ==
  ASSUME LayoutInv, classicLayout
  PROVE  LayoutInv'
<1> DEFINE edges == Listed(all.edges, AllEdges(g'))
           thrown == \E e \in edges : ~(e \subseteq AllNodes(g'))
<1>1. /\ at = "layout" /\ d' = d /\ g' = RemoveEdges(g, InvalidEdges(g))
      /\ pruned' = pruned /\ loop' = loop /\ still' = still
      /\ at' = (IF thrown THEN "thrown" ELSE "reduce")
      /\ all' = [nodes |-> getAllNodes, edges |-> edges, gravity |-> heavy']
      /\ lengths' = IF thrown THEN <<>> ELSE [e \in edges |-> LevelsCrossed(g', e)]
  BY DEF classicLayout, ticking
<1>2. GraphOK(g) /\ all.edges = Unset /\ all.nodes = Unset /\ pruned = <<>> /\ d \in Drawings
  BY <1>1 DEF LayoutInv, GraphInv, ListsInv, PrunedInv
<1>3. GraphOK(g') /\ AllNodes(g') = AllNodes(g)
  BY <1>1, <1>2, Removals
<1>4. edges = g'.edges /\ getAllNodes = AllNodes(g')
  BY <1>2, <1>3 DEF Listed, AllEdges, getAllNodes
<1> HIDE DEF edges
<1>5. ~thrown
  BY <1>3, <1>4 DEF GraphOK
<1> HIDE DEF thrown
<1>6. at' = "reduce" /\ DOMAIN lengths' = g'.edges
      /\ \A e \in g'.edges : lengths'[e] = LevelsCrossed(g', e)
  BY <1>1, <1>4, <1>5
<1>7. ASSUME NEW e \in g'.edges PROVE lengths'[e] > 0 <=> isInterGraph(g', e)
  <2>1. PICK a, b \in e : a # b /\ e = {a, b}
    BY <1>3 DEF GraphOK
  <2>2. a \in DOMAIN g'.owner /\ b \in DOMAIN g'.owner
    BY <1>3, <2>1 DEF GraphOK, AllNodes
  <2>3. Forest(g'.owner) /\ Root \notin DOMAIN g'.owner /\ IsFiniteSet(DOMAIN g'.owner)
    BY <1>3 DEF GraphOK
  <2>4. LevelsCrossed(g', {a, b}) > 0 <=> isInterGraph(g', {a, b})
    BY <2>1, <2>2, <2>3, LongerBetweenGraphs
  <2> QED BY <1>6, <2>1, <2>4
<1>8. GraphInv'
  BY <1>1, <1>2, <1>3, <1>6 DEF GraphInv
<1>9. ListsInv'
  BY <1>1, <1>4, <1>6 DEF ListsInv, AllEdges
<1>10. LoopInv'
  BY <1>1, <1>6 DEF LayoutInv, LoopInv
<1>11. PrunedInv'
  BY <1>1, <1>2 DEF PrunedInv, Rounds
<1>12. EdgesInv'
  <2>1. DOMAIN pruned' = {}
    BY <1>1, <1>2
  <2>2. {r.edge : r \in UNION {pruned'[i] : i \in DOMAIN pruned'}} = {}
    BY <2>1
  <2>3. g'.edges \cup {r.edge : r \in UNION {pruned'[i] : i \in DOMAIN pruned'}} = DOMAIN lengths'
    BY <1>6, <2>2
  <2>4. \A e \in DOMAIN lengths' : lengths'[e] > 0 <=> isInterGraph(g', e)
    BY <1>6, <1>7
  <2> QED BY <2>3, <2>4 DEF EdgesInv
<1>13. SurroundingsKnown' /\ at' \in Places
  BY <1>6 DEF SurroundingsKnown, Places
<1>14. SourceInv'
  <2>1. LaidOut' = LaidOut
    BY <1>1, SameDrawing
  <2>2. g'.edges = g.edges \ InvalidEdges(g)
    BY <1>1 DEF RemoveEdges
  <2>3. /\ g.edges = CopiedEdges /\ Copied \subseteq DOMAIN g.owner
        /\ \A n \in Copied : Up(g.owner)[n] \cap d.nodes = Up(d.parent)[n]
    BY <1>1 DEF LayoutInv, SourceInv
  <2>4. DOMAIN lengths' = LaidOut
    BY <1>2, <1>6, <2>2, <2>3, InvalidAreOfTheDrawing
  <2> QED BY <1>6, <2>1, <2>4 DEF SourceInv
<1> QED BY <1>8, <1>9, <1>10, <1>11, <1>12, <1>13, <1>14 DEF LayoutInv

\* reduceTrees takes out leaves that are not joined to one another.
LEMMA InvReduce ==
  ASSUME LayoutInv, reduce_step
  PROVE  LayoutInv'
<1>1. /\ at = "reduce" /\ at' = "reduce" /\ d' = d /\ g' = RemoveNodes(g, Pruned)
      /\ all' = [all EXCEPT !.nodes = Unset, !.edges = Unset] /\ loop' = loop /\ still' = still
  BY DEF reduce_step
<1>2. getAllNodes = AllNodes(g) /\ GraphOK(g) /\ PrunedInv /\ EdgesInv
  BY <1>1 DEF LayoutInv, GraphInv, ListsInv, getAllNodes, Listed
<1>3. GraphInv'
  BY <1>1, <1>2, Removals DEF LayoutInv, GraphInv
<1>4. ListsInv'
  BY <1>1 DEF LayoutInv, ListsInv
<1>5. LoopInv'
  BY <1>1 DEF LayoutInv, LoopInv, NoLoop
<1>6. PrunedInv' /\ EdgesInv'
  BY <1>1, <1>2, PruningKeepsRounds
<1>7. SurroundingsKnown' /\ at' \in Places
  BY <1>1 DEF SurroundingsKnown, Places
<1>8. SourceInv'
  <2>1. LaidOut' = LaidOut
    BY <1>1, SameDrawing
  <2>2. lengths' = lengths
    BY DEF reduce_step, weights
  <2> QED BY <1>1, <2>1, <2>2 DEF LayoutInv, SourceInv
<1> QED BY <1>3, <1>4, <1>5, <1>6, <1>7, <1>8 DEF LayoutInv

\* initSpringEmbedder fills the lists anew.
LEMMA InvSpring ==
  ASSUME LayoutInv, initSpringEmbedder
  PROVE  LayoutInv'
<1>1. /\ at = "reduce" /\ at' = "tick" /\ d' = d /\ g' = g /\ lengths' = lengths /\ heavy' = heavy
      /\ all' = [all EXCEPT !.nodes = getAllNodes, !.gravity = ApplyGravitation(getAllNodes)]
      /\ loop' = [NoLoop EXCEPT !.max = Larger(PerNode * Cardinality(getAllNodes), MAX_ITERATIONS)]
      /\ pruned' = pruned /\ still' = still
  BY DEF initSpringEmbedder, weights
<1>2. getAllNodes = AllNodes(g) /\ GraphOK(g)
  BY <1>1 DEF LayoutInv, GraphInv, ListsInv, getAllNodes, Listed
<1>3. GraphInv'
  BY <1>1 DEF LayoutInv, GraphInv
<1>4. ListsInv'
  BY <1>1, <1>2 DEF LayoutInv, ListsInv, ApplyGravitation
<1>5. Cardinality(getAllNodes) \in Nat
  <2>1. AllNodes(g) \in SUBSET DOMAIN g.owner /\ IsFiniteSet(DOMAIN g.owner)
    BY <1>2 DEF GraphOK, AllNodes
  <2> QED BY <1>2, <2>1, FS_Subset, FS_CardinalityType
<1>6. Larger(PerNode * Cardinality(getAllNodes), MAX_ITERATIONS) \in Nat \ {0}
  <2>1. PerNode * Cardinality(getAllNodes) \in Nat
    BY <1>5, FcoseAssumption
  <2> QED BY <2>1, FcoseAssumption DEF Larger
<1>7. LoopInv'
  <2>1. PICK m \in Nat \ {0} : loop' = [total |-> 0, max |-> m, grow |-> 0, after |-> 0,
                                        growing |-> FALSE, finished |-> FALSE]
    BY <1>1, <1>6 DEF NoLoop
  <2>2. 0 \in 0..GrowPeriod - 1 /\ 0 \in 0..CoolSteps + 1 /\ 0 # CoolSteps + 1
    BY FcoseAssumption
  <2>3. still' \in BOOLEAN
    BY <1>1 DEF LayoutInv, LoopInv
  <2>4. /\ loop' \in [total : Nat, max : Nat, grow : 0..GrowPeriod - 1, after : 0..CoolSteps + 1,
                      growing : BOOLEAN, finished : BOOLEAN]
        /\ loop'.total = 0 /\ loop'.grow = 0 /\ loop'.after = 0
        /\ loop'.growing = FALSE /\ loop'.finished = FALSE /\ loop'.max \in Nat \ {0}
    BY <2>1, <2>2
  <2>5. loop'.total =< loop'.max /\ loop'.max > 0 /\ loop'.after # CoolSteps + 1
    BY <2>2, <2>4
  <2> HIDE DEF NoLoop
  <2> QED BY <1>1, <2>3, <2>4, <2>5 DEF LoopInv
<1>8. PrunedInv'
  BY <1>1 DEF LayoutInv, PrunedInv
<1>9. EdgesInv'
  BY <1>1 DEF LayoutInv, EdgesInv
<1>10. SurroundingsKnown' /\ at' \in Places
  BY <1>1 DEF SurroundingsKnown, Places, NoLoop
<1>11. SourceInv'
  <2>1. LaidOut' = LaidOut
    BY <1>1, SameDrawing
  <2> QED BY <1>1, <2>1 DEF LayoutInv, SourceInv
<1> QED BY <1>3, <1>4, <1>7, <1>8, <1>9, <1>10, <1>11 DEF LayoutInv

\* An iteration that grows the graph makes its lists anew and looks for every node's
\* neighbours; so does the first, and none in between loses one.
LEMMA InvTick ==
  ASSUME LayoutInv, tick
  PROVE  LayoutInv'
<1> DEFINE n == loop.total + 1
<1>1. PICK conv \in isConverged(n) :
         LET dec == Decide(n, conv)
             nodes == IF dec.grows THEN AllNodes(g') ELSE getAllNodes
         IN  /\ ~dec.ends
             /\ at' = IF dec.grows /\ \E r \in Last(pruned) : ~CanRegrow(r) THEN "thrown" ELSE "tick"
             /\ g' = IF dec.grows THEN growTree ELSE g
             /\ pruned' = IF dec.grows THEN Front(pruned) ELSE pruned
             /\ all' = [nodes |-> nodes,
                        edges |-> IF dec.grows THEN AllEdges(g') ELSE getAllEdges,
                        gravity |-> IF dec.grows THEN ApplyGravitation(nodes) ELSE all.gravity]
             /\ grid' = IF GridAnew(n, dec) THEN nodes ELSE grid
             /\ seen' = Seen(n, dec, nodes)
             /\ loop' = Counted(n, dec)
             /\ still' \in Stillness(dec)
  BY DEF tick
<1> DEFINE dec == Decide(n, conv)
<1>2. /\ at = "tick" /\ d' = d /\ lengths' = lengths /\ heavy' = heavy
  BY DEF tick, weights
<1>3. /\ dec.ends \in BOOLEAN /\ dec.grows \in BOOLEAN /\ dec.growing \in BOOLEAN
      /\ dec.counted \in BOOLEAN /\ dec.finished \in BOOLEAN
      /\ dec.grows => pruned # <<>> /\ ~dec.finished /\ dec.growing /\ dec.counted /\ loop.grow = 0
      /\ dec.finished => pruned = <<>> /\ ~dec.growing
      /\ loop.total = 0 /\ ~dec.grows => ~dec.growing /\ ~dec.finished
      /\ loop.finished => dec.finished
      /\ loop.after # CoolSteps + 1
  BY <1>1, <1>2, Decisions DEF LayoutInv
<1> HIDE DEF dec
<1>4. /\ GraphOK(g) /\ PrunedInv /\ EdgesInv /\ getAllNodes = AllNodes(g) /\ getAllEdges = AllEdges(g)
      /\ all.gravity = heavy \cap AllNodes(g)
  BY <1>2 DEF LayoutInv, GraphInv, ListsInv, getAllNodes, getAllEdges, Listed
<1>5. dec.grows =>
         /\ \A r \in Last(pruned) : CanRegrow(r)
         /\ GraphOK(growTree) /\ growTree.owner = g.owner /\ DOMAIN growTree.members = DOMAIN g.members
         /\ Front(pruned) \in Rounds(g)
         /\ \A i \in DOMAIN Front(pruned) : \A r \in Front(pruned)[i] :
                Fits(growTree, Front(pruned), i, r)
         /\ \A i, j \in DOMAIN Front(pruned) :
                i # j => \A r \in Front(pruned)[i], q \in Front(pruned)[j] : r.node # q.node
         /\ growTree.edges \cup {r.edge : r \in UNION {Front(pruned)[i] : i \in DOMAIN Front(pruned)}}
                = DOMAIN lengths
         /\ \A e : isInterGraph(growTree, e) = isInterGraph(g, e)
  BY <1>2, <1>3, <1>4, GrowingKeepsRounds
<1>6. /\ at' = "tick"
      /\ dec.grows => g' = growTree /\ pruned' = Front(pruned)
      /\ ~dec.grows => g' = g /\ pruned' = pruned
      /\ all' = [nodes |-> AllNodes(g'), edges |-> AllEdges(g'), gravity |-> heavy' \cap AllNodes(g')]
      /\ grid' = IF GridAnew(n, dec) THEN AllNodes(g') ELSE grid
      /\ seen' = Seen(n, dec, AllNodes(g'))
      /\ loop' = Counted(n, dec) /\ still' \in Stillness(dec)
  <2>1. CASE dec.grows
    BY <1>1, <1>2, <1>5, <2>1 DEF dec, ApplyGravitation
  <2>2. CASE ~dec.grows
    BY <1>1, <1>2, <1>4, <2>2 DEF dec
  <2> QED BY <2>1, <2>2
<1>7. GraphInv'
  BY <1>2, <1>4, <1>5, <1>6 DEF LayoutInv, GraphInv
<1>8. ListsInv'
  BY <1>6 DEF ListsInv
<1>9. PrunedInv'
  <2>1. CASE dec.grows
    BY <1>5, <1>6, <2>1 DEF PrunedInv, Rounds
  <2>2. CASE ~dec.grows
    BY <1>4, <1>6, <2>2 DEF PrunedInv
  <2> QED BY <2>1, <2>2
<1>10. EdgesInv'
  <2>1. CASE dec.grows
    BY <1>2, <1>4, <1>5, <1>6, <2>1 DEF EdgesInv
  <2>2. CASE ~dec.grows
    BY <1>2, <1>4, <1>6, <2>2 DEF EdgesInv
  <2> QED BY <2>1, <2>2
<1>11. /\ loop.total \in Nat /\ loop.max \in Nat /\ loop.grow \in 0..GrowPeriod - 1
       /\ loop.after \in 0..CoolSteps + 1 /\ loop.total =< loop.max /\ loop.max > 0
       /\ CoolSteps \in Nat \ {0} /\ GrowPeriod \in Nat \ {0, 1} /\ GridPeriod \in Nat \ {0, 1}
  BY <1>2, FcoseAssumption DEF LayoutInv, LoopInv
<1>12. LoopInv'
  <2>1. /\ loop'.total = (IF n > loop.max THEN loop.max ELSE n) /\ loop'.max = loop.max
        /\ loop'.grow = (IF dec.counted THEN (loop.grow + 1) % GrowPeriod ELSE loop.grow)
        /\ loop'.after = (IF dec.finished /\ loop.after =< CoolSteps + 1
                          THEN loop.after + 1 ELSE loop.after)
        /\ loop'.growing = dec.growing /\ loop'.finished = dec.finished
        /\ loop' = [total |-> loop'.total, max |-> loop'.max, grow |-> loop'.grow,
                    after |-> loop'.after, growing |-> loop'.growing, finished |-> loop'.finished]
    BY <1>6 DEF Counted
  <2>2. loop'.total \in Nat \ {0} /\ loop'.total =< loop'.max /\ loop'.max \in Nat /\ loop'.max > 0
    BY <1>11, <2>1
  <2>3. loop'.grow \in 0..GrowPeriod - 1
    <3>1. loop.grow + 1 \in Nat
      BY <1>11
    <3> QED BY <1>11, <2>1, <3>1, Remainders
  <2>4. loop'.after \in 0..CoolSteps + 1
    BY <1>3, <1>11, <2>1
  <2>5. still' \in BOOLEAN
    BY <1>6 DEF Stillness
  <2>6. loop'.after = CoolSteps + 1 => loop'.finished /\ still'
    <3> SUFFICES ASSUME loop'.after = CoolSteps + 1 PROVE dec.finished /\ still'
      BY <2>1
    <3>1. dec.finished /\ loop.after = CoolSteps
      BY <1>3, <1>11, <2>1
    <3>2. CoolingFactor(loop.after) = 0
      BY <1>11, <3>1 DEF CoolingFactor
    <3> QED BY <1>6, <3>1, <3>2 DEF Stillness
  <2>7. loop'.finished => ~loop'.growing /\ pruned' = <<>>
    BY <1>3, <1>6, <2>1
  <2>8. loop' \in [total : Nat, max : Nat, grow : 0..GrowPeriod - 1, after : 0..CoolSteps + 1,
                   growing : BOOLEAN, finished : BOOLEAN]
    <3>1. loop'.growing \in BOOLEAN /\ loop'.finished \in BOOLEAN
      BY <1>3, <2>1
    <3> QED BY <2>1, <2>2, <2>3, <2>4, <3>1
  <2> QED BY <1>6, <2>2, <2>5, <2>6, <2>7, <2>8 DEF LoopInv
<1>13. AllNodes(g') \subseteq seen' /\ grid' = AllNodes(g')
  <2>1. CASE dec.grows
    <3>1. GridAnew(n, dec)
      BY <2>1 DEF GridAnew
    <3>2. SeesAnew(n, dec)
      <4>1. (loop.grow + 1) % GrowPeriod = 1
        <5>1. loop.grow + 1 = 1
          BY <1>3, <2>1
        <5>2. 1 % GrowPeriod = 1
          BY <1>11, Remainders
        <5> QED BY <5>1, <5>2
      <4> QED BY <1>3, <2>1, <4>1 DEF SeesAnew, Counted
    <3> QED BY <1>6, <3>1, <3>2 DEF Seen
  <2>2. CASE ~dec.grows /\ loop.total = 0
    <3>1. n % GridPeriod = 1
      <4>1. n = 1
        BY <2>2
      <4>2. 1 % GridPeriod = 1
        BY <1>11, Remainders
      <4> QED BY <4>1, <4>2
    <3>2. GridAnew(n, dec) /\ SeesAnew(n, dec)
      BY <1>3, <2>2, <3>1 DEF GridAnew, SeesAnew
    <3> QED BY <1>6, <3>2 DEF Seen
  <2>3. CASE ~dec.grows /\ loop.total # 0
    <3>1. AllNodes(g) \subseteq seen /\ grid = AllNodes(g) /\ g' = g
      BY <1>2, <1>6, <1>11, <2>3 DEF LayoutInv, SurroundingsKnown
    <3>2. grid' = AllNodes(g')
      BY <1>6, <3>1
    <3>3. CASE SeesAnew(n, dec)
      BY <1>6, <3>2, <3>3 DEF Seen
    <3>4. CASE ~SeesAnew(n, dec)
      BY <1>6, <3>1, <3>4 DEF Seen
    <3> QED BY <3>2, <3>3, <3>4
  <2> QED BY <1>3, <2>1, <2>2, <2>3
<1>14. SurroundingsKnown' /\ at' \in Places
  BY <1>6, <1>13 DEF SurroundingsKnown, Places
<1>15. SourceInv'
  <2>1. LaidOut' = LaidOut
    BY <1>2, <1>6, SameDrawing
  <2> QED BY <1>2, <1>6, <2>1 DEF LayoutInv, SourceInv
<1> QED BY <1>7, <1>8, <1>9, <1>10, <1>12, <1>14, <1>15 DEF LayoutInv

\* tick ends with nothing left to grow.
LEMMA InvEnds ==
  ASSUME LayoutInv, tick_ends
  PROVE  LayoutInv'
<1>1. PICK conv \in isConverged(loop.total + 1) : Decide(loop.total + 1, conv).ends
  BY DEF tick_ends
<1>2. /\ at = "tick" /\ at' = "tiles" /\ d' = d /\ g' = g /\ all' = all /\ heavy' = heavy
      /\ lengths' = lengths /\ pruned' = pruned /\ loop' = NoLoop /\ still' = TRUE
  BY DEF tick_ends, weights
<1>3. pruned = <<>>
  BY <1>1, <1>2, Decisions DEF LayoutInv
<1>4. GraphInv'
  BY <1>2 DEF LayoutInv, GraphInv
<1>5. ListsInv'
  BY <1>2 DEF LayoutInv, ListsInv
<1>6. LoopInv'
  BY <1>2, FcoseAssumption DEF LoopInv, NoLoop
<1>7. PrunedInv'
  BY <1>2, <1>3 DEF PrunedInv, Rounds
<1>8. EdgesInv'
  BY <1>2 DEF LayoutInv, EdgesInv
<1>9. SurroundingsKnown' /\ at' \in Places
  BY <1>2 DEF SurroundingsKnown, Places
<1>10. SourceInv'
  <2>1. LaidOut' = LaidOut
    BY <1>2, SameDrawing
  <2> QED BY <1>2, <2>1 DEF LayoutInv, SourceInv
<1> QED BY <1>4, <1>5, <1>6, <1>7, <1>8, <1>9, <1>10 DEF LayoutInv

\* Another layout begins with a new manager.
LEMMA InvRelayout ==
  ASSUME LayoutInv, relayout
  PROVE  LayoutInv'
<1>1. /\ at' = "run" /\ d' = d /\ g' = NewManager /\ all' = NoLists /\ pruned' = <<>>
      /\ loop' = NoLoop /\ still' = TRUE
  BY DEF relayout
<1>2. GraphInv'
  BY <1>1, EmptyManager DEF LayoutInv, GraphInv
<1>3. ListsInv'
  BY <1>1 DEF ListsInv, NoLists
<1>4. LoopInv'
  BY <1>1, FcoseAssumption DEF LoopInv, NoLoop
<1>5. PrunedInv'
  BY <1>1 DEF PrunedInv, Rounds
<1>6. EdgesInv' /\ SourceInv' /\ SurroundingsKnown' /\ at' \in Places
  BY <1>1 DEF EdgesInv, SourceInv, SurroundingsKnown, Places
<1> QED BY <1>2, <1>3, <1>4, <1>5, <1>6 DEF LayoutInv

\* Every step keeps the compound graph one.
LEMMA InvNext == LayoutInv /\ [Next]_vars => LayoutInv'
<1> SUFFICES ASSUME LayoutInv, [Next]_vars PROVE LayoutInv'
  OBVIOUS
<1>1. CASE spectralLayout
  BY <1>1, InvQuiet DEF spectralLayout
<1>2. CASE next_pivot
  BY <1>2, InvQuiet DEF next_pivot
<1>3. CASE powerIteration
  BY <1>3, InvQuiet DEF powerIteration
<1>4. CASE copy
  BY <1>4, InvCopy
<1>5. CASE groupZeroDegreeMembers
  BY <1>5, InvGroup
<1>6. CASE clearCompounds
  BY <1>6, InvClear
<1>7. CASE classicLayout
  BY <1>7, InvClassic
<1>8. CASE reduce_step
  BY <1>8, InvReduce
<1>9. CASE initSpringEmbedder
  BY <1>9, InvSpring
<1>10. CASE tick
  BY <1>10, InvTick
<1>11. CASE tick_ends
  BY <1>11, InvEnds
<1>12. CASE tilingPostLayout
  BY <1>12, InvQuiet DEF tilingPostLayout
<1>13. CASE layoutPositions
  BY <1>13, InvQuiet DEF layoutPositions
<1>14. CASE relayout
  BY <1>14, InvRelayout
<1>15. CASE UNCHANGED vars
  BY <1>15, InvQuiet DEF vars
<1> QED BY <1>1, <1>2, <1>3, <1>4, <1>5, <1>6, <1>7, <1>8, <1>9, <1>10, <1>11, <1>12, <1>13,
           <1>14, <1>15 DEF Next, steps

\* layout-base.js: in every state of a run the compound graph is one, its lists are
\* fresh or dropped, and what is pruned can be grown back.
THEOREM LayoutInvariant == Spec => []LayoutInv
BY InvInit, InvNext, PTL DEF Spec

------------------------------------------------------------------------------
(* The sampling of the drawing.                                             *)

\* While it samples, the pivots are nodes of the transformed graph, as many as are
\* wanted at most and no two the same.
SampleInv ==
    /\ d \in Drawings
    /\ at = "sample" =>
           /\ near = Neighborhood(d)
           /\ pivots \in Seq(DOMAIN near) /\ Len(pivots) # 0
           /\ Len(pivots) =< (IF Cardinality(DOMAIN near) < SampleSize
                              THEN Cardinality(DOMAIN near) ELSE SampleSize)
           /\ \A i, j \in DOMAIN pivots : pivots[i] = pivots[j] => i = j

\* The first pivot is any node.
LEMMA SampleBegins ==
  ASSUME SampleInv, spectralLayout
  PROVE  SampleInv'
<1>1. d' = d /\ near' = Neighborhood(d)
  BY DEF spectralLayout
<1>2. CASE at' = "sample"
  <2>1. Cardinality(DOMAIN near') > 2 /\ \E v \in DOMAIN near' : pivots' = <<v>>
    BY <1>2 DEF spectralLayout
  <2>2. PICK v \in DOMAIN near' : pivots' = <<v>>
    BY <2>1
  <2>3. /\ pivots' \in Seq(DOMAIN near') /\ Len(pivots') = 1 /\ DOMAIN pivots' = {1}
    BY <2>2
  <2>4. d \in Drawings /\ SampleSize \in Nat /\ SampleSize >= 1
    BY FcoseAssumption DEF SampleInv
  <2>5. Cardinality(DOMAIN near') \in Nat
    <3>1. IsDrawing(d) /\ Forest(d.parent)
      BY <2>4, DrawingsAssumption
    <3> QED BY <1>1, <3>1, NeighborhoodFacts, FS_CardinalityType
  <2>6. Len(pivots') =< (IF Cardinality(DOMAIN near') < SampleSize
                         THEN Cardinality(DOMAIN near') ELSE SampleSize)
    BY <2>1, <2>3, <2>4, <2>5
  <2>7. \A i, j \in DOMAIN pivots' : pivots'[i] = pivots'[j] => i = j
    BY <2>3
  <2> QED BY <1>1, <2>3, <2>4, <2>6, <2>7 DEF SampleInv
<1>3. CASE at' # "sample"
  BY <1>1, <1>3 DEF SampleInv
<1> QED BY <1>2, <1>3

\* The next pivot is one farthest from those chosen, so a new one.
LEMMA SampleGrows ==
  ASSUME SampleInv, next_pivot
  PROVE  SampleInv'
<1> DEFINE V == DOMAIN near
           wanted == IF Cardinality(V) < SampleSize THEN Cardinality(V) ELSE SampleSize
           v == CHOOSE v \in Farthest(near, pivots) : TRUE
<1>1. /\ at = "sample" /\ at' = "sample" /\ d' = d /\ near' = near
      /\ Len(pivots) # wanted /\ pivots' = Append(pivots, v)
  BY DEF next_pivot, Sampled
<1>2. /\ d \in Drawings /\ near = Neighborhood(d)
      /\ pivots \in Seq(V) /\ Len(pivots) # 0 /\ Len(pivots) =< wanted
      /\ \A i, j \in DOMAIN pivots : pivots[i] = pivots[j] => i = j
  BY <1>1 DEF SampleInv
<1>3. IsDrawing(d) /\ Forest(d.parent)
  BY <1>2, DrawingsAssumption
<1>4. IsFiniteSet(V) /\ near \in [V -> SUBSET V] /\ \A x \in V : DOMAIN Distances(near, x) = V
  BY <1>2, <1>3, NeighborhoodFacts, SearchesAreComplete
<1>5. Len(pivots) \in Nat /\ Cardinality(V) \in Nat /\ SampleSize \in Nat
  BY <1>2, <1>4, FS_CardinalityType, FcoseAssumption
<1>6. Len(pivots) < Cardinality(V) /\ Len(pivots) + 1 =< wanted
  BY <1>1, <1>2, <1>5
<1>7. \E x \in V : x = v /\ \A i \in DOMAIN pivots : pivots[i] # x
  <2> HIDE DEF wanted
  <2> QED BY <1>2, <1>4, <1>6, FarthestIsNew
<1>8. v \in V /\ \A i \in DOMAIN pivots : pivots[i] # v
  <2> HIDE DEF v
  <2> QED BY <1>7
<1> HIDE DEF v
<1>9. pivots' \in Seq(V) /\ Len(pivots') = Len(pivots) + 1 /\ Len(pivots') # 0
  BY <1>1, <1>2, <1>5, <1>8
<1>10. \A i, j \in DOMAIN pivots' : pivots'[i] = pivots'[j] => i = j
  <2>1. \A i \in DOMAIN pivots' : \/ i \in DOMAIN pivots /\ pivots'[i] = pivots[i]
                                  \/ i = Len(pivots) + 1 /\ pivots'[i] = v
    BY <1>1, <1>2, <1>5, <1>8
  <2> QED BY <1>2, <1>8, <2>1
<1> QED BY <1>1, <1>2, <1>6, <1>9, <1>10 DEF SampleInv

\* Every step keeps the pivots different.
LEMMA SampleNext == SampleInv /\ [Next]_vars => SampleInv'
<1> SUFFICES ASSUME SampleInv, [Next]_vars PROVE SampleInv'
  OBVIOUS
<1>1. CASE spectralLayout
  BY <1>1, SampleBegins
<1>2. CASE next_pivot
  BY <1>2, SampleGrows
<1>3. CASE UNCHANGED vars
  BY <1>3 DEF vars, spectral, SampleInv
<1>4. CASE \/ powerIteration \/ copy \/ groupZeroDegreeMembers \/ clearCompounds \/ classicLayout
           \/ reduce_step \/ initSpringEmbedder \/ tick \/ tick_ends
           \/ tilingPostLayout \/ layoutPositions \/ relayout
  <2>1. d' = d /\ at' # "sample"
    BY <1>4 DEF powerIteration, copy, groupZeroDegreeMembers, clearCompounds, classicLayout,
           reduce_step, initSpringEmbedder, tick, tick_ends, tilingPostLayout, layoutPositions, relayout
  <2> QED BY <2>1 DEF SampleInv
<1> QED BY <1>1, <1>2, <1>3, <1>4 DEF Next, steps

\* In every state the pivots are different nodes of the drawing's graph.
LEMMA SampleInvariant == Spec => []SampleInv
<1>1. Init => SampleInv
  BY DEF Init, SampleInv
<1> QED BY <1>1, SampleNext, PTL DEF Spec

------------------------------------------------------------------------------
(* The compounds in their order, inner ones first.                          *)

\* The graph with all its nodes in the lists of their owners.
Whole(gr) ==
    /\ Root \in DOMAIN gr.members /\ DOMAIN gr.members \subseteq {Root} \cup DOMAIN gr.owner
    /\ \A n \in DOMAIN gr.owner : gr.owner[n] \in DOMAIN gr.members /\ n \in gr.members[gr.owner[n]]

\* The nodes inside a compound, or in the whole graph.
Under(gr, p) == {x \in DOMAIN gr.owner : p = Root \/ p \in Up(gr.owner)[x]}

\* What is inside a compound is one of its members or inside one.
LEMMA UnderMembers ==
  ASSUME NEW gr, GraphOK(gr), Whole(gr), NEW p \in DOMAIN gr.members
  PROVE  /\ p \notin Under(gr, p)
         /\ \A c \in gr.members[p] : c \in DOMAIN gr.owner /\ gr.owner[c] = p /\ c # Root
         /\ \A x : x \in Under(gr, p) <=> \E c \in gr.members[p] : x = c \/ x \in Under(gr, c)
         /\ \A x : \A c, e \in gr.members[p] :
               (x = c \/ x \in Under(gr, c)) /\ (x = e \/ x \in Under(gr, e)) => c = e
         /\ \A c \in gr.members[p] : \A x \in Under(gr, c) :
               x \in DOMAIN gr.owner /\ (gr.owner[x] = c \/ gr.owner[x] \in Under(gr, c))
<1> DEFINE N == DOMAIN gr.owner
           U == Up(gr.owner)
<1>1. /\ Forest(gr.owner) /\ Root \notin N
      /\ gr.owner \in [N -> N \cup {Root}]
      /\ \A c \in gr.members[p] : c \in N /\ gr.owner[c] = p
      /\ \A n \in N : gr.owner[n] \in DOMAIN gr.members /\ n \in gr.members[gr.owner[n]]
  BY DEF GraphOK, Whole, Forest
<1>2. \A n \in N : /\ gr.owner[n] = Root => U[n] = {}
                   /\ gr.owner[n] # Root => U[n] = {gr.owner[n]} \cup U[gr.owner[n]]
  BY <1>1, UpUnfolds
<1>3. \A n \in N : /\ U[n] \subseteq N /\ n \notin U[n]
                   /\ \A q \in U[n] : U[q] \subseteq U[n]
                   /\ \A q, r \in U[n] : q = r \/ q \in U[r] \/ r \in U[q]
  BY <1>1, ForestOrder
<1>4. \A q, x : x \in Under(gr, q) <=> x \in N /\ (q = Root \/ q \in U[x])
  BY DEF Under
<1> HIDE DEF U
<1>5. ASSUME NEW c \in gr.members[p] PROVE p = Root \/ p \in U[c]
  BY <1>1, <1>2
<1>6. ASSUME NEW c \in gr.members[p], NEW e \in gr.members[p] PROVE c \notin U[e]
  <2>1. c \in N /\ e \in N /\ gr.owner[c] = p /\ gr.owner[e] = p
    BY <1>1
  <2>2. CASE p = Root
    BY <1>2, <2>1, <2>2
  <2>3. CASE p # Root
    <3>1. p \in N /\ U[e] = {p} \cup U[p] /\ U[c] = {p} \cup U[p]
      BY <1>1, <1>2, <2>1, <2>3
    <3>2. p \notin U[p] /\ \A q \in U[p] : U[q] \subseteq U[p]
      BY <1>3, <3>1
    <3>3. c # p
      BY <1>3, <2>1, <3>1
    <3> QED BY <3>1, <3>2, <3>3
  <2> QED BY <2>2, <2>3
<1> DEFINE S == {x \in N : x \in Under(gr, p) => \E c \in gr.members[p] : x = c \/ c \in U[x]}
<1>7. S = N
  <2>1. ASSUME NEW x \in N, gr.owner[x] = Root \/ gr.owner[x] \in S, x \in Under(gr, p)
        PROVE  \E c \in gr.members[p] : x = c \/ c \in U[x]
    <3>1. CASE gr.owner[x] = p
      BY <1>1, <3>1
    <3>2. CASE gr.owner[x] = Root /\ gr.owner[x] # p
      BY <1>2, <1>4, <2>1, <3>2
    <3>3. CASE gr.owner[x] # Root /\ gr.owner[x] # p
      <4>1. U[x] = {gr.owner[x]} \cup U[gr.owner[x]] /\ gr.owner[x] \in N
        BY <1>1, <1>2, <3>3
      <4>2. gr.owner[x] \in Under(gr, p)
        BY <1>4, <2>1, <3>3, <4>1
      <4>3. PICK c \in gr.members[p] : gr.owner[x] = c \/ c \in U[gr.owner[x]]
        BY <2>1, <3>3, <4>2
      <4> QED BY <4>1, <4>3
    <3> QED BY <3>1, <3>2, <3>3
  <2>2. S \in SUBSET N /\ \A x \in N : gr.owner[x] = Root \/ gr.owner[x] \in S => x \in S
    BY <2>1
  <2> HIDE DEF S
  <2> QED BY <1>1, <2>2, ForestInduction
<1>8. \A c \in gr.members[p] : c # Root /\ \A x : x \in Under(gr, c) <=> x \in N /\ c \in U[x]
  BY <1>1, <1>4
<1>9. p \notin Under(gr, p)
  BY <1>1, <1>3, <1>4
<1>10. ASSUME NEW x PROVE x \in Under(gr, p) <=> \E c \in gr.members[p] : x = c \/ x \in Under(gr, c)
  <2>1. ASSUME NEW c \in gr.members[p], x = c \/ x \in Under(gr, c) PROVE x \in Under(gr, p)
    <3>1. x = c \/ (x \in N /\ c \in U[x])
      BY <1>8, <2>1
    <3> QED BY <1>1, <1>3, <1>4, <1>5, <3>1
  <2>2. ASSUME x \in Under(gr, p) PROVE \E c \in gr.members[p] : x = c \/ x \in Under(gr, c)
    <3>1. x \in N /\ x \in S
      BY <1>4, <1>7, <2>2
    <3> QED BY <1>8, <2>2, <3>1
  <2> QED BY <2>1, <2>2
<1>11. ASSUME NEW x, NEW c \in gr.members[p], NEW e \in gr.members[p],
              x = c \/ x \in Under(gr, c), x = e \/ x \in Under(gr, e)
       PROVE  c = e
  <2>1. (x = c \/ (x \in N /\ c \in U[x])) /\ (x = e \/ (x \in N /\ e \in U[x]))
    BY <1>8, <1>11
  <2> QED BY <1>3, <1>6, <2>1
<1>12. ASSUME NEW c \in gr.members[p], NEW x \in Under(gr, c)
       PROVE  x \in N /\ (gr.owner[x] = c \/ gr.owner[x] \in Under(gr, c))
  <2>1. x \in N /\ c \in U[x]
    BY <1>8
  <2>2. gr.owner[x] # Root /\ U[x] = {gr.owner[x]} \cup U[gr.owner[x]] /\ gr.owner[x] \in N
    BY <1>1, <1>2, <2>1
  <2> QED BY <1>8, <2>1, <2>2
<1> QED BY <1>1, <1>8, <1>9, <1>10, <1>11, <1>12

\* A node that is no compound has nothing inside.
LEMMA OnlyCompoundsHold ==
  ASSUME NEW gr, GraphOK(gr), Whole(gr), NEW c \in DOMAIN gr.owner, c \notin DOMAIN gr.members
  PROVE  Under(gr, c) = {}
<1> DEFINE N == DOMAIN gr.owner
           U == Up(gr.owner)
           S == {x \in N : c \notin U[x]}
<1>1. /\ Forest(gr.owner) /\ Root \notin N /\ gr.owner \in [N -> N \cup {Root}]
      /\ \A n \in N : gr.owner[n] \in DOMAIN gr.members
  BY DEF GraphOK, Whole, Forest
<1>2. \A n \in N : /\ gr.owner[n] = Root => U[n] = {}
                   /\ gr.owner[n] # Root => U[n] = {gr.owner[n]} \cup U[gr.owner[n]]
  BY <1>1, UpUnfolds
<1> HIDE DEF U
<1>3. S = N
  <2>1. S \in SUBSET N /\ \A x \in N : gr.owner[x] = Root \/ gr.owner[x] \in S => x \in S
    BY <1>1, <1>2
  <2> HIDE DEF S
  <2> QED BY <1>1, <2>1, ForestInduction
<1> QED BY <1>1, <1>3 DEF Under, U

\* No compound comes before a node in it.
Inner(owner, s) == \A a, b \in DOMAIN s : owner[s[a]] = s[b] => a < b

\* Inner orders of what is not inside one another make an inner order.
LEMMA InnerJoined ==
  ASSUME NEW T, NEW s \in Lists(T), NEW t \in Lists(T), NEW owner, Inner(owner, s), Inner(owner, t),
         \A x \in ToSet(t) : \A y \in ToSet(s) : owner[x] # y
  PROVE  Inner(owner, s \o t)
<1> DEFINE k == Len(s)
           u == s \o t
<1>1. /\ k \in Nat /\ Len(t) \in Nat /\ DOMAIN s = 1..k /\ DOMAIN t = 1..Len(t)
      /\ DOMAIN u = 1..k + Len(t)
      /\ \A i \in 1..k : u[i] = s[i]
      /\ \A i \in 1..Len(t) : u[k + i] = t[i]
  BY Listing, Joining
<1> HIDE DEF u
<1> SUFFICES ASSUME NEW a \in DOMAIN u, NEW b \in DOMAIN u, owner[u[a]] = u[b] PROVE a < b
  BY DEF Inner, u
<1> HIDE DEF k
<1>2. \A i \in DOMAIN u : \/ i \in 1..k /\ u[i] = s[i]
                          \/ \E j \in 1..Len(t) : i = k + j /\ u[i] = t[j]
  <2> SUFFICES ASSUME NEW i \in DOMAIN u, i \notin 1..k
               PROVE  \E j \in 1..Len(t) : i = k + j /\ u[i] = t[j]
    BY <1>1
  <2>1. i - k \in 1..Len(t) /\ i = k + (i - k)
    BY <1>1
  <2> QED BY <1>1, <2>1
<1>3. CASE a \in 1..k /\ b \in 1..k
  BY <1>1, <1>3 DEF Inner
<1>4. CASE a \in 1..k /\ b \notin 1..k
  BY <1>1, <1>4
<1>5. CASE a \notin 1..k /\ b \in 1..k
  <2>1. PICK j \in 1..Len(t) : a = k + j /\ u[a] = t[j]
    BY <1>2, <1>5
  <2>2. t[j] \in ToSet(t) /\ s[b] \in ToSet(s)
    BY <1>1, <1>5 DEF ToSet
  <2> QED BY <1>1, <1>5, <2>1, <2>2
<1>6. CASE a \notin 1..k /\ b \notin 1..k
  <2>1. PICK j \in 1..Len(t) : a = k + j /\ u[a] = t[j]
    BY <1>2, <1>6
  <2>2. PICK l \in 1..Len(t) : b = k + l /\ u[b] = t[l]
    BY <1>2, <1>6
  <2>3. j < l
    BY <1>1, <2>1, <2>2 DEF Inner
  <2> QED BY <1>1, <2>1, <2>2, <2>3
<1> QED BY <1>3, <1>4, <1>5, <1>6

\* What performDFSOnCompounds makes of a compound's members, given the orders below them.
Branch(u, c) == (IF IsCompound(g, c) THEN u[c] ELSE <<>>) \o (IF c \in ToBeTiled THEN <<c>> ELSE <<>>)
Branches(u, p) ==
    LET list == SetToSeq(g.members[p]) IN FlattenSeq([i \in DOMAIN list |-> Branch(u, list[i])])

\* The compounds to be tiled inside p, inner ones first.
Ordered(s, p) ==
    s \in Lists(DOMAIN g.owner) /\ ToSet(s) = ToBeTiled \cap Under(g, p) /\ Inner(g.owner, s)

\* performDFSOnCompounds orders one member of a compound: what is inside it first.
LEMMA BranchOrdered ==
  ASSUME GraphOK(g), Whole(g), NEW p \in DOMAIN g.members, NEW c \in g.members[p], NEW u,
         IsCompound(g, c) => Ordered(u[c], c)
  PROVE  /\ Branch(u, c) \in Lists(DOMAIN g.owner)
         /\ \A x : x \in ToSet(Branch(u, c)) <=> x \in ToBeTiled /\ (x = c \/ x \in Under(g, c))
         /\ Inner(g.owner, Branch(u, c))
<1> DEFINE N == DOMAIN g.owner
           s == IF IsCompound(g, c) THEN u[c] ELSE <<>>
           t == IF c \in ToBeTiled THEN <<c>> ELSE <<>>
<1>1. c \in N /\ g.owner[c] = p /\ p \notin Under(g, p) /\ \A x : x \in Under(g, c) => x \in Under(g, p)
  BY UnderMembers
<1>2. c \notin Under(g, c) /\ c # p
  <2>1. Forest(g.owner) /\ Root \notin N
    BY DEF GraphOK
  <2>2. c \notin Up(g.owner)[c]
    BY <1>1, <2>1, ForestOrder
  <2>3. c \in Under(g, p)
    BY UnderMembers
  <2> QED BY <1>1, <2>1, <2>2, <2>3 DEF Under
<1>3. s \in Lists(N) /\ ToSet(s) = ToBeTiled \cap Under(g, c) /\ Inner(g.owner, s)
  <2>1. CASE IsCompound(g, c)
    BY <2>1 DEF Ordered
  <2>2. CASE ~IsCompound(g, c)
    <3>1. Under(g, c) = {}
      BY <1>1, <2>2, OnlyCompoundsHold DEF IsCompound
    <3>2. s = <<>> /\ DOMAIN s = {} /\ s \in Lists(N)
      BY <2>2 DEF Lists
    <3> HIDE DEF s
    <3> QED BY <3>1, <3>2 DEF ToSet, Inner
  <2> QED BY <2>1, <2>2
<1>4. t \in Lists(N) /\ ToSet(t) = ToBeTiled \cap {c} /\ Inner(g.owner, t)
  <2>1. CASE c \in ToBeTiled
    <3>1. t = <<c>> /\ t \in Lists(N) /\ DOMAIN t = {1} /\ t[1] = c
      BY <1>1, <2>1, Single
    <3> HIDE DEF t
    <3>2. g.owner[c] # c
      BY <1>1, <1>2
    <3> QED BY <2>1, <3>1, <3>2 DEF ToSet, Inner
  <2>2. CASE c \notin ToBeTiled
    <3>1. t = <<>> /\ t \in Lists(N) /\ DOMAIN t = {}
      BY <2>2 DEF Lists
    <3> HIDE DEF t
    <3> QED BY <2>2, <3>1 DEF ToSet, Inner
  <2> QED BY <2>1, <2>2
<1>5. Branch(u, c) = s \o t
  BY DEF Branch
<1> HIDE DEF s, t
<1>6. s \o t \in Lists(N) /\ ToSet(s \o t) = ToSet(s) \cup ToSet(t)
  BY <1>3, <1>4, Joining
<1>7. Inner(g.owner, s \o t)
  <2>1. \A x \in ToSet(t) : \A y \in ToSet(s) : g.owner[x] # y
    BY <1>1, <1>3, <1>4
  <2> QED BY <1>3, <1>4, <2>1, InnerJoined
<1> QED BY <1>3, <1>4, <1>5, <1>6, <1>7

\* The members' orders, one after another, are an order of the compound.
LEMMA BranchesOrdered ==
  ASSUME GraphOK(g), Whole(g), NEW p \in DOMAIN g.members, NEW u,
         \A c \in g.members[p] : IsCompound(g, c) => Ordered(u[c], c)
  PROVE  Ordered(Branches(u, p), p)
<1> DEFINE N == DOMAIN g.owner
           list == SetToSeq(g.members[p])
           n == Len(list)
           pieces == [i \in DOMAIN list |-> Branch(u, list[i])]
           In(x, c) == x = c \/ x \in Under(g, c)
<1>1. /\ list \in Lists(g.members[p]) /\ ToSet(list) = g.members[p]
      /\ \A i, j \in DOMAIN list : list[i] = list[j] => i = j
  <2>1. g.members[p] \in SUBSET N /\ IsFiniteSet(N)
    BY DEF GraphOK
  <2>2. IsFiniteSet(g.members[p])
    BY <2>1, FS_Subset
  <2> QED BY <2>2, ListingASet
<1>2. n \in Nat /\ DOMAIN list = 1..n /\ \A i \in 1..n : list[i] \in g.members[p]
  BY <1>1, Listing
<1>3. \A c \in g.members[p] : \E i \in 1..n : list[i] = c
  BY <1>1, <1>2 DEF ToSet
<1>4. Branches(u, p) = FlattenSeq(pieces)
  BY DEF Branches
<1> HIDE DEF list
<1>5. \A i \in 1..n : /\ Branch(u, list[i]) \in Lists(N) /\ Inner(g.owner, Branch(u, list[i]))
                      /\ \A x : x \in ToSet(Branch(u, list[i])) <=> x \in ToBeTiled /\ In(x, list[i])
  BY <1>2, BranchOrdered
<1>6. pieces \in Lists(Lists(N)) /\ Len(pieces) = n /\ \A i \in 1..n : pieces[i] = Branch(u, list[i])
  <2> DEFINE L == Lists(N)
  <2>1. \A i \in 1..n : Branch(u, list[i]) \in L
    BY <1>5
  <2> HIDE DEF L, n
  <2>2. pieces \in Seq(L) /\ Len(pieces) = n
    BY <1>2, <2>1
  <2> QED BY <1>2, <2>2 DEF Lists, L
<1> HIDE DEF pieces
<1>7. PICK f \in Flattenings(N, pieces) : FlattenSeq(pieces) = f[n]
  BY <1>6, Flattening
<1>8. /\ \A i \in 0..n : f[i] \in Lists(N)
      /\ f[0] = <<>> /\ \A i \in 1..n : f[i] = f[i - 1] \o Branch(u, list[i])
  BY <1>6, <1>7 DEF Flattenings
<1> HIDE DEF n
<1> DEFINE Good(i) == /\ \A x : x \in ToSet(f[i]) <=> x \in ToBeTiled /\ \E j \in 1..i : In(x, list[j])
                      /\ Inner(g.owner, f[i])
           S == {i \in 0..n : Good(i)}
<1>9. 0 \in S
  <2>1. DOMAIN f[0] = {}
    BY <1>8
  <2>2. ToSet(f[0]) = {} /\ Inner(g.owner, f[0]) /\ 1..0 = {} /\ 0 \in 0..n
    BY <1>2, <2>1 DEF ToSet, Inner
  <2> HIDE DEF In
  <2> QED BY <2>2
<1>10. ASSUME NEW i \in 1..n, i - 1 \in S PROVE i \in S
  <2> DEFINE s == f[i - 1]
             t == Branch(u, list[i])
  <2>1. /\ i - 1 \in 0..n /\ i \in 0..n /\ s \in Lists(N) /\ t \in Lists(N) /\ f[i] = s \o t
        /\ Inner(g.owner, s) /\ Inner(g.owner, t)
        /\ \A x : x \in ToSet(s) <=> x \in ToBeTiled /\ \E j \in 1..i - 1 : In(x, list[j])
        /\ \A x : x \in ToSet(t) <=> x \in ToBeTiled /\ In(x, list[i])
    BY <1>2, <1>5, <1>8, <1>10
  <2> HIDE DEF s, t
  <2>2. ToSet(f[i]) = ToSet(s) \cup ToSet(t)
    BY <2>1, Joining
  <2>3. \A x \in ToSet(t) : \A y \in ToSet(s) : g.owner[x] # y
    <3> SUFFICES ASSUME NEW x \in ToSet(t), NEW y \in ToSet(s), g.owner[x] = y PROVE FALSE
      OBVIOUS
    <3>1. PICK j \in 1..i - 1 : In(y, list[j])
      BY <2>1
    <3>2. j \in 1..n /\ j # i
      BY <1>2
    <3>3. list[i] \in g.members[p] /\ list[j] \in g.members[p] /\ list[i] # list[j]
      BY <1>1, <1>2, <3>2
    <3>4. In(x, list[i])
      BY <2>1
    <3>5. p \notin Under(g, p) /\ y \in Under(g, p)
      BY <3>1, <3>3, UnderMembers
    <3>6. CASE x = list[i]
      BY <3>3, <3>5, <3>6, UnderMembers
    <3>7. CASE x \in Under(g, list[i])
      <4>1. In(y, list[i])
        BY <3>3, <3>7, UnderMembers
      <4> QED BY <3>1, <3>3, <4>1, UnderMembers
    <3> QED BY <3>4, <3>6, <3>7
  <2>4. Inner(g.owner, f[i])
    BY <2>1, <2>3, InnerJoined
  <2>5. \A x : x \in ToSet(f[i]) <=> x \in ToBeTiled /\ \E j \in 1..i : In(x, list[j])
    <3>1. \A j : j \in 1..i <=> j \in 1..i - 1 \/ j = i
      BY <1>2
    <3> HIDE DEF In
    <3> QED BY <2>1, <2>2, <3>1
  <2> HIDE DEF In
  <2> QED BY <2>1, <2>4, <2>5
<1>11. Good(n)
  <2>1. \A i \in 0..n : i \in S
    <3> HIDE DEF S
    <3> QED BY <1>2, <1>9, <1>10, UpTo
  <2>2. n \in 0..n
    BY <1>2
  <2> HIDE DEF In
  <2> QED BY <2>1, <2>2
<1>12. ToSet(f[n]) = ToBeTiled \cap Under(g, p)
  <2>1. \A x : x \in Under(g, p) <=> \E j \in 1..n : In(x, list[j])
    <3>1. \A x : x \in Under(g, p) <=> \E c \in g.members[p] : In(x, c)
      BY UnderMembers
    <3> HIDE DEF In
    <3> QED BY <1>2, <1>3, <3>1
  <2> HIDE DEF In
  <2> QED BY <1>11, <2>1
<1>13. f[n] \in Lists(N)
  BY <1>2, <1>8
<1> QED BY <1>4, <1>7, <1>11, <1>12, <1>13 DEF Ordered

\* The members of a compound are listed, each once.
LEMMA MembersListed ==
  ASSUME GraphOK(g), NEW p \in DOMAIN g.members
  PROVE  \A i \in DOMAIN SetToSeq(g.members[p]) :
            SetToSeq(g.members[p])[i] \in g.members[p] /\ SetToSeq(g.members[p])[i] \in DOMAIN g.owner
<1>1. g.members[p] \in SUBSET DOMAIN g.owner /\ IsFiniteSet(DOMAIN g.owner)
  BY DEF GraphOK
<1>2. IsFiniteSet(g.members[p])
  BY <1>1, FS_Subset
<1>3. SetToSeq(g.members[p]) \in Lists(g.members[p])
  BY <1>2, ListingASet
<1> QED BY <1>1, <1>3, Listing

\* Only the orders of the members that are compounds matter.
LEMMA BranchesAgree ==
  ASSUME GraphOK(g), NEW p \in DOMAIN g.members, NEW u, NEW v,
         \A c \in g.members[p] : IsCompound(g, c) => u[c] = v[c]
  PROVE  Branches(u, p) = Branches(v, p)
<1> DEFINE list == SetToSeq(g.members[p])
<1>1. \A i \in DOMAIN list : list[i] \in g.members[p]
  BY MembersListed
<1> HIDE DEF list
<1>2. \A i \in DOMAIN list : Branch(u, list[i]) = Branch(v, list[i])
  BY <1>1 DEF Branch
<1>3. [i \in DOMAIN list |-> Branch(u, list[i])] = [i \in DOMAIN list |-> Branch(v, list[i])]
  BY <1>2
<1> QED BY <1>3 DEF Branches, list

\* The members' orders are made of compounds in the graph.
LEMMA BranchesListed ==
  ASSUME GraphOK(g), NEW p \in DOMAIN g.members, NEW u,
         \A c \in g.members[p] : IsCompound(g, c) => u[c] \in Lists(DOMAIN g.owner)
  PROVE  Branches(u, p) \in Lists(DOMAIN g.owner)
<1> DEFINE N == DOMAIN g.owner
           L == Lists(N)
           list == SetToSeq(g.members[p])
           n == Len(list)
           pieces == [i \in DOMAIN list |-> Branch(u, list[i])]
<1>1. \A i \in DOMAIN list : list[i] \in g.members[p] /\ list[i] \in N
  BY MembersListed
<1>2. list \in Seq(N) /\ n \in Nat /\ DOMAIN list = 1..n
  <2>1. g.members[p] \in SUBSET DOMAIN g.owner /\ IsFiniteSet(DOMAIN g.owner)
    BY DEF GraphOK
  <2>2. IsFiniteSet(g.members[p])
    BY <2>1, FS_Subset
  <2>3. list \in Lists(g.members[p])
    BY <2>2, ListingASet
  <2> HIDE DEF list
  <2>4. list \in Lists(N)
    BY <1>1, <2>3, Relisting
  <2> QED BY <2>4 DEF Lists
<1>3. Branches(u, p) = FlattenSeq(pieces)
  BY DEF Branches
<1> HIDE DEF list
<1>4. \A i \in 1..n : Branch(u, list[i]) \in L
  <2> SUFFICES ASSUME NEW c \in g.members[p], c \in N PROVE Branch(u, c) \in L
    BY <1>1, <1>2
  <2> DEFINE s == IF IsCompound(g, c) THEN u[c] ELSE <<>>
             t == IF c \in ToBeTiled THEN <<c>> ELSE <<>>
  <2>0. <<>> \in Lists(N)
    BY DEF Lists
  <2>1. <<c>> \in Lists(N)
    <3>1. c \in N
      OBVIOUS
    <3> HIDE DEF N
    <3> QED BY <3>1, Single
  <2>2. s \in Lists(N) /\ t \in Lists(N)
    BY <1>1, <2>0, <2>1
  <2>3. Branch(u, c) = s \o t
    BY DEF Branch
  <2> HIDE DEF s, t
  <2> QED BY <2>2, <2>3, Joining
<1>5. pieces \in Lists(Lists(N)) /\ Len(pieces) = n
  <2> HIDE DEF L, n
  <2>1. pieces \in Seq(L) /\ Len(pieces) = n
    BY <1>2, <1>4
  <2> QED BY <2>1 DEF Lists, L
<1> HIDE DEF pieces
<1>6. PICK f \in Flattenings(N, pieces) : FlattenSeq(pieces) = f[n]
  BY <1>5, Flattening
<1>7. f[n] \in Lists(N)
  <2>1. n \in 0..n
    BY <1>2
  <2> QED BY <1>5, <1>6, <2>1 DEF Flattenings
<1> QED BY <1>3, <1>6, <1>7

\* performDFSOnCompounds finds all compounds to be tiled, inner ones first.
LEMMA OrderIsInner ==
  ASSUME GraphOK(g), Whole(g)
  PROVE  /\ CompoundOrder \in Lists(ToBeTiled) /\ ToSet(CompoundOrder) = ToBeTiled
         /\ Inner(g.owner, CompoundOrder)
<1> DEFINE N == DOMAIN g.owner
           G == DOMAIN g.members
           T == Lists(N)
           step == [x \in N \X [N -> T] |-> IF IsCompound(g, x[1]) THEN Branches(x[2], x[1]) ELSE <<>>]
           Fit(b) == b = [p \in G |-> Branches(b, p)]
           below == CHOOSE b : Fit(b)
<1>1. /\ Forest(g.owner) /\ Root \notin N /\ IsFiniteSet(N)
      /\ \A p \in G : \A c \in g.members[p] : c \in N /\ g.owner[c] = p
      /\ Root \in G /\ G \subseteq {Root} \cup N
  BY DEF GraphOK, Whole
<1>2. CompoundOrder = below[Root]
  BY DEF CompoundOrder, Branches, Branch
<1>3. <<>> \in T
  BY DEF Lists
<1>4. \A p \in N : \A u \in [N -> T] :
         step[<<p, u>>] = IF IsCompound(g, p) THEN Branches(u, p) ELSE <<>>
  OBVIOUS
<1>5. step \in DownSteps(g.owner, T)
  <2>1. step \in [N \X [N -> T] -> T]
    <3> SUFFICES ASSUME NEW p \in N, NEW u \in [N -> T], IsCompound(g, p) PROVE Branches(u, p) \in T
      BY <1>3
    <3>1. p \in DOMAIN g.members
      BY DEF IsCompound
    <3>2. \A c \in g.members[p] : IsCompound(g, c) => u[c] \in Lists(N)
      BY <1>1, <3>1
    <3> QED BY <3>1, <3>2, BranchesListed
  <2>2. ASSUME NEW p \in N, NEW u \in [N -> T], NEW v \in [N -> T],
               \A c \in N : g.owner[c] = p => u[c] = v[c]
        PROVE  step[<<p, u>>] = step[<<p, v>>]
    <3>1. CASE IsCompound(g, p)
      <4>1. p \in DOMAIN g.members
        BY <3>1 DEF IsCompound
      <4>2. \A c \in g.members[p] : IsCompound(g, c) => u[c] = v[c]
        BY <1>1, <2>2, <4>1
      <4>3. Branches(u, p) = Branches(v, p)
        BY <4>1, <4>2, BranchesAgree
      <4> HIDE DEF step
      <4> QED BY <1>4, <4>3
    <3>2. CASE ~IsCompound(g, p)
      BY <1>4, <3>2
    <3> QED BY <3>1, <3>2
  <2> HIDE DEF step, T
  <2> QED BY <2>1, <2>2 DEF DownSteps
<1> HIDE DEF T, step
<1>6. PICK f : f \in DownSolutions(g.owner, T, step)
  BY <1>1, <1>3, <1>5, DownRecursion
<1>7. f \in [N -> T] /\ \A p \in N : IsCompound(g, p) => f[p] = Branches(f, p)
  BY <1>4, <1>6 DEF DownSolutions
<1> DEFINE h == [p \in G |-> Branches(f, p)]
<1>8. Fit(h)
  <2>1. \A p \in G : h[p] = Branches(f, p)
    OBVIOUS
  <2>2. h = [p \in G |-> h[p]]
    OBVIOUS
  <2> HIDE DEF h
  <2>3. ASSUME NEW p \in G PROVE Branches(f, p) = Branches(h, p)
    <3>1. \A c \in g.members[p] : IsCompound(g, c) => f[c] = h[c]
      BY <1>1, <1>7, <2>1 DEF IsCompound
    <3> QED BY <3>1, BranchesAgree
  <2>4. [p \in G |-> h[p]] = [p \in G |-> Branches(h, p)]
    BY <2>1, <2>3
  <2> QED BY <2>2, <2>4
<1>9. Fit(below)
  <2> HIDE DEF Fit, h
  <2> QED BY <1>8
<1> HIDE DEF below
<1>10. \A p \in G : below[p] = Branches(below, p)
  BY <1>9
<1>11. \A p \in G : (\A c \in g.members[p] : IsCompound(g, c) => Ordered(below[c], c)) => Ordered(below[p], p)
  BY <1>10, BranchesOrdered
<1> DEFINE S == {p \in N : IsCompound(g, p) => Ordered(below[p], p)}
<1>12. S = N
  <2>1. ASSUME NEW p \in N, \A c \in N : g.owner[c] = p => c \in S PROVE p \in S
    <3> SUFFICES ASSUME IsCompound(g, p) PROVE Ordered(below[p], p)
      OBVIOUS
    <3>1. p \in G
      BY DEF IsCompound
    <3>2. \A c \in g.members[p] : IsCompound(g, c) => Ordered(below[c], c)
      BY <1>1, <2>1, <3>1
    <3> QED BY <1>11, <3>1, <3>2
  <2>2. S \in SUBSET N
    OBVIOUS
  <2> HIDE DEF S
  <2> QED BY <1>1, <2>1, <2>2, DownInduction
<1>13. Ordered(below[Root], Root)
  <2>1. \A c \in g.members[Root] : IsCompound(g, c) => Ordered(below[c], c)
    BY <1>1, <1>12
  <2> QED BY <1>1, <1>11, <2>1
<1>14. ToBeTiled \subseteq N
  BY TiledAreEdgeless
<1>15. ToSet(below[Root]) = ToBeTiled /\ below[Root] \in Lists(N) /\ Inner(g.owner, below[Root])
  BY <1>13, <1>14 DEF Ordered, Under
<1>16. below[Root] \in Lists(ToBeTiled)
  <2> DEFINE s == below[Root]
  <2>1. \A i \in DOMAIN s : s[i] \in ToBeTiled
    BY <1>15 DEF ToSet
  <2>2. s \in Lists(N)
    BY <1>15
  <2> HIDE DEF s
  <2>3. s \in Lists(ToBeTiled)
    BY <2>1, <2>2, Relisting
  <2> QED BY <2>3 DEF s
<1> QED BY <1>2, <1>15, <1>16

------------------------------------------------------------------------------
(* The invariant of the tiles.                                              *)

\* The members of a compound, in it or taken out.
Owned(c) == {n \in DOMAIN g.owner : g.owner[n] = c}
TakenOut(n) == \E i \in DOMAIN pruned : \E r \in pruned[i] : r.node = n

Built == {"group", "clear"}
Cleared == {"layout", "reduce", "tick", "tiles", "place", "done"}

\* Every node copied is at home: in its graph, in a compound that is tiled, or taken
\* out with its round; and what can be tiled has its size.
HomeInv ==
    /\ at \in Built \cup Cleared => Copied \subseteq DOMAIN g.owner /\ Unset \notin DOMAIN g.owner
    /\ at \in Built => /\ Whole(g)
                       /\ \A n \in DOMAIN g.owner : ~IsCompound(g, n) => n \in DOMAIN sizes /\ Sized({n}, sizes)
    /\ at = "clear" => \A p \in DOMAIN groups : Dummy(p) \in ToBeTiled
    /\ at \in Cleared => \A n \in DOMAIN g.owner :
           g.owner[n] \in DOMAIN packs \/ n \in AllNodes(g) \/ TakenOut(n)

\* The packed compounds are those of the order, and are packed by the sizes that
\* their members have in the end.
PacksInv ==
    at \in Cleared =>
        /\ order \in Lists(DOMAIN packs) /\ ToSet(order) = DOMAIN packs /\ Inner(g.owner, order)
        /\ \A p \in DOMAIN groups : Dummy(p) \in DOMAIN packs
        /\ DOMAIN packs \subseteq DOMAIN g.owner
        /\ \A c \in DOMAIN packs :
              /\ Sized(Owned(c), sizes) /\ Organized(packs[c], Owned(c), sizes, PaddingOf(c))
              /\ sizes[c] = <<packs[c].width, packs[c].height>>

Locations(N) == [N -> [of : N \cup {Unset}, x : Nat, y : Nat]]

\* The members of compound c are where its packing says.
AtOffsets(locs, c) ==
    \A n \in Owned(c) :
        LET by == OffsetIn(packs[c], sizes, PaddingOf(c), n)
        IN  locs[n] = [of |-> locs[c].of, x |-> locs[c].x + by[1], y |-> locs[c].y + by[2]]

\* The nodes in the graph are moved by the first iteration, and the members of tiled
\* compounds are placed with these.
LocInv ==
    /\ at \in Built \cup Cleared => loc \in Locations(DOMAIN g.owner)
    /\ at = "tick" => loop.max > 1
    /\ (at = "tick" /\ loop.total > 0) \/ at = "tiles" => \A n \in AllNodes(g) : loc[n].of # Unset
    /\ at \in {"place", "done"} => /\ \A c \in DOMAIN packs : AtOffsets(loc, c)
                                   /\ \A n \in DOMAIN g.owner : loc[n].of # Unset
    /\ at = "done" => \A n \in Childless(d) \ d.hidden : placed[n].of # Unset

TileInv == HomeInv /\ PacksInv /\ LocInv

\* copy: every node is in the list of its owner, and has no place yet.
LEMMA TileCopy ==
  ASSUME LayoutInv, copy
  PROVE  TileInv'
<1> DEFINE N == d.nodes
           U == Up(d.parent)
           PW == ParentsWithoutChildren(d)
           C == Copied
           opened == {p \in C : isParent(d, p)} \ PW
<1>0. d \in Drawings
  BY DEF LayoutInv, GraphInv
<1>1. /\ g'.members = [p \in {Root} \cup opened |-> ChildrenOf(d, p)]
      /\ g'.owner = [n \in C |-> d.parent[n]]
      /\ sizes' = [n \in C \ opened |-> LeafSize[n]]
      /\ loc' = [n \in C |-> Nowhere]
      /\ at' = "group" /\ d' = d
  BY DEF copy
<1>2. GraphOK(g') /\ DOMAIN g'.members \subseteq {Root} \cup DOMAIN g'.owner /\ DOMAIN g'.owner = Copied
  BY <1>0, CopyMakesAGraph
<1>3. Unset \notin N /\ C \subseteq N /\ Copied' = C /\ \A n \in C : LeafSize[n] \in Nat \X Nat
  <2>1. \A n \in UNION {dr.nodes : dr \in Drawings} : LeafSize[n] \in Nat \X Nat
    BY DrawingsAssumption
  <2>2. C \subseteq N
    BY DEF Copied
  <2>3. Unset \notin N
    BY <1>0, DrawingsAssumption
  <2>4. Copied' = C
    BY <1>1, SameDrawing
  <2> HIDE DEF C
  <2> QED BY <1>0, <2>1, <2>2, <2>3, <2>4
<1>4. \A n \in C : d.parent[n] \in opened \cup {Root} /\ n \in ChildrenOf(d, d.parent[n])
  <2> SUFFICES ASSUME NEW n \in C PROVE d.parent[n] \in opened \cup {Root} /\ n \in ChildrenOf(d, d.parent[n])
    OBVIOUS
  <2>1. /\ Forest(d.parent) /\ DOMAIN d.parent = N /\ Root \notin N
    BY <1>0, DrawingFacts
  <2>2. n \in ChildrenOf(d, d.parent[n]) /\ d.parent[n] \in N \cup {Root}
    BY <1>3, <2>1 DEF ChildrenOf, Forest
  <2>3. CASE d.parent[n] # Root
    <3>1. g'.owner[n] = d.parent[n] /\ n \in DOMAIN g'.owner
      BY <1>1
    <3>2. d.parent[n] \in C
      BY <1>2, <2>3, <3>1 DEF GraphOK, Forest
    <3>3. \A m : Above(d, m) = U[m]
      BY <2>1, WaysUp
    <3>4. U[n] = {d.parent[n]} \cup U[d.parent[n]]
      <4>1. d.parent \in [DOMAIN d.parent -> DOMAIN d.parent \cup {Root}]
        BY <2>1 DEF Forest
      <4> QED BY <1>3, <2>1, <2>3, <4>1, UpUnfolds
    <3>5. d.parent[n] \notin PW
      BY <1>3, <3>3, <3>4 DEF Copied, Inside
    <3>6. isParent(d, d.parent[n])
      BY <2>2 DEF isParent
    <3> QED BY <2>2, <3>2, <3>5, <3>6
  <2> QED BY <2>2, <2>3
<1> HIDE DEF PW, C, N
<1>5. DOMAIN g'.owner = C /\ DOMAIN g'.members = {Root} \cup opened
  BY <1>1
<1>6. Whole(g')
  <2> HIDE DEF opened
  <2>1. \A n \in C : g'.owner[n] = d.parent[n]
    BY <1>1
  <2>2. \A n \in C : g'.members[d.parent[n]] = ChildrenOf(d, d.parent[n])
    BY <1>1, <1>4
  <2> QED BY <1>2, <1>4, <1>5, <2>1, <2>2 DEF Whole
<1>7. ASSUME NEW n \in DOMAIN g'.owner, ~IsCompound(g', n) PROVE n \in DOMAIN sizes' /\ Sized({n}, sizes')
  <2> HIDE DEF opened
  <2>1. n \in C \ opened
    BY <1>5, <1>7 DEF IsCompound
  <2>2. n \in DOMAIN sizes' /\ sizes'[n] = LeafSize[n]
    BY <1>1, <2>1
  <2>3. sizes'[n] \in Nat \X Nat
    BY <1>3, <2>1, <2>2
  <2> QED BY <2>2, <2>3 DEF Sized, Width, Height
<1>8. loc' \in Locations(DOMAIN g'.owner)
  <2>1. Nowhere \in [of : C \cup {Unset}, x : Nat, y : Nat]
    BY DEF Nowhere
  <2>2. loc' \in Locations(C)
    BY <1>1, <2>1 DEF Locations
  <2> QED BY <1>5, <2>2
<1>9. HomeInv'
  <2>1. Copied' \subseteq DOMAIN g'.owner /\ Unset \notin DOMAIN g'.owner
    BY <1>3, <1>5
  <2> QED BY <1>1, <1>6, <1>7, <2>1 DEF HomeInv, Built, Cleared
<1> QED BY <1>1, <1>8, <1>9 DEF TileInv, PacksInv, LocInv, Built, Cleared

\* What is tiled after a step is what getToBeTiled finds then.
LEMMA TiledThen ==
  (GraphOK(g))' => (\A S \in SUBSET DOMAIN g.owner : (\A n \in S : MayBeTiled(n, S)) => S \subseteq ToBeTiled)'
<1>1. GraphOK(g) => (\A S \in SUBSET DOMAIN g.owner : (\A n \in S : MayBeTiled(n, S)) => S \subseteq ToBeTiled)
  BY TiledAreEdgeless
<1> QED BY <1>1, PTL

\* The nodes of a branch without an edge in it are compounds to be tiled, or leaves.
LEMMA EdgelessBranches ==
  ASSUME GraphOK(g), Whole(g), NEW n \in DOMAIN g.owner, \A m \in withChildren(g, n) : Edgeless(m)
  PROVE  /\ Edgeless(n)
         /\ \A c \in DOMAIN g.owner : g.owner[c] = n => \A m \in withChildren(g, c) : Edgeless(m)
<1> DEFINE N == DOMAIN g.owner
           U == Up(g.owner)
<1>1. Forest(g.owner) /\ Root \notin N /\ g.owner \in [N -> N \cup {Root}]
  BY DEF GraphOK, Forest
<1>2. \A m : Ancestors(g, m) = U[m]
  BY WaysUp
<1>3. \A c \in N : g.owner[c] # Root => U[c] = {g.owner[c]} \cup U[g.owner[c]]
  BY <1>1, UpUnfolds
<1>4. \A m \in N : \A q \in U[m] : U[q] \subseteq U[m]
  BY <1>1, ForestOrder
<1>5. AllNodes(g) = N
  <2>1. AllNodes(g) \subseteq N
    BY DEF AllNodes, GraphOK
  <2>2. N \subseteq AllNodes(g)
    BY DEF AllNodes, Whole
  <2> QED BY <2>1, <2>2
<1> HIDE DEF U
<1>6. \A q, m : m \in withChildren(g, q) <=> m \in N /\ (m = q \/ q \in U[m])
  BY <1>2, <1>5 DEF withChildren
<1>7. Edgeless(n)
  BY <1>6
<1>8. ASSUME NEW c \in N, g.owner[c] = n, NEW m \in withChildren(g, c) PROVE Edgeless(m)
  <2>1. n \in U[c]
    BY <1>1, <1>3, <1>8
  <2>2. m \in N /\ n \in U[m]
    BY <1>4, <1>6, <2>1
  <2>3. m \in withChildren(g, n)
    BY <1>6, <2>2
  <2> QED BY <2>3
<1> QED BY <1>7, <1>8

\* groupZeroDegreeMembers: the dummies hold what has no edges, so they will be tiled.
LEMMA TileGroup ==
  ASSUME LayoutInv, LayoutInv', TileInv, groupZeroDegreeMembers
  PROVE  TileInv'
<1> DEFINE N == DOMAIN g.owner
           P == DOMAIN groups'
           G == DOMAIN g.members
           dummies == {Dummy(p) : p \in P}
           moved(n) == g.owner[n] \in P /\ n \in groups'[g.owner[n]]
<1>1. /\ d \in Drawings /\ GraphOK(g) /\ GraphOK(g') /\ at = "group" /\ at' = "clear"
      /\ N \subseteq d.nodes /\ G \subseteq {Root} \cup N
      /\ d' = d /\ sizes' = sizes /\ placed' = placed /\ g'.edges = g.edges
  BY DEF LayoutInv, GraphInv, groupZeroDegreeMembers
<1>2. /\ Whole(g) /\ Copied \subseteq N /\ Unset \notin N /\ loc \in Locations(N)
      /\ \A n \in N : ~IsCompound(g, n) => n \in DOMAIN sizes /\ Sized({n}, sizes)
  BY <1>1 DEF TileInv, HomeInv, LocInv, Built
<1>3. /\ P \subseteq G
      /\ \A p \in P : p \notin ToBeTiled /\ groups'[p] = {n \in g.members[p] : \A m \in withChildren(g, n) : Edgeless(m)}
  <2>1. /\ P = {p \in G : Cardinality(ZeroDegree(p)) > 1}
        /\ \A p \in P : groups'[p] = ZeroDegree(p)
    BY DEF groupZeroDegreeMembers
  <2>2. ASSUME NEW p \in P PROVE p \notin ToBeTiled
    <3>1. Cardinality(ZeroDegree(p)) > 1
      BY <2>1
    <3>2. CASE p \in ToBeTiled
      <4>1. ZeroDegree(p) = {} /\ Cardinality({}) = 0
        BY <3>2, FS_EmptySet DEF ZeroDegree
      <4> QED BY <3>1, <4>1
    <3> QED BY <3>2
  <2> QED BY <2>1, <2>2 DEF ZeroDegree
<1>4. /\ g'.members = [q \in G \cup dummies |->
                          IF q \in dummies THEN groups'[q[2]]
                          ELSE IF q \in P THEN (g.members[q] \ groups'[q]) \cup {Dummy(q)}
                          ELSE g.members[q]]
      /\ g'.owner = [n \in N \cup dummies |->
                        IF n \in dummies THEN n[2]
                        ELSE IF moved(n) THEN Dummy(g.owner[n])
                        ELSE g.owner[n]]
      /\ loc' = [n \in DOMAIN loc \cup dummies |-> IF n \in dummies THEN Nowhere ELSE loc[n]]
  BY DEF groupZeroDegreeMembers
<1>5. /\ \A p \in P : p \in {Root} \cup N /\ Dummy(p) \notin {Root} \cup N /\ Dummy(p)[2] = p /\ Dummy(p) # Unset
      /\ \A n \in dummies : n[2] \in P /\ n = Dummy(n[2])
  <2>1. \A p \in d.nodes \cup {Root} : Dummy(p) \notin d.nodes \cup {Root}
    BY <1>1, DrawingFacts
  <2>2. \A p : Dummy(p)[2] = p
    BY DEF Dummy
  <2>3. \A p \in d.nodes \cup {Root} : Dummy(p) # Unset
    <3>1. \A p \in {Root} \cup UNION {dr.nodes : dr \in Drawings} : Dummy(p) # Unset
      BY DrawingsAssumption
    <3>2. d.nodes \subseteq UNION {dr.nodes : dr \in Drawings}
      BY <1>1
    <3> QED BY <3>1, <3>2
  <2>4. \A p \in P : p \in d.nodes \cup {Root} /\ p \in {Root} \cup N
    BY <1>1, <1>3
  <2> HIDE DEF P
  <2> QED BY <1>1, <2>1, <2>2, <2>3, <2>4
<1> HIDE DEF P
<1>6. /\ DOMAIN g'.members = G \cup dummies /\ DOMAIN g'.owner = N \cup dummies
      /\ \A p \in P : g'.members[Dummy(p)] = groups'[p] /\ g'.members[p] = (g.members[p] \ groups'[p]) \cup {Dummy(p)}
      /\ \A q \in G \ P : g'.members[q] = g.members[q]
      /\ \A p \in P : g'.owner[Dummy(p)] = p
      /\ \A n \in N : g'.owner[n] = IF moved(n) THEN Dummy(g.owner[n]) ELSE g.owner[n]
  <2>1. \A q \in G : q \notin dummies
    BY <1>1, <1>5
  <2>2. \A n \in N : n \notin dummies
    BY <1>5
  <2>3. /\ DOMAIN g'.members = G \cup dummies /\ DOMAIN g'.owner = N \cup dummies
        /\ \A q \in G \cup dummies : g'.members[q] =
              IF q \in dummies THEN groups'[q[2]]
              ELSE IF q \in P THEN (g.members[q] \ groups'[q]) \cup {Dummy(q)}
              ELSE g.members[q]
        /\ \A n \in N \cup dummies : g'.owner[n] =
              IF n \in dummies THEN n[2] ELSE IF moved(n) THEN Dummy(g.owner[n]) ELSE g.owner[n]
    BY <1>4
  <2> HIDE DEF moved
  <2> QED BY <1>3, <1>5, <2>1, <2>2, <2>3
<1>7. /\ Root \in G /\ \A n \in N : g.owner[n] \in G /\ n \in g.members[g.owner[n]]
      /\ \A p \in G : \A n \in g.members[p] : n \in N /\ g.owner[n] = p
  BY <1>1, <1>2 DEF Whole, GraphOK
<1>8. Whole(g')
  <2>1. ASSUME NEW n \in N PROVE g'.owner[n] \in DOMAIN g'.members /\ n \in g'.members[g'.owner[n]]
    <3>1. CASE moved(n)
      <4>1. g'.owner[n] = Dummy(g.owner[n]) /\ g.owner[n] \in P /\ n \in groups'[g.owner[n]]
        BY <1>6, <3>1
      <4> QED BY <1>6, <4>1
    <3>2. CASE ~moved(n)
      <4>1. g'.owner[n] = g.owner[n] /\ g.owner[n] \in G /\ n \in g.members[g.owner[n]]
        BY <1>6, <1>7, <3>2
      <4>2. CASE g.owner[n] \in P
        <5>1. n \notin groups'[g.owner[n]]
          BY <3>2, <4>2
        <5> HIDE DEF dummies
        <5> QED BY <1>6, <4>1, <4>2, <5>1
      <4>3. CASE g.owner[n] \notin P
        <5> HIDE DEF dummies
        <5> QED BY <1>6, <4>1, <4>3
      <4> QED BY <4>2, <4>3
    <3> QED BY <3>1, <3>2
  <2>2. ASSUME NEW p \in P
        PROVE  g'.owner[Dummy(p)] \in DOMAIN g'.members /\ Dummy(p) \in g'.members[g'.owner[Dummy(p)]]
    BY <1>3, <1>6
  <2>3. \A n \in DOMAIN g'.owner : g'.owner[n] \in DOMAIN g'.members /\ n \in g'.members[g'.owner[n]]
    BY <1>6, <2>1, <2>2
  <2> QED BY <1>1, <1>6, <1>7, <2>3 DEF Whole
<1>9. ASSUME NEW n \in DOMAIN g'.owner, ~IsCompound(g', n) PROVE n \in DOMAIN sizes' /\ Sized({n}, sizes')
  <2>1. n \in N /\ ~IsCompound(g, n)
    BY <1>6, <1>9 DEF IsCompound
  <2> QED BY <1>1, <1>2, <2>1
<1>10. loc' \in Locations(DOMAIN g'.owner)
  <2>1. DOMAIN loc = N /\ \A n \in N : loc[n] \in [of : N \cup {Unset}, x : Nat, y : Nat]
    BY <1>2 DEF Locations
  <2> DEFINE M == N \cup dummies
             R == [of : M \cup {Unset}, x : Nat, y : Nat]
  <2>2. Nowhere \in R /\ \A n \in N : loc[n] \in R
    BY <2>1 DEF Nowhere
  <2> HIDE DEF R
  <2>3. loc' \in [M -> R]
    BY <1>4, <2>1, <2>2
  <2> QED BY <1>6, <2>3 DEF Locations, R
\* The compounds with no edge in them, and the dummies.
<1> DEFINE bare == {n \in N : IsCompound(g, n) /\ \A m \in withChildren(g, n) : Edgeless(m)}
           T == bare \cup dummies
<1>11. \A n \in N : (\A m \in withChildren(g, n) : Edgeless(m)) => Edgeless(n)
                     /\ \A c \in N : g.owner[c] = n => \A m \in withChildren(g, c) : Edgeless(m)
  BY <1>1, <1>2, EdgelessBranches
<1>12. ASSUME NEW n \in bare, NEW c \in g.members[n] PROVE Edgeless(c) /\ (IsCompound(g, c) => c \in bare)
  <2>1. n \in N /\ n \in G /\ c \in N /\ g.owner[c] = n
    BY <1>7 DEF IsCompound
  <2> QED BY <1>11, <2>1
<1>13. bare \subseteq ToBeTiled
  <2>1. \A n \in bare : MayBeTiled(n, bare)
    BY <1>12 DEF MayBeTiled
  <2>2. bare \in SUBSET N
    OBVIOUS
  <2> HIDE DEF bare
  <2> QED BY <1>1, <2>1, <2>2, TiledAreEdgeless
<1>14. \A n : Edgeless(n)' = Edgeless(n)
  BY <1>1 DEF Edgeless, EdgesAt
<1>15. ASSUME NEW n \in T
       PROVE  /\ n \in DOMAIN g'.members
              /\ \A c \in g'.members[n] : Edgeless(c) /\ (c \in DOMAIN g'.members => c \in T)
  <2>1. ASSUME NEW c \in N, \A m \in withChildren(g, c) : Edgeless(m)
        PROVE  Edgeless(c) /\ (c \in DOMAIN g'.members => c \in bare)
    <3>1. Edgeless(c)
      BY <1>11, <2>1
    <3>2. c \notin dummies
      BY <1>5
    <3> QED BY <1>6, <2>1, <3>1, <3>2 DEF IsCompound
  <2>2. CASE n \in bare
    <3>1. n \in G /\ n \notin P /\ g'.members[n] = g.members[n] /\ n \in N
      BY <1>3, <1>6, <1>13, <2>2 DEF IsCompound
    <3>2. \A c \in g.members[n] : c \in N /\ \A m \in withChildren(g, c) : Edgeless(m)
      <4>1. \A c \in g.members[n] : c \in N /\ g.owner[c] = n
        BY <1>7, <3>1
      <4>2. \A m \in withChildren(g, n) : Edgeless(m)
        BY <2>2
      <4> QED BY <1>11, <3>1, <4>1, <4>2
    <3> HIDE DEF bare
    <3> QED BY <1>6, <2>1, <3>1, <3>2
  <2>3. CASE n \in dummies
    <3>1. PICK p \in P : n = Dummy(p)
      BY <2>3
    <3>2. g'.members[n] = groups'[p] /\ n \in DOMAIN g'.members
      BY <1>6, <3>1
    <3>3. \A c \in groups'[p] : c \in N /\ \A m \in withChildren(g, c) : Edgeless(m)
      BY <1>3, <1>7
    <3> HIDE DEF bare
    <3> QED BY <2>1, <3>2, <3>3
  <2> QED BY <2>2, <2>3
<1>16. T \subseteq ToBeTiled'
  <2>1. T \in SUBSET DOMAIN g'.owner
    BY <1>6
  <2>2. \A S \in SUBSET DOMAIN g'.owner :
           (\A n \in S : /\ n \in DOMAIN g'.members
                         /\ \A c \in g'.members[n] : Edgeless(c)' /\ (c \in DOMAIN g'.members => c \in S))
              => S \subseteq ToBeTiled'
    BY <1>1, TiledThen DEF MayBeTiled, IsCompound
  <2> HIDE DEF T
  <2> QED BY <1>14, <1>15, <2>1, <2>2
<1>17. \A p \in P : Dummy(p) \in ToBeTiled'
  BY <1>16
<1>18. HomeInv'
  <2>1. Copied' = Copied
    BY <1>1, SameDrawing
  <2>2. Copied' \subseteq DOMAIN g'.owner /\ Unset \notin DOMAIN g'.owner
    BY <1>2, <1>5, <1>6, <2>1
  <2> QED BY <1>1, <1>8, <1>9, <1>17, <2>2 DEF HomeInv, Built, Cleared, P
<1> QED BY <1>1, <1>10, <1>18 DEF TileInv, PacksInv, LocInv, Built, Cleared

------------------------------------------------------------------------------
(* Compounds are tiled.                                                     *)

\* What clearCompounds has after each of the compounds s.
Tilings(s) ==
    LET done[i \in 0..Len(s)] ==
            IF i = 0 THEN [packs |-> <<>>, sizes |-> sizes] ELSE Tiled(done[i - 1], s[i])
    IN  done

\* clearCompounds tiles one compound after another.
LEMMA TilingsUnfold ==
  ASSUME NEW s, Len(s) \in Nat
  PROVE  /\ Tilings(s)[0] = [packs |-> <<>>, sizes |-> sizes]
         /\ \A i \in 1..Len(s) : Tilings(s)[i] = Tiled(Tilings(s)[i - 1], s[i])
<1> DEFINE N == Len(s)
           base == [packs |-> <<>>, sizes |-> sizes]
           step(p, i) == Tiled(p, s[i])
           done == Tilings(s)
           Solves(f, k) == f = [i \in 0..k |-> IF i = 0 THEN base ELSE step(f[i - 1], i)]
           Upto == {k \in 0..N : \E f : Solves(f, k)}
<1>1. N \in Nat
  OBVIOUS
<1>3. done = CHOOSE f : Solves(f, N)
  BY DEF Tilings
<1> HIDE DEF N, base, step, done
<1>4. 0 \in Upto
  <2> DEFINE f == [i \in 0..0 |-> base]
  <2>1. Solves(f, 0)
    OBVIOUS
  <2> HIDE DEF f
  <2> QED BY <1>1, <2>1
<1>5. ASSUME NEW k \in 1..N, k - 1 \in Upto PROVE k \in Upto
  <2>1. PICK f : Solves(f, k - 1)
    BY <1>5
  <2> DEFINE last == step(f[k - 1], k)
             h == [i \in 0..k |-> IF i = k THEN last ELSE f[i]]
  <2>2. DOMAIN f = 0..k - 1 /\ \A i \in 0..k - 1 : f[i] = IF i = 0 THEN base ELSE step(f[i - 1], i)
    BY <2>1
  <2>3. \A i \in 0..k : h[i] = IF i = 0 THEN base ELSE step(h[i - 1], i)
    <3> SUFFICES ASSUME NEW i \in 0..k PROVE h[i] = IF i = 0 THEN base ELSE step(h[i - 1], i)
      OBVIOUS
    <3>1. CASE i = k
      <4>1. i # 0 /\ i - 1 \in 0..k /\ i - 1 # k
        BY <1>1, <3>1
      <4>2. h[i] = last /\ h[i - 1] = f[i - 1]
        BY <3>1, <4>1
      <4> QED BY <3>1, <4>1, <4>2
    <3>2. CASE i # k /\ i # 0
      <4>1. i \in 0..k - 1 /\ i - 1 \in 0..k /\ i - 1 # k
        BY <1>1, <3>2
      <4>2. h[i] = f[i] /\ h[i - 1] = f[i - 1]
        BY <3>2, <4>1
      <4> QED BY <2>2, <3>2, <4>1, <4>2
    <3>3. CASE i # k /\ i = 0
      <4>1. i \in 0..k - 1
        BY <1>1, <3>3
      <4> QED BY <2>2, <3>3, <4>1
    <3> QED BY <3>1, <3>2, <3>3
  <2>4. h = [i \in 0..k |-> h[i]]
    OBVIOUS
  <2> HIDE DEF h
  <2>5. Solves(h, k)
    BY <2>3, <2>4
  <2>6. k \in 0..N
    BY <1>1
  <2> QED BY <2>5, <2>6
<1>6. N \in Upto
  <2>1. \A i \in 0..N : i \in Upto
    <3> HIDE DEF Upto
    <3> QED BY <1>1, <1>4, <1>5, UpTo
  <2> QED BY <1>1, <2>1
<1>7. Solves(done, N)
  BY <1>3, <1>6
<1>8. done[0] = base /\ \A k \in 1..N : done[k] = step(done[k - 1], k)
  <2>1. \A i \in 0..N : done[i] = IF i = 0 THEN base ELSE step(done[i - 1], i)
    BY <1>7
  <2>2. 0 \in 0..N /\ \A k \in 1..N : k \in 0..N /\ k # 0
    BY <1>1
  <2> QED BY <2>1, <2>2
<1> QED BY <1>8 DEF N, base, step, done

\* What is known when a set of compounds is tiled: their members have sizes, they are
\* packed by them, and have their own size from that.
Tiling(done, cs) ==
    /\ DOMAIN done.packs = cs
    /\ \A n \in DOMAIN g.owner : ~IsCompound(g, n) \/ n \in cs => n \in DOMAIN done.sizes /\ Sized({n}, done.sizes)
    /\ \A c \in cs : /\ g.members[c] \subseteq DOMAIN done.sizes /\ Sized(g.members[c], done.sizes)
                     /\ Organized(done.packs[c], g.members[c], done.sizes, PaddingOf(c))
                     /\ done.sizes[c] = <<done.packs[c].width, done.packs[c].height>>

\* A compound is tiled after the compounds in it and before those it is in.
LEMMA OneTiled ==
  ASSUME GraphOK(g), NEW done, NEW cs, cs \subseteq DOMAIN g.owner, Tiling(done, cs),
         NEW c \in DOMAIN g.members, c \in DOMAIN g.owner,
         \A n \in g.members[c] : n # c /\ (IsCompound(g, n) => n \in cs),
         \A e \in cs : c \notin g.members[e]
  PROVE  Tiling(Tiled(done, c), cs \cup {c})
<1> DEFINE N == DOMAIN g.owner
           M == g.members[c]
           pad == PaddingOf(c)
           org == tileNodes(M, done.sizes, pad)
           after == Tiled(done, c)
<1>1. M \in SUBSET N /\ IsFiniteSet(M)
  <2>1. M \in SUBSET N /\ IsFiniteSet(N)
    BY DEF GraphOK
  <2> QED BY <2>1, FS_Subset
<1>2. pad \in Nat
  BY TileAssumption DEF PaddingOf
<1>3. \A n \in M : n \in DOMAIN done.sizes /\ Sized({n}, done.sizes)
  BY <1>1 DEF Tiling
<1>4. Sized(M, done.sizes)
  BY <1>3 DEF Sized
<1>5. Organized(org, M, done.sizes, pad)
  <2> HIDE DEF M, pad
  <2> QED BY <1>1, <1>2, <1>4, TilesOrganized DEF org
<1>6. org.width \in Nat /\ org.height \in Nat
  <2> HIDE DEF org
  <2> QED BY <1>5 DEF Organized, WidthsOK, HeightsOK
<1>7. /\ after.packs = [n \in DOMAIN done.packs \cup {c} |-> IF n = c THEN org ELSE done.packs[n]]
      /\ after.sizes = [n \in DOMAIN done.sizes \cup {c} |->
                           IF n = c THEN <<org.width, org.height>> ELSE done.sizes[n]]
  BY DEF Tiled
<1> HIDE DEF org, after, pad
<1>8. /\ DOMAIN after.packs = cs \cup {c} /\ after.packs[c] = org
      /\ \A e \in cs : e # c => after.packs[e] = done.packs[e]
  BY <1>7 DEF Tiling
<1>9. /\ DOMAIN after.sizes = DOMAIN done.sizes \cup {c} /\ after.sizes[c] = <<org.width, org.height>>
      /\ \A n \in DOMAIN done.sizes : n # c => after.sizes[n] = done.sizes[n]
  BY <1>7
<1>10. \A n \in N : n \in DOMAIN done.sizes /\ Sized({n}, done.sizes) => n \in DOMAIN after.sizes /\ Sized({n}, after.sizes)
  <2>1. Sized({c}, after.sizes)
    BY <1>6, <1>9 DEF Sized, Width, Height
  <2> QED BY <1>9, <2>1 DEF Sized
<1>11. c \in DOMAIN after.sizes /\ Sized({c}, after.sizes)
  BY <1>6, <1>9 DEF Sized, Width, Height
<1>12. \A n \in N : ~IsCompound(g, n) \/ n \in cs \cup {c} => n \in DOMAIN after.sizes /\ Sized({n}, after.sizes)
  BY <1>10, <1>11 DEF Tiling
<1>13. \A n \in M : after.sizes[n] = done.sizes[n]
  BY <1>3, <1>9
<1>14. /\ M \subseteq DOMAIN after.sizes /\ Sized(M, after.sizes) /\ Organized(after.packs[c], M, after.sizes, PaddingOf(c))
       /\ after.sizes[c] = <<after.packs[c].width, after.packs[c].height>>
  <2>1. Sized(M, after.sizes)
    BY <1>4, <1>13 DEF Sized
  <2>2. Organized(org, M, after.sizes, pad)
    <3> HIDE DEF M
    <3> QED BY <1>5, <1>13, SameSizes
  <2> QED BY <1>3, <1>8, <1>9, <2>1, <2>2 DEF pad
<1>15. ASSUME NEW e \in cs, e # c
       PROVE  /\ g.members[e] \subseteq DOMAIN after.sizes /\ Sized(g.members[e], after.sizes)
              /\ Organized(after.packs[e], g.members[e], after.sizes, PaddingOf(e))
              /\ after.sizes[e] = <<after.packs[e].width, after.packs[e].height>>
  <2> DEFINE E == g.members[e]
             o == done.packs[e]
             p == PaddingOf(e)
  <2>1. e \in DOMAIN done.sizes
    BY DEF Tiling
  <2>2. /\ E \subseteq DOMAIN done.sizes /\ Sized(E, done.sizes) /\ Organized(o, E, done.sizes, p)
        /\ done.sizes[e] = <<o.width, o.height>>
    BY DEF Tiling
  <2>3. c \notin E
    OBVIOUS
  <2> HIDE DEF E, o, p
  <2>4. \A n \in E : after.sizes[n] = done.sizes[n]
    BY <1>9, <2>2, <2>3
  <2>5. Organized(o, E, after.sizes, p)
    BY <2>2, <2>4, SameSizes
  <2>6. E \subseteq DOMAIN after.sizes /\ Sized(E, after.sizes)
    BY <1>9, <2>2, <2>4 DEF Sized
  <2>7. after.packs[e] = o /\ after.sizes[e] = done.sizes[e]
    BY <1>8, <1>9, <1>15, <2>1 DEF o
  <2> QED BY <2>2, <2>5, <2>6, <2>7 DEF E, p
<1> QED BY <1>8, <1>12, <1>14, <1>15 DEF Tiling, after

\* clearCompounds: tiled in their order, inner ones first, all compounds are tiled.
LEMMA AllTiled ==
  ASSUME GraphOK(g), Whole(g),
         \A n \in DOMAIN g.owner : ~IsCompound(g, n) => n \in DOMAIN sizes /\ Sized({n}, sizes)
  PROVE  Tiling(Tilings(CompoundOrder)[Len(CompoundOrder)], ToBeTiled)
<1> DEFINE N == DOMAIN g.owner
           s == CompoundOrder
           k == Len(s)
           done == Tilings(s)
           upto(i) == {s[j] : j \in 1..i}
<1>1. /\ s \in Lists(ToBeTiled) /\ ToSet(s) = ToBeTiled /\ Inner(g.owner, s)
  BY OrderIsInner
<1>2. /\ ToBeTiled \subseteq N /\ \A p \in ToBeTiled : MayBeTiled(p, ToBeTiled)
      /\ \A p \in DOMAIN g.members : \A n \in g.members[p] : n \in N /\ g.owner[n] = p
  BY TiledAreEdgeless DEF GraphOK
<1> HIDE DEF s
<1>3. k \in Nat /\ DOMAIN s = 1..k /\ \A i \in 1..k : s[i] \in ToBeTiled
  BY <1>1, Listing
<1>4. \A n \in ToBeTiled : \E i \in 1..k : s[i] = n
  BY <1>1, <1>3 DEF ToSet
<1>5. done[0] = [packs |-> <<>>, sizes |-> sizes] /\ \A i \in 1..k : done[i] = Tiled(done[i - 1], s[i])
  BY <1>3, TilingsUnfold
<1> HIDE DEF done, k
<1> DEFINE Good == {i \in 0..k : Tiling(done[i], upto(i))}
<1>6. 0 \in Good
  <2>1. upto(0) = {} /\ 0 \in 0..k /\ done[0].packs = <<>> /\ done[0].sizes = sizes
    BY <1>3, <1>5
  <2>2. Tiling(done[0], {})
    BY <2>1 DEF Tiling
  <2> HIDE DEF upto
  <2> QED BY <2>1, <2>2
<1>7. ASSUME NEW i \in 1..k, i - 1 \in Good PROVE i \in Good
  <2> DEFINE c == s[i]
             cs == upto(i - 1)
  <2>1. i \in 0..k /\ \A j : j \in 1..i <=> j \in 1..i - 1 \/ j = i
    BY <1>3
  <2>2. \A j \in 1..i - 1 : j \in 1..k /\ j < i
    BY <1>3
  <2>3. upto(i) = cs \cup {c}
    BY <2>1
  <2>4. c \in ToBeTiled /\ c \in N /\ c \in DOMAIN g.members /\ cs \subseteq N /\ cs \subseteq DOMAIN g.members
    BY <1>2, <1>3, <2>2 DEF MayBeTiled, IsCompound
  <2>5. ASSUME NEW n \in g.members[c] PROVE n # c /\ (IsCompound(g, n) => n \in cs)
    <3>1. n \in N /\ g.owner[n] = c /\ (IsCompound(g, n) => n \in ToBeTiled)
      BY <1>2, <2>4 DEF MayBeTiled
    <3>2. n # c
      <4>1. c \in N => g.owner[c] # c
        <5>1. {c} \in (SUBSET N) \ {{}}
          BY <2>4
        <5>2. Forest(g.owner)
          BY DEF GraphOK
        <5> QED BY <5>1, <5>2 DEF Forest
      <4> QED BY <2>4, <3>1, <4>1
    <3>3. IsCompound(g, n) => n \in cs
      <4> SUFFICES ASSUME IsCompound(g, n) PROVE n \in cs
        OBVIOUS
      <4>1. PICK j \in 1..k : s[j] = n
        BY <1>4, <3>1
      <4>2. j < i
        BY <1>1, <1>3, <3>1, <4>1 DEF Inner
      <4>3. j \in 1..i - 1
        BY <1>3, <4>2
      <4> QED BY <4>1, <4>3
    <3> QED BY <3>2, <3>3
  <2>6. ASSUME NEW e \in cs PROVE c \notin g.members[e]
    <3>1. PICK j \in 1..i - 1 : s[j] = e
      OBVIOUS
    <3>2. j \in 1..k /\ j < i
      BY <2>2
    <3>3. g.owner[c] = e => i < j
      BY <1>1, <1>3, <3>1, <3>2 DEF Inner
    <3>4. ~(i < j)
      BY <1>3, <3>2
    <3>5. e \in DOMAIN g.members
      BY <2>4
    <3> QED BY <1>2, <3>3, <3>4, <3>5
  <2>7. done[i] = Tiled(done[i - 1], c) /\ Tiling(done[i - 1], cs)
    BY <1>5, <1>7
  <2> HIDE DEF c, cs
  <2>8. Tiling(Tiled(done[i - 1], c), cs \cup {c})
    BY <2>4, <2>5, <2>6, <2>7, OneTiled
  <2> HIDE DEF upto
  <2> QED BY <2>1, <2>3, <2>7, <2>8
<1>8. \A i \in 0..k : i \in Good
  <2> HIDE DEF Good
  <2> QED BY <1>3, <1>6, <1>7, UpTo
<1>9. k \in 0..k /\ upto(k) = ToBeTiled
  BY <1>3, <1>4
<1>10. Tiling(done[k], ToBeTiled)
  BY <1>8, <1>9
<1> QED BY <1>10 DEF done, k, s

\* clearCompounds: every compound to be tiled is packed by the sizes of its members.
LEMMA TileClear ==
  ASSUME LayoutInv, TileInv, clearCompounds
  PROVE  TileInv'
<1> DEFINE N == DOMAIN g.owner
<1>1. /\ GraphOK(g) /\ at = "clear" /\ at' = "layout" /\ d' = d /\ loc' = loc /\ groups' = groups
      /\ pruned' = pruned
      /\ g' = RemoveGraphs(g, ToBeTiled)
      /\ order' = CompoundOrder
      /\ packs' = Tilings(CompoundOrder)[Len(CompoundOrder)].packs
      /\ sizes' = Tilings(CompoundOrder)[Len(CompoundOrder)].sizes
  BY DEF LayoutInv, GraphInv, clearCompounds, ticking, Tilings
<1>2. /\ Whole(g) /\ Copied \subseteq N /\ Unset \notin N /\ loc \in Locations(N)
      /\ \A n \in N : ~IsCompound(g, n) => n \in DOMAIN sizes /\ Sized({n}, sizes)
      /\ \A p \in DOMAIN groups : Dummy(p) \in ToBeTiled
  BY <1>1 DEF TileInv, HomeInv, LocInv, Built
<1>3. /\ g'.owner = g.owner /\ DOMAIN g'.members = DOMAIN g.members \ ToBeTiled
      /\ \A q \in DOMAIN g.members \ ToBeTiled : g'.members[q] = g.members[q]
  BY <1>1 DEF RemoveGraphs
<1>4. Tiling([packs |-> packs', sizes |-> sizes'], ToBeTiled)
  <2> DEFINE last == Tilings(CompoundOrder)[Len(CompoundOrder)]
  <2>1. Tiling(last, ToBeTiled) /\ packs' = last.packs /\ sizes' = last.sizes
    BY <1>1, <1>2, AllTiled
  <2> HIDE DEF last
  <2> QED BY <2>1 DEF Tiling
<1>5. /\ DOMAIN packs' = ToBeTiled
      /\ \A c \in ToBeTiled : /\ Sized(g.members[c], sizes')
                              /\ Organized(packs'[c], g.members[c], sizes', PaddingOf(c))
                              /\ sizes'[c] = <<packs'[c].width, packs'[c].height>>
  BY <1>4 DEF Tiling
<1>6. ToBeTiled \subseteq N /\ \A c \in ToBeTiled : c \in DOMAIN g.members
  BY <1>1, TiledAreEdgeless DEF MayBeTiled, IsCompound
<1>7. /\ \A p \in DOMAIN g.members : \A n \in g.members[p] : n \in N /\ g.owner[n] = p
      /\ \A n \in N : g.owner[n] \in DOMAIN g.members /\ n \in g.members[g.owner[n]]
  BY <1>1, <1>2 DEF GraphOK, Whole
<1>8. \A c \in ToBeTiled : Owned(c)' = g.members[c]
  BY <1>3, <1>6, <1>7 DEF Owned
<1>9. PacksInv'
  <2>1. CompoundOrder \in Lists(ToBeTiled) /\ ToSet(CompoundOrder) = ToBeTiled /\ Inner(g.owner, CompoundOrder)
    BY <1>1, <1>2, OrderIsInner
  <2>2. /\ order' \in Lists(DOMAIN packs') /\ ToSet(order') = DOMAIN packs' /\ Inner(g'.owner, order')
        /\ \A p \in DOMAIN groups' : Dummy(p) \in DOMAIN packs'
        /\ DOMAIN packs' \subseteq DOMAIN g'.owner
    BY <1>1, <1>2, <1>3, <1>5, <1>6, <2>1
  <2>3. \A c \in DOMAIN packs' :
            /\ Sized(Owned(c)', sizes') /\ Organized(packs'[c], Owned(c)', sizes', PaddingOf(c))
            /\ sizes'[c] = <<packs'[c].width, packs'[c].height>>
    BY <1>5, <1>8
  <2> QED BY <2>2, <2>3 DEF PacksInv
<1>10. \A n \in N : g.owner[n] \in DOMAIN packs' \/ n \in AllNodes(g')
  <2> SUFFICES ASSUME NEW n \in N, g.owner[n] \notin ToBeTiled PROVE n \in AllNodes(g')
    BY <1>5
  <2>1. g.owner[n] \in DOMAIN g'.members /\ n \in g'.members[g.owner[n]]
    BY <1>3, <1>7
  <2> QED BY <2>1 DEF AllNodes
<1>11. HomeInv'
  <2>1. Copied' = Copied
    BY <1>1, SameDrawing
  <2> QED BY <1>1, <1>2, <1>3, <1>10, <2>1 DEF HomeInv, Built, Cleared
<1>12. LocInv'
  BY <1>1, <1>2, <1>3 DEF LocInv, Built, Cleared
<1> QED BY <1>9, <1>11, <1>12 DEF TileInv

------------------------------------------------------------------------------
(* Trees are pruned and grown, with the tiles packed.                       *)

\* While nothing is tiled or placed anew.
LEMMA PacksStay ==
  ASSUME TileInv, at \in Cleared, at' \in Cleared, UNCHANGED <<d, order, sizes, packs, groups>>,
         g'.owner = g.owner
  PROVE  /\ PacksInv' /\ Copied' \subseteq DOMAIN g'.owner /\ Unset \notin DOMAIN g'.owner
         /\ at' \notin Built /\ at' # "clear"
<1>1. \A c : Owned(c)' = Owned(c)
  BY DEF Owned
<1>2. PacksInv'
  BY <1>1 DEF TileInv, PacksInv
<1>3. Copied' = Copied
  BY SameDrawing
<1> QED BY <1>2, <1>3 DEF TileInv, HomeInv, Cleared, Built

\* classicLayout: nothing is packed or taken out.
LEMMA TileClassic ==
  ASSUME LayoutInv, LayoutInv', TileInv, classicLayout
  PROVE  TileInv'
<1>1. /\ at = "layout" /\ at' \in {"thrown", "reduce"} /\ at' \in Places
      /\ g' = RemoveEdges(g, InvalidEdges(g)) /\ pruned' = pruned /\ loc' = loc
      /\ UNCHANGED <<d, order, sizes, packs, groups>>
  BY DEF LayoutInv, classicLayout, tiling, ticking
<1>2. at' = "reduce" /\ at \in Cleared /\ at' \in Cleared
  BY <1>1 DEF Places, Cleared
<1>3. g'.owner = g.owner /\ AllNodes(g') = AllNodes(g)
  BY <1>1 DEF RemoveEdges, AllNodes
<1>4. PacksInv' /\ Copied' \subseteq DOMAIN g'.owner /\ Unset \notin DOMAIN g'.owner
  BY <1>1, <1>2, <1>3, PacksStay
<1>5. HomeInv'
  BY <1>1, <1>2, <1>3, <1>4 DEF TileInv, HomeInv, TakenOut, Built, Cleared
<1>6. LocInv'
  BY <1>1, <1>2, <1>3 DEF TileInv, LocInv, Built, Cleared
<1> QED BY <1>4, <1>5, <1>6 DEF TileInv

\* reduceTrees: a leaf that leaves its graph is kept with its round.
LEMMA TileReduce ==
  ASSUME LayoutInv, TileInv, reduce_step
  PROVE  TileInv'
<1>1. /\ at = "reduce" /\ at' = at /\ pruned' = Append(pruned, {Record(n) : n \in Pruned})
      /\ g' = RemoveNodes(g, Pruned) /\ loc' = loc
      /\ UNCHANGED <<d, order, sizes, packs, groups>>
  BY DEF reduce_step, tiling
<1>2. at \in Cleared /\ at' \in Cleared
  BY <1>1 DEF Cleared
<1>3. GraphOK(g)
  BY DEF LayoutInv, GraphInv
<1>4. g'.owner = g.owner /\ AllNodes(g') = AllNodes(g) \ Pruned
  BY <1>1, <1>3, Removals DEF RemoveNodes
<1>5. PacksInv' /\ Copied' \subseteq DOMAIN g'.owner /\ Unset \notin DOMAIN g'.owner
  BY <1>1, <1>2, <1>4, PacksStay
<1> DEFINE R == {Record(n) : n \in Pruned}
           k == Len(pruned)
<1>6. /\ k \in Nat /\ DOMAIN pruned = 1..k /\ DOMAIN pruned' = 1..k + 1
      /\ pruned'[k + 1] = R /\ \A i \in 1..k : pruned'[i] = pruned[i]
  <2>1. pruned \in Rounds(g)
    BY DEF LayoutInv, PrunedInv
  <2> DEFINE T == SUBSET [node : DOMAIN g.owner, edge : SUBSET DOMAIN g.owner, owner : DOMAIN g.members]
  <2>2. pruned \in Seq(T)
    BY <2>1 DEF Rounds
  <2> HIDE DEF T, R
  <2> QED BY <1>1, <2>2 DEF R
<1>7. \A n \in Pruned : TakenOut(n)'
  <2> SUFFICES ASSUME NEW n \in Pruned PROVE TakenOut(n)'
    OBVIOUS
  <2>1. Record(n) \in R /\ Record(n).node = n
    BY DEF Record
  <2>2. k + 1 \in DOMAIN pruned' /\ pruned'[k + 1] = R
    BY <1>6
  <2> HIDE DEF R
  <2> QED BY <2>1, <2>2 DEF TakenOut
<1>8. \A n : TakenOut(n) => TakenOut(n)'
  <2> SUFFICES ASSUME NEW n, NEW i \in DOMAIN pruned, NEW r \in pruned[i], r.node = n PROVE TakenOut(n)'
    BY DEF TakenOut
  <2>1. i \in DOMAIN pruned' /\ r \in pruned'[i]
    BY <1>6
  <2> QED BY <2>1 DEF TakenOut
<1>9. HomeInv'
  <2>1. \A n \in DOMAIN g'.owner : g'.owner[n] \in DOMAIN packs' \/ n \in AllNodes(g') \/ TakenOut(n)'
    BY <1>1, <1>2, <1>4, <1>7, <1>8 DEF TileInv, HomeInv
  <2> QED BY <1>1, <1>5, <2>1 DEF HomeInv, Built
<1>10. LocInv'
  BY <1>1, <1>4 DEF TileInv, LocInv, Built, Cleared
<1> QED BY <1>5, <1>9, <1>10 DEF TileInv

\* initSpringEmbedder: at least one iteration comes before the test of the last.
LEMMA TileSpring ==
  ASSUME LayoutInv, TileInv, initSpringEmbedder
  PROVE  TileInv'
<1>1. /\ at = "reduce" /\ at' = "tick" /\ g' = g /\ pruned' = pruned /\ loc' = loc
      /\ loop' = [NoLoop EXCEPT !.max = Larger(PerNode * Cardinality(getAllNodes), MAX_ITERATIONS)]
      /\ UNCHANGED <<d, order, sizes, packs, groups>>
  BY DEF initSpringEmbedder, tiling
<1>2. at \in Cleared /\ at' \in Cleared
  BY <1>1 DEF Cleared
<1>3. PacksInv' /\ Copied' \subseteq DOMAIN g'.owner /\ Unset \notin DOMAIN g'.owner
  BY <1>1, <1>2, PacksStay
<1>4. HomeInv'
  BY <1>1, <1>2, <1>3 DEF TileInv, HomeInv, TakenOut, Built, Cleared
<1>5. loop'.max > 1 /\ loop'.total = 0
  <2> DEFINE m == PerNode * Cardinality(getAllNodes)
  <2>1. m \in Nat
    <3>1. GraphOK(g) /\ getAllNodes = AllNodes(g)
      BY <1>1 DEF LayoutInv, GraphInv, ListsInv, getAllNodes, Listed
    <3>2. AllNodes(g) \in SUBSET DOMAIN g.owner /\ IsFiniteSet(DOMAIN g.owner)
      BY <3>1 DEF GraphOK, AllNodes
    <3>3. Cardinality(getAllNodes) \in Nat
      BY <3>1, <3>2, FS_Subset, FS_CardinalityType
    <3> QED BY <3>3, FcoseAssumption
  <2> HIDE DEF m
  <2>2. Larger(m, MAX_ITERATIONS) > 1
    BY <2>1, FcoseAssumption DEF Larger
  <2>3. loop'.max = Larger(m, MAX_ITERATIONS) /\ loop'.total = 0
    BY <1>1 DEF NoLoop, m
  <2> QED BY <2>2, <2>3
<1>6. LocInv'
  BY <1>1, <1>2, <1>5 DEF TileInv, LocInv, Built, Cleared
<1> QED BY <1>3, <1>4, <1>6 DEF TileInv

\* growTree: what was taken out in the last round is in the graph again.
LEMMA GrownAreBack ==
  ASSUME pruned \in Rounds(g), pruned # <<>>
  PROVE  /\ \A n \in AllNodes(g) : n \in AllNodes(growTree)
         /\ \A n : TakenOut(n) =>
               \/ n \in AllNodes(growTree)
               \/ \E i \in DOMAIN Front(pruned) : \E r \in Front(pruned)[i] : r.node = n
<1> DEFINE T == SUBSET [node : DOMAIN g.owner, edge : SUBSET DOMAIN g.owner, owner : DOMAIN g.members]
           k == Len(pruned)
           R == Last(pruned)
<1>1. pruned \in Seq(T)
  BY DEF Rounds
<1> HIDE DEF T
<1>2. /\ k \in Nat /\ k # 0 /\ DOMAIN pruned = 1..k
      /\ R = pruned[k] /\ R \in T
      /\ DOMAIN Front(pruned) = 1..k - 1 /\ \A i \in 1..k - 1 : Front(pruned)[i] = pruned[i]
  BY <1>1 DEF Last, Front
<1> HIDE DEF R
<1>3. \A p \in DOMAIN g.members :
         growTree.members[p] = g.members[p] \cup {r.node : r \in {r \in R : r.owner = p}}
  BY DEF growTree, AddBack, R
<1>4. DOMAIN growTree.members = DOMAIN g.members
  BY DEF growTree, AddBack
<1>5. \A n \in AllNodes(g) : n \in AllNodes(growTree)
  <2> HIDE DEF growTree
  <2> QED BY <1>3, <1>4 DEF AllNodes
<1>6. ASSUME NEW r \in R PROVE r.node \in AllNodes(growTree)
  <2>1. r.owner \in DOMAIN g.members
    BY <1>2 DEF T
  <2>2. r.node \in growTree.members[r.owner]
    BY <1>3, <2>1
  <2> HIDE DEF growTree
  <2> QED BY <1>4, <2>1, <2>2 DEF AllNodes
<1>7. ASSUME NEW n, NEW i \in DOMAIN pruned, NEW r \in pruned[i], r.node = n
      PROVE  \/ n \in AllNodes(growTree)
             \/ \E j \in DOMAIN Front(pruned) : \E q \in Front(pruned)[j] : q.node = n
  <2>1. CASE i = k
    BY <1>2, <1>6, <1>7, <2>1
  <2>2. CASE i # k
    <3>1. i \in 1..k - 1
      BY <1>2, <2>2
    <3> QED BY <1>2, <1>7, <3>1
  <2> QED BY <2>1, <2>2
<1> QED BY <1>5, <1>7 DEF TakenOut

\* tick: the first iteration moves all nodes, and a node grown back is put by another.
LEMMA TileTick ==
  ASSUME LayoutInv, LayoutInv', TileInv, tick
  PROVE  TileInv'
<1> DEFINE n == loop.total + 1
<1>1. PICK conv \in isConverged(n) :
         LET dec == Decide(n, conv)
             nodes == IF dec.grows THEN AllNodes(g') ELSE getAllNodes
         IN  /\ at' = IF dec.grows /\ \E r \in Last(pruned) : ~CanRegrow(r) THEN "thrown" ELSE "tick"
             /\ g' = IF dec.grows THEN growTree ELSE g
             /\ pruned' = IF dec.grows THEN Front(pruned) ELSE pruned
             /\ loc' = Moved(nodes)
             /\ loop' = Counted(n, dec)
             /\ ~dec.ends
  BY DEF tick
<1> DEFINE dec == Decide(n, conv)
<1>2. at = "tick" /\ UNCHANGED <<d, order, sizes, packs, groups>>
  BY DEF tick, tiling
<1>3. dec.grows \in BOOLEAN /\ (dec.grows => pruned # <<>>)
  BY <1>1, <1>2, Decisions DEF LayoutInv
<1>4. /\ GraphOK(g) /\ PrunedInv /\ EdgesInv /\ getAllNodes = AllNodes(g)
  BY <1>2 DEF LayoutInv, GraphInv, ListsInv, getAllNodes, Listed
<1> HIDE DEF dec
<1>5. /\ at' = "tick" /\ loc' = Moved(AllNodes(g')) /\ loop'.max = loop.max
      /\ dec.grows => g' = growTree /\ pruned' = Front(pruned)
      /\ ~dec.grows => g' = g /\ pruned' = pruned
  <2>1. at' # "thrown"
    BY DEF LayoutInv, Places
  <2>2. /\ at' = (IF dec.grows /\ \E r \in Last(pruned) : ~CanRegrow(r) THEN "thrown" ELSE "tick")
        /\ g' = (IF dec.grows THEN growTree ELSE g)
        /\ pruned' = (IF dec.grows THEN Front(pruned) ELSE pruned)
        /\ loc' = Moved(IF dec.grows THEN AllNodes(g') ELSE getAllNodes)
        /\ loop' = Counted(n, dec)
    BY <1>1 DEF dec
  <2>3. loop'.max = loop.max
    BY <2>2 DEF Counted
  <2> QED BY <1>3, <1>4, <2>1, <2>2, <2>3
<1>6. at \in Cleared /\ at' \in Cleared
  BY <1>2, <1>5 DEF Cleared
<1>7. g'.owner = g.owner
  <2>1. dec.grows => growTree.owner = g.owner
    BY <1>2, <1>3, <1>4, GrowingKeepsRounds
  <2> QED BY <1>3, <1>5, <2>1
<1>8. PacksInv' /\ Copied' \subseteq DOMAIN g'.owner /\ Unset \notin DOMAIN g'.owner
  BY <1>2, <1>6, <1>7, PacksStay
<1>9. HomeInv'
  <2>1. \A m \in DOMAIN g.owner : g.owner[m] \in DOMAIN packs \/ m \in AllNodes(g) \/ TakenOut(m)
    BY <1>6 DEF TileInv, HomeInv
  <2>2. CASE dec.grows
    <3>1. /\ \A m \in AllNodes(g) : m \in AllNodes(growTree)
          /\ \A m : TakenOut(m) =>
                \/ m \in AllNodes(growTree)
                \/ \E i \in DOMAIN Front(pruned) : \E r \in Front(pruned)[i] : r.node = m
      BY <1>3, <1>4, <2>2, GrownAreBack DEF PrunedInv
    <3> HIDE DEF growTree
    <3>2. \A m : TakenOut(m) => m \in AllNodes(g') \/ TakenOut(m)'
      BY <1>5, <2>2, <3>1 DEF TakenOut
    <3>3. \A m \in DOMAIN g'.owner : g'.owner[m] \in DOMAIN packs' \/ m \in AllNodes(g') \/ TakenOut(m)'
      BY <1>2, <1>5, <1>7, <2>1, <2>2, <3>1, <3>2
    <3> QED BY <1>5, <1>8, <3>3 DEF HomeInv, Built, Cleared
  <2>3. CASE ~dec.grows
    <3>1. \A m \in DOMAIN g'.owner : g'.owner[m] \in DOMAIN packs' \/ m \in AllNodes(g') \/ TakenOut(m)'
      BY <1>2, <1>5, <2>1, <2>3 DEF TakenOut
    <3> QED BY <1>5, <1>8, <3>1 DEF HomeInv, Built, Cleared
  <2> QED BY <1>3, <2>2, <2>3
<1>10. LocInv'
  <2> DEFINE N == DOMAIN g.owner
             R == [of : N \cup {Unset}, x : Nat, y : Nat]
             nodes == AllNodes(g')
  <2>1. loc \in [N -> R] /\ loop.max > 1 /\ Unset \notin N
    BY <1>2, <1>6 DEF TileInv, HomeInv, LocInv, Locations
  <2>2. nodes \subseteq N
    BY <1>7 DEF LayoutInv, GraphInv, GraphOK, AllNodes
  <2>3. \A m \in nodes : OwnPlace(m) \in R /\ OwnPlace(m).of = m
    BY <2>2 DEF OwnPlace
  <2>4. loc' = [m \in N |-> IF m \in nodes THEN OwnPlace(m) ELSE loc[m]]
    BY <1>5, <2>1 DEF Moved
  <2> HIDE DEF N, R, nodes
  <2>5. loc' \in [N -> R] /\ \A m \in nodes : loc'[m].of # Unset
    BY <2>1, <2>2, <2>3, <2>4
  <2>6. loc' \in Locations(DOMAIN g'.owner)
    BY <1>7, <2>5 DEF Locations, N, R
  <2> QED BY <1>5, <2>1, <2>5, <2>6 DEF LocInv, nodes
<1> QED BY <1>8, <1>9, <1>10 DEF TileInv

\* tick ends only after an iteration: no node in the graph is without a place.
LEMMA TileEnds ==
  ASSUME LayoutInv, TileInv, tick_ends
  PROVE  TileInv'
<1>1. /\ at = "tick" /\ at' = "tiles" /\ g' = g /\ pruned' = pruned /\ loc' = loc
      /\ UNCHANGED <<d, order, sizes, packs, groups>>
      /\ \E conv \in isConverged(loop.total + 1) : Decide(loop.total + 1, conv).ends
  BY DEF tick_ends, tiling
<1>2. at \in Cleared /\ at' \in Cleared
  BY <1>1 DEF Cleared
<1>3. PacksInv' /\ Copied' \subseteq DOMAIN g'.owner /\ Unset \notin DOMAIN g'.owner
  BY <1>1, <1>2, PacksStay
<1>4. HomeInv'
  BY <1>1, <1>2, <1>3 DEF TileInv, HomeInv, TakenOut, Built, Cleared
<1>5. loop.total \in Nat /\ loop.max > 1 /\ loop.max \in Nat
  BY <1>1 DEF LayoutInv, LoopInv, TileInv, LocInv
\* The first iteration does not end the layout.
<1>6. loop.total # 0
  <2> SUFFICES ASSUME loop.total = 0 PROVE FALSE
    OBVIOUS
  <2>1. ~loop.growing /\ ~loop.finished /\ loop.total + 1 = 1
    BY DEF LayoutInv, LoopInv
  <2>2. 1 % CheckPeriod # 0
    <3>1. 1 % CheckPeriod = 1
      BY FcoseAssumption, Remainders
    <3> QED BY <3>1
  <2>3. 1 # loop.max
    BY <1>5
  <2>4. PICK conv : Decide(1, conv).ends
    BY <1>1, <2>1
  <2> QED BY <2>1, <2>2, <2>3, <2>4 DEF Decide
<1>7. LocInv'
  BY <1>1, <1>2, <1>5, <1>6 DEF TileInv, LocInv, Built, Cleared
<1> QED BY <1>3, <1>4, <1>7 DEF TileInv

\* layoutPositions: every childless node on display was copied.
LEMMA OnDisplayAreCopied ==
  ASSUME d \in Drawings
  PROVE  Childless(d) \ d.hidden \subseteq Copied
<1> DEFINE N == d.nodes
           U == Up(d.parent)
<1>1. /\ IsDrawing(d) /\ Forest(d.parent) /\ DOMAIN d.parent = N
      /\ \A n \in N : d.parent[n] \in d.hidden => n \in d.hidden
  <2>1. IsDrawing(d) /\ Forest(d.parent)
    BY DrawingsAssumption
  <2> QED BY <2>1 DEF IsDrawing
<1>2. \A p, x \in N : x \in Inside(d, p) => \E c \in ChildrenOf(d, p) : x = c \/ x \in Inside(d, c)
  BY <1>1, InsideFacts
<1>3. \A n : Above(d, n) = U[n]
  BY <1>1, WaysUp
<1>4. \A n \in N : /\ d.parent[n] = Root => U[n] = {}
                   /\ d.parent[n] # Root => U[n] = {d.parent[n]} \cup U[d.parent[n]]
  <2>1. d.parent \in [DOMAIN d.parent -> DOMAIN d.parent \cup {Root}] /\ Root \notin DOMAIN d.parent
    BY <1>1 DEF Forest, IsDrawing
  <2> QED BY <1>1, <2>1, UpUnfolds
<1> HIDE DEF U
<1> DEFINE S == {x \in N : \A h \in d.hidden \cap U[x] : x \in d.hidden}
<1>5. S = N
  <2>1. ASSUME NEW x \in N, d.parent[x] = Root \/ d.parent[x] \in S, NEW h \in d.hidden \cap U[x]
        PROVE  x \in d.hidden
    <3>1. U[x] = {d.parent[x]} \cup U[d.parent[x]] /\ d.parent[x] \in S
      BY <1>4, <2>1
    <3>2. d.parent[x] \in d.hidden
      BY <2>1, <3>1
    <3> QED BY <1>1, <3>2
  <2>2. S \in SUBSET N /\ \A x \in N : d.parent[x] = Root \/ d.parent[x] \in S => x \in S
    BY <2>1
  <2> HIDE DEF S
  <2> QED BY <1>1, <2>2, ForestInduction
<1> SUFFICES ASSUME NEW n \in Childless(d) \ d.hidden, NEW p \in ParentsWithoutChildren(d), n \in Inside(d, p)
             PROVE  FALSE
  BY DEF Copied, Childless
<1>6. n \in N /\ n \notin d.hidden /\ p \in N /\ ChildrenOf(d, p) \subseteq d.hidden
  BY DEF Childless, ParentsWithoutChildren
<1>7. PICK c \in ChildrenOf(d, p) : n = c \/ n \in Inside(d, c)
  BY <1>2, <1>6
<1>8. c \in U[n] /\ c \in d.hidden
  BY <1>3, <1>6, <1>7 DEF Inside
<1> QED BY <1>5, <1>6, <1>8

\* layoutPositions: every childless node on display has the place of its copy.
LEMMA TilePlaces ==
  ASSUME LayoutInv, TileInv, layoutPositions
  PROVE  TileInv'
<1>1. /\ at = "place" /\ at' = "done" /\ g' = g /\ pruned' = pruned /\ loc' = loc
      /\ UNCHANGED <<d, order, sizes, packs, groups>>
      /\ placed' = [n \in (Childless(d) \ d.hidden) \cup ParentsWithoutChildren(d) |->
                       IF n \in DOMAIN loc THEN loc[n] ELSE Nowhere]
  BY DEF layoutPositions, tiling, ticking
<1>2. at \in Cleared /\ at' \in Cleared
  BY <1>1 DEF Cleared
<1>3. PacksInv' /\ Copied' \subseteq DOMAIN g'.owner /\ Unset \notin DOMAIN g'.owner
  BY <1>1, <1>2, PacksStay
<1>4. HomeInv'
  BY <1>1, <1>2, <1>3 DEF TileInv, HomeInv, TakenOut, Built, Cleared
<1>5. /\ loc \in Locations(DOMAIN g.owner) /\ Copied \subseteq DOMAIN g.owner
      /\ (\A c \in DOMAIN packs : AtOffsets(loc, c)) /\ \A n \in DOMAIN g.owner : loc[n].of # Unset
  BY <1>1, <1>2 DEF TileInv, HomeInv, LocInv
<1>6. \A n \in Childless(d) \ d.hidden : placed'[n].of # Unset
  <2>1. Childless(d) \ d.hidden \subseteq Copied
    BY OnDisplayAreCopied DEF LayoutInv, GraphInv
  <2>2. DOMAIN loc = DOMAIN g.owner
    BY <1>5 DEF Locations
  <2> QED BY <1>1, <1>5, <2>1, <2>2
<1>7. \A c \in DOMAIN packs' : AtOffsets(loc, c)'
  BY <1>1, <1>5 DEF AtOffsets, Owned
<1>8. LocInv'
  BY <1>1, <1>5, <1>6, <1>7 DEF LocInv, Built, Cleared
<1> QED BY <1>3, <1>4, <1>8 DEF TileInv

------------------------------------------------------------------------------
(* The tiles are placed.                                                    *)

\* The members packed are those owned, and their offsets are in the compound.
LEMMA OffsetsInside ==
  ASSUME PacksInv, at \in Cleared, NEW c \in DOMAIN packs
  PROVE  /\ Members(c) = Owned(c) /\ c \in DOMAIN g.owner
         /\ Sized(Owned(c), sizes) /\ WellPlaced(packs[c], Owned(c), sizes, PaddingOf(c))
         /\ packs[c].width \in Nat /\ packs[c].height \in Nat
         /\ sizes[c] = <<packs[c].width, packs[c].height>>
<1> DEFINE org == packs[c]
           S == Owned(c)
           pad == PaddingOf(c)
<1>1. /\ c \in DOMAIN g.owner /\ Sized(S, sizes) /\ Organized(org, S, sizes, pad)
      /\ sizes[c] = <<org.width, org.height>>
  BY DEF PacksInv
<1>2. pad \in Nat
  BY TileAssumption DEF PaddingOf
<1>3. Members(c) = UNION {ToSet(org.rows[r]) : r \in DOMAIN org.rows}
  BY DEF Members
<1> HIDE DEF org, S, pad
<1>4. UNION {ToSet(org.rows[r]) : r \in DOMAIN org.rows} = S /\ WellPlaced(org, S, sizes, pad)
  BY <1>1, <1>2, OrganizedIsPlaced
<1>5. org.width \in Nat /\ org.height \in Nat
  BY <1>1 DEF Organized, WidthsOK, HeightsOK
<1> QED BY <1>1, <1>3, <1>4, <1>5 DEF org, S, pad

\* adjustLocations of one compound: its members are placed with it, and no other
\* compound's that is not in it.
LEMMA OneAdjusted ==
  ASSUME GraphOK(g), PacksInv, at \in Cleared, NEW locs \in Locations(DOMAIN g.owner),
         NEW c \in DOMAIN packs
  PROVE  /\ Adjusted(locs, c) \in Locations(DOMAIN g.owner) /\ AtOffsets(Adjusted(locs, c), c)
         /\ \A e \in DOMAIN packs : e # c /\ g.owner[e] # c /\ AtOffsets(locs, e) => AtOffsets(Adjusted(locs, c), e)
         /\ \A n \in DOMAIN g.owner : g.owner[n] # c => Adjusted(locs, c)[n] = locs[n]
<1> DEFINE N == DOMAIN g.owner
           R == [of : N \cup {Unset}, x : Nat, y : Nat]
           by(n) == OffsetIn(packs[c], sizes, PaddingOf(c), n)
           new == Adjusted(locs, c)
           there(n) == [of |-> locs[c].of, x |-> locs[c].x + by(n)[1], y |-> locs[c].y + by(n)[2]]
<1>1. /\ Members(c) = Owned(c) /\ c \in N
      /\ \A n \in Owned(c) : by(n)[1] \in Nat /\ by(n)[2] \in Nat
  BY OffsetsInside DEF WellPlaced
<1>2. \A e \in DOMAIN packs : e \in N
  BY DEF PacksInv
<1>3. g.owner[c] # c
  <2>1. {c} \in (SUBSET N) \ {{}} /\ Forest(g.owner)
    BY <1>1 DEF GraphOK
  <2> QED BY <2>1 DEF Forest
<1>4. locs \in [N -> R] /\ DOMAIN locs = N
  BY DEF Locations
<1>5. new = [n \in N |-> IF n \in Owned(c) THEN there(n) ELSE locs[n]]
  BY <1>1, <1>4 DEF Adjusted
<1> HIDE DEF new, by
<1>6. \A n \in Owned(c) : there(n) \in R
  <2> SUFFICES ASSUME NEW n \in Owned(c) PROVE there(n) \in R
    OBVIOUS
  <2>1. locs[c] \in R
    BY <1>1, <1>4
  <2> QED BY <1>1, <2>1
<1> HIDE DEF R, there
<1>7. new \in [N -> R]
  BY <1>4, <1>5, <1>6
<1>8. /\ \A n \in Owned(c) : n \in N /\ new[n] = there(n)
      /\ \A n \in N : g.owner[n] # c => new[n] = locs[n]
  BY <1>5 DEF Owned
<1>9. new[c] = locs[c]
  BY <1>1, <1>3, <1>8
<1>10. AtOffsets(new, c)
  BY <1>8, <1>9 DEF AtOffsets, there, by
<1>11. ASSUME NEW e \in DOMAIN packs, e # c, g.owner[e] # c, AtOffsets(locs, e) PROVE AtOffsets(new, e)
  <2>1. new[e] = locs[e] /\ \A n \in Owned(e) : new[n] = locs[n]
    BY <1>2, <1>8, <1>11 DEF Owned
  <2> QED BY <1>11, <2>1 DEF AtOffsets
<1>12. new \in Locations(N)
  BY <1>7 DEF Locations, R
<1> QED BY <1>8, <1>10, <1>11, <1>12 DEF new

\* What AtOffsets says of one member.
LEMMA PlacedTogether ==
  ASSUME NEW locs, NEW c, AtOffsets(locs, c), NEW n \in Owned(c)
  PROVE  /\ locs[n].of = locs[c].of
         /\ locs[n].x = locs[c].x + OffsetIn(packs[c], sizes, PaddingOf(c), n)[1]
         /\ locs[n].y = locs[c].y + OffsetIn(packs[c], sizes, PaddingOf(c), n)[2]
<1> DEFINE by == OffsetIn(packs[c], sizes, PaddingOf(c), n)
<1>1. locs[n] = [of |-> locs[c].of, x |-> locs[c].x + by[1], y |-> locs[c].y + by[2]]
  BY DEF AtOffsets
<1> HIDE DEF by
<1>2. locs[n].of = locs[c].of /\ locs[n].x = locs[c].x + by[1] /\ locs[n].y = locs[c].y + by[2]
  BY <1>1
<1> QED BY <1>2 DEF by

\* tilingPostLayout, outer compounds first: every compound is where it stays when its
\* members are placed.
LEMMA TilePost ==
  ASSUME LayoutInv, TileInv, tilingPostLayout
  PROVE  TileInv'
<1> DEFINE N == DOMAIN g.owner
           C == DOMAIN packs
           T == Locations(N)
           D == {Dummy(p) : p \in DOMAIN groups}
           comps == SetToSeq(D) \o Reverse(order)
           k == Len(comps)
           Fit(f) == f = [i \in 0..k |-> IF i = 0 THEN loc ELSE Adjusted(f[i - 1], comps[i])]
           adjusted == CHOOSE f : Fit(f)
<1>1. /\ at = "tiles" /\ at' = "place" /\ g' = g /\ pruned' = pruned
      /\ UNCHANGED <<d, order, sizes, packs, groups>>
      /\ loc' = adjusted[k]
  BY DEF tilingPostLayout, tiling, ticking
<1> HIDE DEF adjusted
<1>2. at \in Cleared /\ at' \in Cleared
  BY <1>1 DEF Cleared
<1>3. GraphOK(g) /\ PacksInv /\ pruned = <<>>
  BY <1>1 DEF LayoutInv, GraphInv, PrunedInv, TileInv
<1>4. PacksInv' /\ Copied' \subseteq DOMAIN g'.owner /\ Unset \notin DOMAIN g'.owner
  BY <1>1, <1>2, PacksStay
<1>5. HomeInv'
  BY <1>1, <1>2, <1>4 DEF TileInv, HomeInv, TakenOut, Built, Cleared
<1>6. /\ loc \in T /\ \A n \in AllNodes(g) : loc[n].of # Unset
      /\ \A n \in N : g.owner[n] \in C \/ n \in AllNodes(g)
  BY <1>1, <1>2, <1>3 DEF TileInv, LocInv, HomeInv, TakenOut
<1>7. /\ order \in Lists(C) /\ ToSet(order) = C /\ Inner(g.owner, order) /\ C \subseteq N /\ D \subseteq C
  BY <1>2 DEF TileInv, PacksInv
<1> DEFINE a == Len(SetToSeq(D))
           m == Len(order)
<1>8. SetToSeq(D) \in Lists(C) /\ Reverse(order) \in Lists(C) /\ a \in Nat /\ m \in Nat
      /\ Len(Reverse(order)) = m /\ DOMAIN order = 1..m
      /\ \A i \in 1..m : Reverse(order)[i] = order[m - i + 1]
  <2>1. IsFiniteSet(D)
    <3>1. D \in SUBSET N /\ IsFiniteSet(N)
      BY <1>3, <1>7 DEF GraphOK
    <3> HIDE DEF D
    <3> QED BY <3>1, FS_Subset
  <2> DEFINE l == SetToSeq(D)
  <2> HIDE DEF D
  <2>2. l \in Lists(D)
    BY <2>1, ListingASet
  <2> HIDE DEF l
  <2>3. \A i \in DOMAIN l : l[i] \in C
    BY <1>7, <2>2, Listing
  <2> HIDE DEF C
  <2>4. l \in Lists(C) /\ Len(l) \in Nat
    BY <2>2, <2>3, Relisting, Listing
  <2>5. /\ Reverse(order) \in Lists(C) /\ Len(Reverse(order)) = m /\ m \in Nat /\ DOMAIN order = 1..m
        /\ \A i \in 1..m : Reverse(order)[i] = order[m - i + 1]
    BY <1>7, Reversing, Listing
  <2> QED BY <2>4, <2>5 DEF l
<1>9. /\ comps \in Lists(C) /\ k = a + m /\ k \in Nat /\ \A i \in 1..k : comps[i] \in C
      /\ \A i \in 1..m : comps[a + i] = order[m - i + 1]
  <2> DEFINE l == SetToSeq(D)
             r == Reverse(order)
  <2> HIDE DEF l, r, C
  <2>1. l \in Lists(C) /\ r \in Lists(C) /\ Len(l) = a /\ Len(r) = m /\ \A i \in 1..m : r[i] = order[m - i + 1]
    BY <1>8 DEF l, r
  <2>2. comps = l \o r
    BY DEF l, r
  <2>3. k = Len(comps) /\ a \in Nat /\ m \in Nat
    BY <1>8
  <2> HIDE DEF comps, k, a, m
  <2>4. /\ l \o r \in Lists(C) /\ Len(l \o r) = Len(l) + Len(r)
        /\ \A i \in 1..Len(r) : (l \o r)[Len(l) + i] = r[i]
    <3>1. l \in Lists(C) /\ r \in Lists(C)
      BY <2>1
    <3> QED BY <3>1, Joining
  <2>5. comps \in Lists(C) /\ Len(comps) = a + m /\ \A i \in 1..m : comps[a + i] = r[i]
    BY <2>1, <2>2, <2>4
  <2>6. DOMAIN comps = 1..k /\ \A i \in DOMAIN comps : comps[i] \in C
    BY <2>3, <2>5, Listing
  <2> QED BY <2>1, <2>3, <2>5, <2>6
<1> HIDE DEF a, m, comps, k
\* The recursion.
<1> DEFINE next == [x \in T \X (1..k) |-> Adjusted(x[1], comps[x[2]])]
<1>10. \A locs \in T : \A c \in C :
          /\ Adjusted(locs, c) \in T /\ AtOffsets(Adjusted(locs, c), c)
          /\ \A e \in C : e # c /\ g.owner[e] # c /\ AtOffsets(locs, e) => AtOffsets(Adjusted(locs, c), e)
          /\ \A n \in N : g.owner[n] # c => Adjusted(locs, c)[n] = locs[n]
  BY <1>2, <1>3, OneAdjusted
<1> HIDE DEF T, C, N
<1>11. next \in Steps(T, k) /\ \A locs \in T : \A i \in 1..k : next[<<locs, i>>] = Adjusted(locs, comps[i])
  BY <1>9, <1>10 DEF Steps
<1> HIDE DEF next
<1>12. PICK f : f \in Computations(T, k, loc, next)
  BY <1>6, <1>9, <1>11, Iteration
<1>13. f \in [0..k -> T] /\ f[0] = loc /\ \A i \in 1..k : f[i] = Adjusted(f[i - 1], comps[i])
  <2>1. f \in [0..k -> T] /\ f[0] = loc /\ \A i \in 1..k : f[i] = next[<<f[i - 1], i>>]
    BY <1>12 DEF Computations
  <2>2. \A i \in 1..k : f[i - 1] \in T
    <3>1. \A i \in 1..k : i - 1 \in 0..k
      BY <1>9
    <3> QED BY <2>1, <3>1
  <2> QED BY <1>11, <2>1, <2>2
<1>14. Fit(f)
  <2>1. f = [i \in 0..k |-> f[i]]
    BY <1>13
  <2>2. \A i \in 0..k : f[i] = IF i = 0 THEN loc ELSE Adjusted(f[i - 1], comps[i])
    <3> SUFFICES ASSUME NEW i \in 0..k, i # 0 PROVE f[i] = Adjusted(f[i - 1], comps[i])
      BY <1>13
    <3>1. i \in 1..k
      BY <1>9
    <3> QED BY <1>13, <3>1
  <2> QED BY <2>1, <2>2
<1>15. Fit(adjusted)
  <2> HIDE DEF Fit
  <2> QED BY <1>14 DEF adjusted
<1> DEFINE u == adjusted
<1>16. \A i \in 0..k : u[i] = IF i = 0 THEN loc ELSE Adjusted(u[i - 1], comps[i])
  BY <1>15
<1> HIDE DEF Fit, u
\* When a compound's members are placed, it stays if none around it is adjusted after.
<1> DEFINE Settled(i, c) == \E j \in 1..i : comps[j] = c /\ \A l \in 1..i : l > j => comps[l] # g.owner[c]
           Good(i) == /\ u[i] \in T
                      /\ \A c \in C : Settled(i, c) => AtOffsets(u[i], c)
                      /\ \A n \in N : g.owner[n] \notin C => u[i][n] = loc[n]
           S == {i \in 0..k : Good(i)}
<1>17. 0 \in S
  <2>1. 0 \in 0..k /\ u[0] = loc /\ 1..0 = {}
    BY <1>9, <1>16
  <2> QED BY <1>6, <2>1
<1>18. ASSUME NEW i \in 1..k, i - 1 \in S PROVE i \in S
  <2> DEFINE c == comps[i]
             locs == u[i - 1]
  <2>1. i \in 0..k /\ c \in C /\ u[i] = Adjusted(locs, c)
    <3>1. i \in 0..k /\ i # 0
      BY <1>9
    <3> QED BY <1>9, <1>16, <3>1
  <2>2. /\ locs \in T /\ (\A e \in C : Settled(i - 1, e) => AtOffsets(locs, e))
        /\ \A n \in N : g.owner[n] \notin C => locs[n] = loc[n]
    BY <1>18
  <2>3. ASSUME NEW e \in C, Settled(i, e), e # c PROVE Settled(i - 1, e) /\ g.owner[e] # c
    <3>1. PICK j \in 1..i : comps[j] = e /\ \A l \in 1..i : l > j => comps[l] # g.owner[e]
      BY <2>3
    <3>2. j # i /\ j \in 1..i - 1 /\ i > j /\ i \in 1..i
      BY <1>9, <2>3, <3>1
    <3>3. \A l \in 1..i - 1 : l \in 1..i
      BY <1>9
    <3> QED BY <3>1, <3>2, <3>3
  <2> HIDE DEF c, locs, Settled
  <2>4. /\ u[i] \in T /\ AtOffsets(u[i], c)
        /\ \A e \in C : e # c /\ g.owner[e] # c /\ AtOffsets(locs, e) => AtOffsets(u[i], e)
        /\ \A n \in N : g.owner[n] # c => u[i][n] = locs[n]
    BY <1>10, <2>1, <2>2
  <2>5. \A e \in C : Settled(i, e) => AtOffsets(u[i], e)
    BY <2>2, <2>3, <2>4
  <2>6. \A n \in N : g.owner[n] \notin C => u[i][n] = loc[n]
    BY <2>1, <2>2, <2>4
  <2> QED BY <2>1, <2>4, <2>5, <2>6
<1>19. Good(k)
  <2>1. \A i \in 0..k : i \in S
    <3> HIDE DEF S
    <3> QED BY <1>9, <1>17, <1>18, UpTo
  <2>2. k \in 0..k
    BY <1>9
  <2> HIDE DEF Good
  <2> QED BY <2>1, <2>2
\* The reversed order has every compound after those around it.
<1>20. ASSUME NEW c \in C PROVE Settled(k, c)
  <2>1. PICK b \in 1..m : order[b] = c
    BY <1>7, <1>8 DEF ToSet
  <2> DEFINE i == m - b + 1
             j == a + i
  <2>2. i \in 1..m /\ m - i + 1 = b /\ j \in 1..k
    BY <1>8, <1>9
  <2>3. comps[j] = c
    BY <1>9, <2>1, <2>2
  <2>4. ASSUME NEW l \in 1..k, l > j, comps[l] = g.owner[c] PROVE FALSE
    <3> DEFINE x == l - a
               q == m - x + 1
    <3>1. x \in 1..m /\ l = a + x /\ q \in 1..m /\ q < b
      BY <1>8, <1>9, <2>2, <2>4
    <3>2. order[q] = g.owner[order[b]]
      <4> HIDE DEF x
      <4>1. comps[a + x] = order[q]
        BY <1>9, <3>1
      <4> QED BY <2>1, <2>4, <3>1, <4>1
    <3>3. b < q
      BY <1>7, <1>8, <3>1, <3>2 DEF Inner
    <3> QED BY <1>8, <3>1, <3>3
  <2> HIDE DEF j
  <2> QED BY <2>2, <2>3, <2>4
<1>21. /\ loc' \in T /\ \A c \in C : AtOffsets(loc', c)
       /\ \A n \in N : g.owner[n] \notin C => loc'[n] = loc[n]
  <2>1. loc' = u[k]
    BY <1>1 DEF u
  <2> HIDE DEF Settled
  <2> QED BY <1>19, <1>20, <2>1
<1>22. \A c \in C : \A n \in Owned(c) : loc'[n].of = loc'[c].of
  BY <1>21, PlacedTogether
<1>23. \A n \in N : loc'[n].of # Unset
  <2> DEFINE Q == {n \in N : loc'[n].of # Unset}
  <2>1. ASSUME NEW n \in N, g.owner[n] = Root \/ g.owner[n] \in Q PROVE n \in Q
    <3>1. CASE g.owner[n] \in C
      <4>1. g.owner[n] \in Q
        BY <1>3, <1>7, <2>1, <3>1 DEF GraphOK, N
      <4>2. n \in Owned(g.owner[n])
        BY DEF Owned, N
      <4>3. loc'[n].of = loc'[g.owner[n]].of
        BY <1>22, <3>1, <4>2
      <4> QED BY <4>1, <4>3
    <3>2. CASE g.owner[n] \notin C
      BY <1>6, <1>21, <3>2
    <3> QED BY <3>1, <3>2
  <2>2. Q \in SUBSET N /\ \A n \in N : g.owner[n] = Root \/ g.owner[n] \in Q => n \in Q
    BY <2>1
  <2>3. Forest(g.owner) /\ N = DOMAIN g.owner
    BY <1>3 DEF GraphOK, N
  <2> HIDE DEF Q
  <2>4. Q = N
    BY <2>2, <2>3, ForestInduction
  <2> QED BY <2>4 DEF Q
<1>24. \A c \in DOMAIN packs' : AtOffsets(loc, c)'
  BY <1>1, <1>21 DEF AtOffsets, Owned, C
<1>25. LocInv'
  BY <1>1, <1>21, <1>23, <1>24 DEF LocInv, Built, Cleared, T, N
<1> QED BY <1>4, <1>5, <1>25 DEF TileInv

\* Every step keeps the tiles right.
LEMMA TileNext == LayoutInv /\ LayoutInv' /\ TileInv /\ [Next]_vars => TileInv'
<1> SUFFICES ASSUME LayoutInv, LayoutInv', TileInv, [Next]_vars PROVE TileInv'
  OBVIOUS
<1>1. CASE spectralLayout \/ next_pivot \/ powerIteration \/ relayout
  <2>1. at' \in {"run", "sample", "copy"}
    BY <1>1 DEF spectralLayout, next_pivot, powerIteration, relayout
  <2> QED BY <2>1 DEF TileInv, HomeInv, PacksInv, LocInv, Built, Cleared
<1>2. CASE copy
  BY <1>2, TileCopy
<1>3. CASE groupZeroDegreeMembers
  BY <1>3, TileGroup
<1>4. CASE clearCompounds
  BY <1>4, TileClear
<1>5. CASE classicLayout
  BY <1>5, TileClassic
<1>6. CASE reduce_step
  BY <1>6, TileReduce
<1>7. CASE initSpringEmbedder
  BY <1>7, TileSpring
<1>8. CASE tick
  BY <1>8, TileTick
<1>9. CASE tick_ends
  BY <1>9, TileEnds
<1>10. CASE tilingPostLayout
  BY <1>10, TilePost
<1>11. CASE layoutPositions
  BY <1>11, TilePlaces
<1>12. CASE UNCHANGED vars
  <2>1. UNCHANGED <<at, d, g, groups, order, sizes, packs, pruned, loop, loc, placed>>
    BY <1>12 DEF vars, tiling, ticking
  <2>2. Copied' = Copied
    BY <2>1, SameDrawing
  <2>3. HomeInv'
    <3>1. ToBeTiled' = ToBeTiled
      BY <2>1 DEF ToBeTiled, Edgeless, EdgesAt
    <3> QED BY <2>1, <2>2, <3>1 DEF TileInv, HomeInv, TakenOut
  <2>4. PacksInv'
    BY <2>1 DEF TileInv, PacksInv, Owned
  <2>5. LocInv'
    <3>1. \A c : AtOffsets(loc, c)' = AtOffsets(loc, c)
      BY <2>1 DEF AtOffsets, Owned
    <3> QED BY <2>1, <3>1 DEF TileInv, LocInv
  <2> QED BY <2>3, <2>4, <2>5 DEF TileInv
<1> QED BY <1>1, <1>2, <1>3, <1>4, <1>5, <1>6, <1>7, <1>8, <1>9, <1>10, <1>11, <1>12 DEF Next, steps

\* In every state what is tiled is where its packing says.
LEMMA TileInvariant == Spec => []TileInv
<1>1. Init => TileInv
  BY DEF Init, TileInv, HomeInv, PacksInv, LocInv, Built, Cleared
<1> QED BY <1>1, LayoutInvariant, TileNext, PTL DEF Spec

------------------------------------------------------------------------------
(* Theorems.                                                                *)

\* layout-base.js: edges join two nodes in graphs, a node's owner is the graph that
\* lists it, and tick's counters stay in their bounds.
THEOREM LayoutTyped == Spec => []TypeOK
<1>1. LayoutInv => TypeOK
  <2> SUFFICES ASSUME LayoutInv PROVE TypeOK
    OBVIOUS
  <2>1. GraphOK(g) /\ at \in Places /\ LoopInv
    BY DEF LayoutInv, GraphInv
  <2>2. ASSUME NEW e \in g.edges PROVE Cardinality(e) = 2 /\ e \subseteq AllNodes(g)
    <3>1. PICK a, b \in e : a # b /\ e = {a, b}
      BY <2>1 DEF GraphOK
    <3>2. Cardinality({a, b}) = 2
      BY <3>1, Pairs
    <3> QED BY <2>1, <3>1, <3>2 DEF GraphOK
  <2>3. \A p \in DOMAIN g.members : \A n \in g.members[p] : g.owner[n] = p
    BY <2>1 DEF GraphOK
  <2>4. loop.after \in 0..CoolSteps + 1 /\ loop.grow \in 0..GrowPeriod - 1 /\ loop.total =< loop.max
    BY <2>1 DEF LoopInv
  <2> QED BY <2>1, <2>2, <2>3, <2>4 DEF TypeOK, Places
<1> QED BY <1>1, LayoutInvariant, PTL

\* No assertion of LGraph.add fails and no edge is without a depth, whatever the
\* drawing and however it is pruned: runLayout does not throw.
THEOREM NothingIsThrown == Spec => []NothingThrown
<1>1. LayoutInv => NothingThrown
  BY DEF LayoutInv, Places, NothingThrown
<1> QED BY <1>1, LayoutInvariant, PTL

\* LGraphManager: the lists of nodes, of edges and of nodes subject to gravity are
\* those of the graph as it is, and the springs are long where an edge leaves its graph.
THEOREM ListsAreFresh == Spec => []ListsFresh
<1>1. LayoutInv => ListsFresh
  <2> SUFFICES ASSUME LayoutInv PROVE ListsFresh
    OBVIOUS
  <2>1. at \in {"tick", "tiles"} =>
            \A e \in AllEdges(g) : e \in DOMAIN lengths /\ (lengths[e] > 0 <=> isInterGraph(g, e))
    BY DEF LayoutInv, EdgesInv, AllEdges
  <2> QED BY <2>1 DEF LayoutInv, ListsInv, ListsFresh
<1> QED BY <1>1, LayoutInvariant, PTL

\* calcRepulsionForces: in every iteration the neighbours of every node are known.
THEOREM SurroundingsAreKnown == Spec => []SurroundingsKnown
<1>1. LayoutInv => SurroundingsKnown
  BY DEF LayoutInv
<1> QED BY <1>1, LayoutInvariant, PTL

\* reduceTrees and growTree: every edge laid out is back in the graph, though it was
\* taken out with its leaf, and went back only after the nodes at both its ends.
THEOREM EdgesComeBack == Spec => []EdgesBack
<1>1. LayoutInv => EdgesBack
  <2> SUFFICES ASSUME LayoutInv, at = "done" PROVE pruned = <<>> /\ AllEdges(g) = LaidOut
    BY DEF EdgesBack, LaidOut
  <2>1. pruned = <<>>
    BY DEF LayoutInv, PrunedInv
  <2>2. DOMAIN pruned = {}
    BY <2>1
  <2>3. {r.edge : r \in UNION {pruned[i] : i \in DOMAIN pruned}} = {}
    BY <2>2
  <2>4. /\ g.edges \cup {r.edge : r \in UNION {pruned[i] : i \in DOMAIN pruned}} = DOMAIN lengths
        /\ DOMAIN lengths = LaidOut
    BY DEF LayoutInv, EdgesInv, SourceInv
  <2> QED BY <2>1, <2>3, <2>4 DEF AllEdges
<1> QED BY <1>1, LayoutInvariant, PTL

\* spectralLayout: in the transformed graph of any drawing a search from any node reaches
\* every node, so the matrix of distances has no gaps, and the greedy choice of pivots
\* takes none twice: powerIteration is never given what it would not end with.
THEOREM ColumnsAreUsable == Spec => []ColumnsUsable
<1>1. SampleInv => ColumnsUsable
  <2> SUFFICES ASSUME SampleInv, at = "sample"
               PROVE  /\ \A i, j \in DOMAIN pivots : pivots[i] = pivots[j] => i = j
                      /\ \A i \in DOMAIN pivots : DOMAIN Distances(near, pivots[i]) = DOMAIN near
    BY DEF ColumnsUsable
  <2>1. /\ d \in Drawings /\ near = Neighborhood(d) /\ pivots \in Seq(DOMAIN near)
        /\ \A i, j \in DOMAIN pivots : pivots[i] = pivots[j] => i = j
    BY DEF SampleInv
  <2>2. IsDrawing(d) /\ Forest(d.parent)
    BY <2>1, DrawingsAssumption
  <2>3. \A i \in DOMAIN pivots : pivots[i] \in DOMAIN near
    BY <2>1
  <2> QED BY <2>1, <2>2, <2>3, SearchesAreComplete
<1> QED BY <1>1, SampleInvariant, PTL

\* growTree, clearCompounds and tilingPostLayout: whatever was taken out of the graph,
\* packed or pruned, is found again at the end, and no childless node on display is left
\* without a place of this layout.
THEOREM NothingIsLost == Spec => []NothingLost
<1>1. LayoutInv /\ TileInv => NothingLost
  <2> SUFFICES ASSUME LayoutInv, TileInv PROVE NothingLost
    OBVIOUS
  <2>1. NothingThrown
    BY DEF LayoutInv, Places, NothingThrown
  <2>2. ASSUME at = "done"
        PROVE  /\ Copied \subseteq AllNodes(g) \cup UNION {Members(c) : c \in DOMAIN packs}
               /\ \A n \in Childless(d) \ d.hidden : placed[n].of # Unset
    <3>1. at \in Cleared /\ pruned = <<>>
      BY <2>2 DEF Cleared, LayoutInv, PrunedInv
    <3>2. ASSUME NEW n \in Copied, n \notin AllNodes(g) PROVE \E c \in DOMAIN packs : n \in Members(c)
      <4>1. n \in DOMAIN g.owner /\ g.owner[n] \in DOMAIN packs
        BY <3>1, <3>2 DEF TileInv, HomeInv, TakenOut
      <4>2. Members(g.owner[n]) = Owned(g.owner[n])
        BY <3>1, <4>1, OffsetsInside DEF TileInv
      <4> QED BY <4>1, <4>2 DEF Owned
    <3>3. \A n \in Childless(d) \ d.hidden : placed[n].of # Unset
      BY <2>2 DEF TileInv, LocInv
    <3> QED BY <3>2, <3>3
  <2> QED BY <2>1, <2>2 DEF NothingLost
<1> QED BY <1>1, LayoutInvariant, TileInvariant, PTL

\* tileNodes and adjustLocations: whatever the sizes, and however deep compounds lie in
\* tiled compounds, the members of one end up inside it and side by side.
THEOREM TilesLieInside == Spec => []TilesInside
<1>1. TileInv => TilesInside
  <2> SUFFICES ASSUME TileInv, at = "place", NEW c \in DOMAIN packs, NEW n \in Members(c)
               PROVE  /\ loc[n].of = loc[c].of
                      /\ loc[c].x =< loc[n].x /\ loc[n].x + Width(sizes[n]) =< loc[c].x + Width(sizes[c])
                      /\ loc[c].y =< loc[n].y /\ loc[n].y + Height(sizes[n]) =< loc[c].y + Height(sizes[c])
                      /\ \A m \in Members(c) \ {n} :
                            \/ loc[m].x + Width(sizes[m]) =< loc[n].x \/ loc[n].x + Width(sizes[n]) =< loc[m].x
                            \/ loc[m].y + Height(sizes[m]) =< loc[n].y \/ loc[n].y + Height(sizes[n]) =< loc[m].y
    BY DEF TilesInside
  <2> DEFINE by(m) == OffsetIn(packs[c], sizes, PaddingOf(c), m)
             W(m) == Width(sizes[m])
             H(m) == Height(sizes[m])
  <2>1. /\ Members(c) = Owned(c) /\ c \in DOMAIN g.owner
        /\ Sized(Owned(c), sizes) /\ WellPlaced(packs[c], Owned(c), sizes, PaddingOf(c))
        /\ packs[c].width \in Nat /\ packs[c].height \in Nat
        /\ sizes[c] = <<packs[c].width, packs[c].height>>
    BY OffsetsInside DEF TileInv, Cleared
  <2>2. /\ loc[c].x \in Nat /\ loc[c].y \in Nat /\ W(c) = packs[c].width /\ H(c) = packs[c].height
    BY <2>1 DEF TileInv, LocInv, Locations, Cleared, Width, Height
  <2>3. \A m \in Owned(c) : /\ loc[m].of = loc[c].of
                            /\ loc[m].x = loc[c].x + by(m)[1] /\ loc[m].y = loc[c].y + by(m)[2]
    BY PlacedTogether DEF TileInv, LocInv
  <2>4. \A m \in Owned(c) :
           /\ W(m) \in Nat /\ H(m) \in Nat /\ by(m)[1] \in Nat /\ by(m)[2] \in Nat
           /\ by(m)[1] + W(m) =< W(c) /\ by(m)[2] + H(m) =< H(c)
           /\ \A q \in Owned(c) \ {m} :
                 \/ by(q)[1] + W(q) =< by(m)[1] \/ by(m)[1] + W(m) =< by(q)[1]
                 \/ by(q)[2] + H(q) =< by(m)[2] \/ by(m)[2] + H(m) =< by(q)[2]
    BY <2>1, <2>2 DEF WellPlaced, Sized
  <2> HIDE DEF by
  <2>5. /\ loc[n].of = loc[c].of
        /\ loc[c].x =< loc[n].x /\ loc[n].x + W(n) =< loc[c].x + W(c)
        /\ loc[c].y =< loc[n].y /\ loc[n].y + H(n) =< loc[c].y + H(c)
    <3>1. /\ W(n) \in Nat /\ H(n) \in Nat /\ by(n)[1] \in Nat /\ by(n)[2] \in Nat
          /\ by(n)[1] + W(n) =< W(c) /\ by(n)[2] + H(n) =< H(c)
          /\ loc[n].of = loc[c].of
          /\ loc[n].x = loc[c].x + by(n)[1] /\ loc[n].y = loc[c].y + by(n)[2]
          /\ W(c) \in Nat /\ H(c) \in Nat
      BY <2>1, <2>2, <2>3, <2>4
    <3> HIDE DEF W, H
    <3> QED BY <2>2, <3>1
  <2>6. ASSUME NEW m \in Owned(c) \ {n}
        PROVE  \/ loc[m].x + W(m) =< loc[n].x \/ loc[n].x + W(n) =< loc[m].x
               \/ loc[m].y + H(m) =< loc[n].y \/ loc[n].y + H(n) =< loc[m].y
    <3>1. /\ W(n) \in Nat /\ H(n) \in Nat /\ by(n)[1] \in Nat /\ by(n)[2] \in Nat
          /\ W(m) \in Nat /\ H(m) \in Nat /\ by(m)[1] \in Nat /\ by(m)[2] \in Nat
          /\ loc[n].x = loc[c].x + by(n)[1] /\ loc[n].y = loc[c].y + by(n)[2]
          /\ loc[m].x = loc[c].x + by(m)[1] /\ loc[m].y = loc[c].y + by(m)[2]
      BY <2>1, <2>3, <2>4
    <3>2. \/ by(m)[1] + W(m) =< by(n)[1] \/ by(n)[1] + W(n) =< by(m)[1]
          \/ by(m)[2] + H(m) =< by(n)[2] \/ by(n)[2] + H(n) =< by(m)[2]
      BY <2>1, <2>4
    <3> HIDE DEF W, H
    <3> QED BY <2>2, <3>1, <3>2
  <2> QED BY <2>1, <2>5, <2>6
<1> QED BY <1>1, TileInvariant, PTL
=============================================================================
