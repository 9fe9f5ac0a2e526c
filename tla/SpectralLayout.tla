--------------------------- MODULE SpectralLayout ---------------------------
(***************************************************************************)
(* What the spectral stage of fcose computes of a drawing before its       *)
(* linear algebra (cytoscape-fcose.js: auxiliary and spectralLayout).      *)
(*                                                                         *)
(* A drawing is a record of the nodes in it, the parent of each (or Root), *)
(* the edges by id with their two ends, and the elements not displayed.    *)
(*                                                                         *)
(* The drawing is transformed into a plain graph: the childless nodes, a   *)
(* compound standing at one of the nodes inside it, and a dummy node for   *)
(* every level in pieces, joined to each piece.  Breadth-first searches    *)
(* from sampled nodes give the columns of the distance matrix.             *)
(***************************************************************************)
EXTENDS LayoutGraph, Sequences, SequencesExt

\* The nodes are a forest, with edges between them; a parent not displayed hides what
\* is in it.
IsDrawing(d) ==
    /\ IsFiniteSet(d.nodes) /\ IsFiniteSet(DOMAIN d.ends) /\ DOMAIN d.parent = d.nodes
    /\ d.ends \in [DOMAIN d.ends -> d.nodes \X d.nodes]
    /\ Root \notin d.nodes /\ \A p \in d.nodes \cup {Root} : Dummy(p) \notin d.nodes \cup {Root}
    /\ \A n \in d.nodes : d.parent[n] \in d.hidden => n \in d.hidden

ChildrenOf(d, p) == {n \in d.nodes : d.parent[n] = p}
isParent(d, n) == ChildrenOf(d, n) # {}
Childless(d) == {n \in d.nodes : ~isParent(d, n)}
Above(d, n) ==
    LET above[m \in d.nodes] ==
            IF d.parent[m] = Root THEN {} ELSE {d.parent[m]} \cup above[d.parent[m]]
    IN  above[n]
Inside(d, p) == {m \in d.nodes : p \in Above(d, m)}
Degree(d, n) == Cardinality({e \in DOMAIN d.ends : \E i \in 1..2 : d.ends[e][i] = n})
Swapped(pair) == <<pair[2], pair[1]>>
Links(d) == UNION {{d.ends[e], Swapped(d.ends[e])} : e \in DOMAIN d.ends}

\* calcParentsWithoutChildren: parents with no child on display
ParentsWithoutChildren(d) ==
    {p \in d.nodes : isParent(d, p) /\ ChildrenOf(d, p) \subseteq d.hidden}

------------------------------------------------------------------------------
\* connectComponents: the pieces the top-most nodes of level p fall into, along
\* edges between them and what is inside them.
Pieces(d, p) ==
    LET level == ChildrenOf(d, p)
        member(n) == level \cap ({n} \cup Above(d, n))
        links == UNION {member(l[1]) \X member(l[2]) : l \in Links(d)}
    IN  {Reach({n}, [m \in level |-> {o \in level : <<m, o>> \in links}]) : n \in level}

\* The node of a piece with the fewest edges is joined to the level's dummy.
Joined(d, piece) == CHOOSE n \in piece : \A m \in piece : Degree(d, n) <= Degree(d, m)

JoinedAt(d, p) == {<<Dummy(p), Joined(d, piece)>> : piece \in Pieces(d, p)}

\* mutant: the levels inside compounds are not connected
DummyEdges_of_top(d) == IF Cardinality(Pieces(d, Root)) > 1 THEN JoinedAt(d, Root) ELSE {}

\* dummyNodes: of the levels in pieces, the outermost and that of every parent
DummyEdges(d) ==
    UNION {JoinedAt(d, p) : p \in {p \in {Root} \cup d.nodes : Cardinality(Pieces(d, p)) > 1}}

\* parentChildMap: the node a compound stands at, a childless one with the
\* fewest edges on the first level below that has one.
StandsAt(d, n) ==
    LET first[p \in {p \in d.nodes : isParent(d, p)}] ==
            LET leaves == ChildrenOf(d, p) \cap Childless(d)
            IN  IF leaves = {} THEN first[CHOOSE c \in ChildrenOf(d, p) : TRUE]
                ELSE Joined(d, leaves)
    IN  IF n \in d.nodes /\ isParent(d, n) THEN first[n] ELSE n

\* nodeIndexes and allNodesNeighborhood of the transformed graph
Neighborhood(d) ==
    LET dummies == DummyEdges(d)
        indexed == Childless(d) \cup {j[1] : j \in dummies}
        links == {<<StandsAt(d, l[1]), StandsAt(d, l[2])>> :
                     l \in Links(d) \cup dummies \cup {Swapped(j) : j \in dummies}}
    IN  [v \in indexed |-> {w \in indexed : <<v, w>> \in links}]

------------------------------------------------------------------------------
\* BFS: the distances from a pivot; a node it does not reach gets none.
Distances(near, pivot) ==
    LET dist[i \in 0..Cardinality(DOMAIN near)] ==
            IF i = 0 THEN [v \in {pivot} |-> 0]
            ELSE LET before == dist[i - 1]
                 IN  [v \in DOMAIN before \cup UNION {near[w] : w \in DOMAIN before} |->
                         IF v \in DOMAIN before THEN before[v] ELSE i]
    IN  dist[Cardinality(DOMAIN near)]

\* minDistancesColumn: the least distance to a pivot sampled so far
MinDistance(near, pivots) ==
    LET columns == {Distances(near, pivots[i]) : i \in DOMAIN pivots}
    IN  [v \in DOMAIN near |->
            LET to == {c[v] : c \in {c \in columns : v \in DOMAIN c}}
            IN  IF to = {} THEN Cardinality(DOMAIN near) \* infinity
                ELSE CHOOSE x \in to : \A y \in to : x <= y]

\* The greedy choice of the next pivot: any of the farthest nodes stands for the
\* first of them.
Farthest(near, pivots) ==
    LET least == MinDistance(near, pivots)
    IN  {v \in DOMAIN near : \A w \in DOMAIN near : least[w] <= least[v]}
=============================================================================
