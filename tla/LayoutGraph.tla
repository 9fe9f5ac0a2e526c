---------------------------- MODULE LayoutGraph ----------------------------
(***************************************************************************)
(* The compound graph the layout works on (layout-base.js: LEdge, LNode,   *)
(* LGraph, LGraphManager), as operators on a value.                        *)
(*                                                                         *)
(* A graph value holds                                                     *)
(*   members  the manager's graphs: the node whose child graph it is, or   *)
(*            Root, -> the nodes in its list.  A node has a child graph    *)
(*            (node.child) exactly if it is in the domain;                 *)
(*   owner    node -> node.owner, kept when the node is taken out;         *)
(*   edges    the edge lists of all graphs and of the manager: an edge is  *)
(*            the set of its two ends, for the transfer keeps one edge     *)
(*            between two nodes.                                           *)
(***************************************************************************)
EXTENDS Integers, FiniteSets, TLC

CONSTANTS Root   \* the graph of the manager's root

\* A table of parents in which every way up ends at the root.
Forest(parent) ==
    /\ parent \in [DOMAIN parent -> DOMAIN parent \cup {Root}]
    /\ \A S \in (SUBSET DOMAIN parent) \ {{}} : \E n \in S : parent[n] \notin S

\* The compound made for the edgeless members of a graph.
Dummy(p) == <<"DummyCompound", p>>

\* addRoot
NewManager == [members |-> [p \in {Root} |-> {}], owner |-> <<>>, edges |-> {}]

AllNodes(g) == UNION {g.members[p] : p \in DOMAIN g.members}
AllEdges(g) == g.edges
IsCompound(g, n) == n \in DOMAIN g.members
EdgesAt(g, n) == {e \in g.edges : n \in e}
OtherEnd(e, n) == CHOOSE m \in e : m # n
isInterGraph(g, e) == Cardinality({g.owner[n] : n \in e}) = 2

\* The compounds around a node, up to the root graph (getParent).
Ancestors(g, n) ==
    LET up[m \in DOMAIN g.owner] ==
            IF g.owner[m] = Root THEN {} ELSE {g.owner[m]} \cup up[g.owner[m]]
    IN  up[n]

withChildren(g, n) == {m \in AllNodes(g) : m = n \/ n \in Ancestors(g, m)}

------------------------------------------------------------------------------
\* A record of a node taken out with its only edge: [node, edge, owner].  LGraph.add
\* of the node and of the edge, and what they assert.
CanAddBack(g, r) ==
    /\ r.owner \in DOMAIN g.members /\ r.node \notin g.members[r.owner]
    /\ r.edge \ {r.node} \subseteq g.members[r.owner]

\* mutant: the nodes come back without their edges
AddBack_nodes(g, R) ==
    [g EXCEPT !.members = [p \in DOMAIN g.members |->
                              g.members[p] \cup {r.node : r \in {r \in R : r.owner = p}}]]

AddBack(g, R) ==
    [members |-> [p \in DOMAIN g.members |->
                     g.members[p] \cup {r.node : r \in {r \in R : r.owner = p}}],
     owner |-> [n \in DOMAIN g.owner \cup {r.node : r \in R} |->
                   IF n \in {r.node : r \in R} THEN (CHOOSE r \in R : r.node = n).owner
                   ELSE g.owner[n]],
     edges |-> g.edges \cup {r.edge : r \in R}]

\* LGraph.remove of the nodes of S; a node takes its edges with it.
RemoveNodes(g, S) ==
    [members |-> [p \in DOMAIN g.members |-> g.members[p] \ {n \in S : g.owner[n] = p}],
     owner |-> g.owner,
     edges |-> {e \in g.edges : e \cap S = {}}]

\* LGraphManager.remove of the graphs of P: their edges, their nodes, the graphs.
RemoveGraphs(g, P) ==
    [members |-> [q \in DOMAIN g.members \ P |-> g.members[q]],
     owner |-> g.owner,
     edges |-> {e \in g.edges : \A p \in P : e \cap g.members[p] = {}}]

RemoveEdges(g, E) == [members |-> g.members, owner |-> g.owner, edges |-> g.edges \ E]

------------------------------------------------------------------------------
\* What is reached from the nodes of S, if to[n] are the nodes after n.
Reach(S, to) ==
    LET step[i \in 0..Cardinality(DOMAIN to)] ==
            IF i = 0 THEN S
            ELSE LET before == step[i - 1] IN before \cup UNION {to[n] : n \in before}
    IN  step[Cardinality(DOMAIN to)]

\* getOtherEndInGraph: the member of graph p that is or holds the other end;
\* none if the way up ends at the root first.
OtherEndInGraph(g, e, n, p) ==
    LET other == OtherEnd(e, n)
    IN  g.members[p] \cap ({other} \cup Ancestors(g, other))

\* updateConnected: the search from a first node finds all members of graph p.
IsConnected(g, p) ==
    LET to == [m \in g.members[p] |->
                  UNION {UNION {OtherEndInGraph(g, e, n, p) : e \in EdgesAt(g, n)} :
                            n \in withChildren(g, m)}]
    IN  g.members[p] = {} \/ Reach({CHOOSE m \in g.members[p] : TRUE}, to) = g.members[p]

\* calculateNodesToApplyGravitationTo: the nodes of the graphs in pieces.
NodesWithGravity(g) ==
    UNION {g.members[p] : p \in {p \in DOMAIN g.members : ~IsConnected(g, p)}}

\* includesInvalidEdge drops the edges between a node and a compound around it.
InvalidEdges(g) ==
    {e \in g.edges : isInterGraph(g, e) /\ \E n \in e : OtherEnd(e, n) \in Ancestors(g, n)}

------------------------------------------------------------------------------
\* calcInclusionTreeDepths: 1 in the root graph; a graph has the depth of its
\* compound, and the root graph that of its nodes (getInclusionTreeDepth).
Depth(g, n) == Cardinality(Ancestors(g, n)) + 1
GraphDepth(g, p) == IF p = Root THEN 1 ELSE Depth(g, p)

\* calcLowestCommonAncestors: the innermost graph both ends of e are in, or inside.
LowestCommon(g, e) ==
    LET common == {p \in DOMAIN g.owner : \A n \in e : p \in Ancestors(g, n)}
    IN  IF common = {} THEN Root
        ELSE CHOOSE p \in common : \A q \in common \ {p} : q \in Ancestors(g, p)

\* calcIdealEdgeLengths lengthens an edge between graphs by the levels between its
\* ends and that graph.
LevelsCrossed(g, e) ==
    LET n == CHOOSE n \in e : TRUE
    IN  IF isInterGraph(g, e)
        THEN Depth(g, n) + Depth(g, OtherEnd(e, n)) - 2 * GraphDepth(g, LowestCommon(g, e))
        ELSE 0
=============================================================================
