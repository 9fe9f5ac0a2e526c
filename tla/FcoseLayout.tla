---------------------------- MODULE FcoseLayout ----------------------------
(***************************************************************************)
(* The layout of the topology page: cytoscape-fcose.js (Layout.run,        *)
(* coseLayout) over cose-base.js and layout-base.js, with the options      *)
(* topology.js gives it (quality "default", randomize, tile, no animation, *)
(* no constraint, and no packing: the page does not load that extension).  *)
(*                                                                         *)
(* A run samples the drawing, copies it into a compound graph, packs what  *)
(* has no edges into tiles, prunes the trees, moves the rest by forces     *)
(* until it is still, grows the trees back, and places the nodes.          *)
(* Coordinates are abstract: forces either move the nodes visibly or do    *)
(* not, and only the offsets of tiles in their compound are numbers.       *)
(***************************************************************************)
EXTENDS SpectralLayout, TileRows

CONSTANTS Drawings,        \* the drawings a layout may be run on
          SampleSize,      \* options.sampleSize
          MAX_ITERATIONS,  \* numIter
          PerNode,         \* iterations allowed for each node
          CheckPeriod,     \* CONVERGENCE_CHECK_PERIOD
          GridPeriod,      \* GRID_CALCULATION_CHECK_PERIOD
          GrowPeriod,      \* iterations between two steps of growth
          CoolSteps,       \* iterations after growth till the cooling factor is 0
          LeafSize,        \* node -> its width and height
          Unset            \* what is not computed yet

ASSUME DrawingsAssumption ==
    /\ \A dr \in Drawings : IsDrawing(dr) /\ Unset \notin dr.nodes
    /\ \A p \in {Root} \cup UNION {dr.nodes : dr \in Drawings} : Dummy(p) # Unset
    /\ \A n \in UNION {dr.nodes : dr \in Drawings} : LeafSize[n] \in Nat \X Nat
    /\ \A parent \in {dr.parent : dr \in Drawings} : Forest(parent)

ASSUME FcoseAssumption ==
    /\ SampleSize \in Nat \ {0} /\ MAX_ITERATIONS \in Nat \ {0, 1} /\ PerNode \in Nat
    /\ CheckPeriod \in Nat \ {0, 1} /\ GridPeriod \in Nat \ {0, 1}
    /\ GrowPeriod \in Nat \ {0, 1} /\ CoolSteps \in Nat \ {0}

VARIABLES
    at,       \* what the run does next
    d,        \* the drawing
    near,     \* allNodesNeighborhood
    pivots,   \* samplesColumn
    g,        \* the graph manager's graphs
    all,      \* its lists [nodes, edges, gravity]: allNodes, allEdges,
              \*   allNodesToApplyGravitation
    heavy,    \* nodesWithGravity
    lengths,  \* edge -> the levels its ideal length counts, from the time it is found
    groups,   \* memberGroups: parent -> the edgeless members in its dummy
    order,    \* compoundOrder
    sizes,    \* node -> rect.width and height, of leaves and tiled compounds
    packs,    \* tiledMemberPack: compound -> organization
    pruned,   \* prunedNodesAll
    loop,     \* [total, max, grow, after, growing, finished]: the counters of tick
    still,    \* the last iteration moved the nodes by less than the threshold
    grid,     \* the nodes in the grid
    seen,     \* the nodes whose surrounding is known
    loc,      \* node -> [of, x, y]: its corner, from that of node of;
              \*   of is Unset until the layout has moved or placed it
    placed    \* node of the drawing -> loc handed to the drawing

spectral == <<near, pivots>>
tiling == <<groups, order, sizes, packs>>
ticking == <<pruned, loop, still, grid, seen>>
weights == <<heavy, lengths>>
vars == <<at, d, spectral, g, all, weights, tiling, ticking, loc, placed>>

\* A node that the layout has not placed.
Nowhere == [of |-> Unset, x |-> 0, y |-> 0]
NoLists == [nodes |-> Unset, edges |-> Unset, gravity |-> Unset]
NoLoop == [total |-> 0, max |-> 0, grow |-> 0, after |-> 0, growing |-> FALSE, finished |-> FALSE]

Init ==
    /\ at = "run" /\ d \in Drawings
    /\ near = <<>> /\ pivots = <<>>
    /\ g = NewManager /\ all = NoLists /\ heavy = {} /\ lengths = <<>>
    /\ groups = <<>> /\ order = <<>> /\ sizes = <<>> /\ packs = <<>>
    /\ pruned = <<>> /\ loop = NoLoop /\ still = TRUE /\ grid = {} /\ seen = {}
    /\ loc = <<>> /\ placed = <<>>

\* getAllNodes and getAllEdges fill their list when it is not there.
Listed(list, actual) == IF list = Unset THEN actual ELSE list
getAllNodes == Listed(all.nodes, AllNodes(g))
getAllEdges == Listed(all.edges, AllEdges(g))

------------------------------------------------------------------------------
(* Layout.run and spectralLayout.                                           *)

spectralLayout ==
    /\ at = "run"
    /\ near' = Neighborhood(d)
    /\ IF Cardinality(DOMAIN near') > 2
       THEN at' = "sample" /\ \E v \in DOMAIN near' : pivots' = <<v>>
       ELSE at' = "copy" /\ pivots' = <<>>
    /\ UNCHANGED <<d, g, all, weights, tiling, ticking, loc, placed>>

Sampled == Len(pivots) = (IF Cardinality(DOMAIN near) < SampleSize
                          THEN Cardinality(DOMAIN near) ELSE SampleSize)

\* allBFS: the search from the last pivot chooses the next.
next_pivot ==
    /\ at = "sample" /\ ~Sampled
    /\ pivots' = Append(pivots, CHOOSE v \in Farthest(near, pivots) : TRUE)
    /\ UNCHANGED <<at, d, near, g, all, weights, tiling, ticking, loc, placed>>

\* sample and powerIteration: with a distance missing the matrix holds NaN, and
\* the loop that waits for the ratio of two norms to settle does not end.
powerIteration ==
    /\ at = "sample" /\ Sampled
    /\ \A i \in DOMAIN pivots : DOMAIN Distances(near, pivots[i]) = DOMAIN near
    /\ at' = "copy" /\ near' = <<>> /\ pivots' = <<>>
    /\ UNCHANGED <<d, g, all, weights, tiling, ticking, loc, placed>>

\* The nodes processChildrenList comes to, from the top, not going below a parent
\* with no child on display.
Copied == {n \in d.nodes : \A p \in ParentsWithoutChildren(d) : n \notin Inside(d, p)}

\* The edges processEdges adds: between two nodes copied, and one of each pair.
CopiedEdges ==
    {{d.ends[e][1], d.ends[e][2]} :
        e \in {e \in DOMAIN d.ends : d.ends[e][1] # d.ends[e][2]
                                     /\ {d.ends[e][1], d.ends[e][2]} \subseteq Copied}}

\* coseLayout, up to runLayout
copy ==
    /\ at = "copy" /\ at' = "group"
    /\ LET opened == {p \in Copied : isParent(d, p)} \ ParentsWithoutChildren(d)
       IN  /\ g' = [members |-> [p \in {Root} \cup opened |-> ChildrenOf(d, p)],
                    owner |-> [n \in Copied |-> d.parent[n]],
                    edges |-> CopiedEdges]
           /\ sizes' = [n \in Copied \ opened |-> LeafSize[n]]
    /\ loc' = [n \in Copied |-> Nowhere]
    /\ UNCHANGED <<d, spectral, all, weights, groups, order, packs, ticking, placed>>

------------------------------------------------------------------------------
(* tilingPreLayout.                                                         *)

Edgeless(n) == EdgesAt(g, n) = {}

\* getToBeTiled: a compound whose children have no edge, and so all the way down.
\* What is remembered of a node stays true of it.
ToBeTiled ==
    LET tiled[n \in DOMAIN g.owner] ==
            /\ IsCompound(g, n)
            /\ \A c \in g.members[n] : Edgeless(c) /\ (IsCompound(g, c) => tiled[c])
    IN  {n \in DOMAIN g.owner : tiled[n]}

\* The nodes of graph p without an edge at them or inside them.
ZeroDegree(p) ==
    IF p \in ToBeTiled THEN {}
    ELSE {n \in g.members[p] : \A m \in withChildren(g, n) : Edgeless(m)}

\* Two or more of them go into a compound of their own; the list of all nodes was
\* made before.
groupZeroDegreeMembers ==
    /\ at = "group" /\ at' = "clear"
    /\ groups' = [p \in {p \in DOMAIN g.members : Cardinality(ZeroDegree(p)) > 1} |-> ZeroDegree(p)]
    /\ LET dummies == {Dummy(p) : p \in DOMAIN groups'}
       IN  /\ g' = [g EXCEPT
                !.members = [q \in DOMAIN g.members \cup dummies |->
                    IF q \in dummies THEN groups'[q[2]]
                    ELSE IF q \in DOMAIN groups' THEN (g.members[q] \ groups'[q]) \cup {Dummy(q)}
                    ELSE g.members[q]],
                !.owner = [n \in DOMAIN g.owner \cup dummies |->
                    IF n \in dummies THEN n[2]
                    ELSE IF g.owner[n] \in DOMAIN groups' /\ n \in groups'[g.owner[n]]
                         THEN Dummy(g.owner[n])
                    ELSE g.owner[n]]]
           /\ loc' = [n \in DOMAIN loc \cup dummies |->
                         IF n \in dummies THEN Nowhere ELSE loc[n]]
    /\ all' = [all EXCEPT !.nodes = getAllNodes]
    /\ UNCHANGED <<d, spectral, weights, order, sizes, packs, ticking, placed>>

\* performDFSOnCompounds: the compounds to be tiled, inner ones first
CompoundOrder ==
    LET below[p \in DOMAIN g.members] ==
            LET list == SetToSeq(g.members[p])
            IN  FlattenSeq([i \in DOMAIN list |->
                    (IF IsCompound(g, list[i]) THEN below[list[i]] ELSE <<>>)
                    \o (IF list[i] \in ToBeTiled THEN <<list[i]>> ELSE <<>>)])
    IN  below[Root]

\* A dummy has the padding of its parent, and the root has none.
PaddingOf(c) == IF c = Dummy(Root) THEN 0 ELSE Padding

\* tileCompoundMembers: a compound has its size when it is tiled itself.
Tiled(done, c) ==
    LET org == tileNodes(g.members[c], done.sizes, PaddingOf(c))
    IN  [packs |-> [n \in DOMAIN done.packs \cup {c} |-> IF n = c THEN org ELSE done.packs[n]],
         sizes |-> [n \in DOMAIN done.sizes \cup {c} |->
                       IF n = c THEN <<org.width, org.height>> ELSE done.sizes[n]]]

\* clearCompounds takes the graphs of the compounds in the order, which are all there
\* are to be tiled; clearZeroDegreeMembers tiles the dummies again.
clearCompounds ==
    /\ at = "clear" /\ at' = "layout"
    /\ order' = CompoundOrder
    /\ LET done[i \in 0..Len(order')] ==
               IF i = 0 THEN [packs |-> <<>>, sizes |-> sizes] ELSE Tiled(done[i - 1], order'[i])
           last == done[Len(order')]
       IN  packs' = last.packs /\ sizes' = last.sizes
    /\ g' = RemoveGraphs(g, ToBeTiled)
    /\ all' = [all EXCEPT !.nodes = Unset]
    /\ UNCHANGED <<d, spectral, weights, groups, ticking, loc, placed>>

------------------------------------------------------------------------------
(* classicLayout and reduceTrees.                                           *)

\* checkLayoutSuccess drops the edges into a node's own compounds; then the nodes
\* subject to gravity are found, the lists of nodes and edges made, and the ideal
\* lengths of edges; a node not in the root graph or below has no depth, and an
\* edge there throws.
classicLayout ==
    /\ at = "layout"
    /\ g' = RemoveEdges(g, InvalidEdges(g))
    /\ heavy' = NodesWithGravity(g')
    /\ LET edges == Listed(all.edges, AllEdges(g'))
           thrown == \E e \in edges : ~(e \subseteq AllNodes(g'))
       IN  /\ at' = IF thrown THEN "thrown" ELSE "reduce"
           /\ all' = [nodes |-> getAllNodes, edges |-> edges, gravity |-> heavy']
           /\ lengths' = IF thrown THEN <<>> ELSE [e \in edges |-> LevelsCrossed(g', e)]
    /\ UNCHANGED <<d, spectral, tiling, ticking, loc, placed>>

\* A node with one edge, to a node of its graph, and no children.
Leaves ==
    {n \in getAllNodes : /\ Cardinality(EdgesAt(g, n)) = 1 /\ ~IsCompound(g, n)
                         /\ \A e \in EdgesAt(g, n) : ~isInterGraph(g, e)}

\* mutant: both of two leaves joined to each other
Pruned_unchecked == Leaves

\* Of two leaves joined to each other the second has no edge any more.
Pruned == {n \in Leaves : \A m \in Leaves : {m, n} \in g.edges => n = (CHOOSE x \in {m, n} : TRUE)}

Record(n) == [node |-> n, edge |-> CHOOSE e \in EdgesAt(g, n) : TRUE, owner |-> g.owner[n]]

\* mutant: only the list of nodes is dropped
reduce_step_keeping_edges ==
    /\ at = "reduce" /\ Leaves # {}
    /\ pruned' = Append(pruned, {Record(n) : n \in Pruned})
    /\ g' = RemoveNodes(g, Pruned)
    /\ all' = [all EXCEPT !.nodes = Unset]
    /\ UNCHANGED <<at, d, spectral, weights, tiling, loop, still, grid, seen, loc, placed>>

\* One round of reduceTrees.
reduce_step ==
    /\ at = "reduce" /\ Leaves # {}
    /\ pruned' = Append(pruned, {Record(n) : n \in Pruned})
    /\ g' = RemoveNodes(g, Pruned)
    /\ all' = [all EXCEPT !.nodes = Unset, !.edges = Unset]
    /\ UNCHANGED <<at, d, spectral, weights, tiling, loop, still, grid, seen, loc, placed>>

\* setAllNodesToApplyGravitation of those found at first that are in the graph
ApplyGravitation(nodes) == heavy \cap nodes

\* No leaf is left: gravity is for the nodes left, and the embedder begins.
initSpringEmbedder ==
    /\ at = "reduce" /\ Leaves = {} /\ at' = "tick"
    /\ all' = [all EXCEPT !.nodes = getAllNodes, !.gravity = ApplyGravitation(getAllNodes)]
    /\ loop' = [NoLoop EXCEPT !.max = Larger(PerNode * Cardinality(getAllNodes), MAX_ITERATIONS)]
    /\ UNCHANGED <<d, spectral, g, weights, tiling, pruned, still, grid, seen, loc, placed>>

------------------------------------------------------------------------------
(* runSpringEmbedder: tick until it says that the layout has ended.         *)

\* mutant: the growth goes on with nothing left to grow
allGrown_never == FALSE

\* Nothing is left to grow back: the growth is finished at its next turn.
allGrown == pruned = <<>>

\* What isConverged may say at iteration n: the last moves were too small, or,
\* after a third of the iterations, as large as those before.
isConverged(n) == {still} \cup (IF 3 * n > loop.max THEN {TRUE} ELSE {})

\* The decisions of tick at its beginning, given the answer of isConverged.
Decide(n, conv) ==
    LET embedding == ~loop.growing /\ ~loop.finished
        last == n = loop.max /\ embedding
        check == n % CheckPeriod = 0 /\ embedding /\ ~(last /\ pruned # <<>>)
        done == last \/ (check /\ conv)
        growing == loop.growing \/ (done /\ pruned # <<>>)
        turn == growing /\ loop.grow = 0
        stops == turn /\ allGrown
    IN  [ends |-> (done /\ pruned = <<>>) \/ ((loop.finished \/ stops) /\ conv),
         grows |-> turn /\ pruned # <<>>,
         growing |-> growing /\ ~stops,
         counted |-> growing,
         finished |-> loop.finished \/ stops]

\* growTree sets the records of the last round back: a node is put beside its
\* neighbour in the grid, into its graph, and then its edge into the graph.  It
\* throws if the neighbour is not there, or at an assertion of LGraph.add.
CanRegrow(r) == OtherEnd(r.edge, r.node) \in getAllNodes /\ CanAddBack(g, r)

growTree == AddBack(g, Last(pruned))

\* mutant: the cooling factor does not reach 0
CoolingFactor_floor(k) == CoolSteps + 1 - k

\* The cooling factor is that of the growth, and sinks to 0 after it.
CoolingFactor(k) == CoolSteps - k

\* A step of the counters after the decisions dec; they are kept small where only
\* a remainder or a bound is asked of them.
Counted(n, dec) ==
    [total |-> IF n > loop.max THEN loop.max ELSE n,
     max |-> loop.max,
     grow |-> IF dec.counted THEN (loop.grow + 1) % GrowPeriod ELSE loop.grow,
     after |-> IF dec.finished /\ loop.after <= CoolSteps + 1 THEN loop.after + 1 ELSE loop.after,
     growing |-> dec.growing, finished |-> dec.finished]

\* mutant: the iterations of growth do not force the search
SeesAnew_unforced(n, dec) == n % GridPeriod = 1 /\ ~dec.growing /\ ~dec.finished

\* calcRepulsionForces looks for the neighbours of every node anew, in the grid,
\* every few iterations, and in the iterations that grew the graph.
SeesAnew(n, dec) ==
    LET c == Counted(n, dec)
    IN  \/ n % GridPeriod = 1 /\ ~dec.growing /\ ~dec.finished
        \/ dec.growing /\ c.grow = 1
        \/ dec.finished /\ c.after % GrowPeriod = 1

GridAnew(n, dec) ==
    \/ dec.grows
    \/ dec.finished /\ loop.after % GrowPeriod = 0
    \/ n % GridPeriod = 1 /\ ~dec.growing /\ ~dec.finished

\* What calcRepulsionForces knows after the iteration: it looks in the grid only.
Seen(n, dec, nodes) == IF SeesAnew(n, dec) THEN nodes \cap grid' ELSE seen

\* Springs, repulsion and gravity are numbers; of their sum the layout asks whether
\* the move was a small one, as it is when the cooling factor is 0.
Stillness(dec) == IF dec.finished /\ CoolingFactor(loop.after) = 0 THEN {TRUE} ELSE BOOLEAN

\* CoSENode.move: where the forces put it, not beside another node.
OwnPlace(m) == [of |-> m, x |-> 0, y |-> 0]

\* moveNodes
Moved(nodes) == [m \in DOMAIN loc |-> IF m \in nodes THEN OwnPlace(m) ELSE loc[m]]

\* An iteration that moves the nodes of the list of all nodes.
tick ==
    /\ at = "tick"
    /\ LET n == loop.total + 1
           thrown(dec) == dec.grows /\ \E r \in Last(pruned) : ~CanRegrow(r)
       IN  \E conv \in isConverged(n) :
             LET dec == Decide(n, conv)
             IN  /\ ~dec.ends
                 /\ at' = IF thrown(dec) THEN "thrown" ELSE "tick"
                 /\ g' = IF dec.grows THEN growTree ELSE g
                 /\ pruned' = IF dec.grows THEN Front(pruned) ELSE pruned
                 /\ LET nodes == IF dec.grows THEN AllNodes(g') ELSE getAllNodes
                    IN  /\ all' = [nodes |-> nodes,
                                   edges |-> IF dec.grows THEN AllEdges(g') ELSE getAllEdges,
                                   gravity |-> IF dec.grows THEN ApplyGravitation(nodes) ELSE all.gravity]
                        /\ grid' = IF GridAnew(n, dec) THEN nodes ELSE grid
                        /\ seen' = Seen(n, dec, nodes)
                        /\ loc' = Moved(nodes)
                 /\ loop' = Counted(n, dec)
                 /\ still' \in Stillness(dec)
    /\ UNCHANGED <<d, spectral, weights, tiling, placed>>

\* tick returns true; the counters are not read again.
tick_ends ==
    /\ at = "tick" /\ at' = "tiles"
    /\ \E conv \in isConverged(loop.total + 1) : Decide(loop.total + 1, conv).ends
    /\ loop' = NoLoop /\ still' = TRUE /\ grid' = {} /\ seen' = {}
    /\ UNCHANGED <<d, spectral, g, all, weights, tiling, pruned, loc, placed>>

------------------------------------------------------------------------------
(* tilingPostLayout and the end of Layout.run.                              *)

Members(c) == UNION {ToSet(packs[c].rows[r]) : r \in DOMAIN packs[c].rows}

\* adjustLocations of the members of c by the corner of c
Adjusted(at_, c) ==
    [n \in DOMAIN at_ |->
        IF n \in Members(c)
        THEN LET by == OffsetIn(packs[c], sizes, PaddingOf(c), n)
             IN  [of |-> at_[c].of, x |-> at_[c].x + by[1], y |-> at_[c].y + by[2]]
        ELSE at_[n]]

\* repopulateZeroDegreeMembers, then repopulateCompounds, outer ones first
tilingPostLayout ==
    /\ at = "tiles" /\ at' = "place"
    /\ LET compounds == SetToSeq({Dummy(p) : p \in DOMAIN groups}) \o Reverse(order)
           adjusted[i \in 0..Len(compounds)] ==
               IF i = 0 THEN loc ELSE Adjusted(adjusted[i - 1], compounds[i])
       IN  loc' = adjusted[Len(compounds)]
    /\ UNCHANGED <<d, spectral, g, all, weights, tiling, ticking, placed>>

\* relocateComponent moves every node alike; the childless nodes on display, and
\* the parents drawn without children, are given their places, or keep them.
layoutPositions ==
    /\ at = "place" /\ at' = "done"
    /\ placed' = [n \in (Childless(d) \ d.hidden) \cup ParentsWithoutChildren(d) |->
                     IF n \in DOMAIN loc THEN loc[n] ELSE Nowhere]
    /\ UNCHANGED <<d, spectral, g, all, weights, tiling, ticking, loc>>

\* The Re-layout button makes a new layout of the same drawing.
relayout ==
    /\ at = "done" /\ at' = "run"
    /\ g' = NewManager /\ all' = NoLists /\ heavy' = {} /\ lengths' = <<>>
    /\ groups' = <<>> /\ order' = <<>> /\ sizes' = <<>> /\ packs' = <<>>
    /\ pruned' = <<>> /\ loop' = NoLoop /\ still' = TRUE /\ grid' = {} /\ seen' = {}
    /\ loc' = <<>> /\ placed' = <<>>
    /\ UNCHANGED <<d, spectral>>

steps ==
    \/ spectralLayout \/ next_pivot \/ powerIteration \/ copy
    \/ groupZeroDegreeMembers \/ clearCompounds
    \/ classicLayout \/ reduce_step \/ initSpringEmbedder
    \/ tick \/ tick_ends
    \/ tilingPostLayout \/ layoutPositions

Next == steps \/ relayout

\* The run is one call, and the browser does nothing else on the page until it ends:
\* weak fairness of its steps, with what enables one of them written out.
canStep ==
    /\ at \notin {"done", "thrown"}
    /\ at = "sample" /\ Sampled =>
           \A i \in DOMAIN pivots : DOMAIN Distances(near, pivots[i]) = DOMAIN near
Fairness == []<>~canStep \/ []<><<steps>>_vars

Spec == Init /\ [][Next]_vars /\ Fairness

------------------------------------------------------------------------------
(* Properties.                                                              *)

TypeOK ==
    /\ at \in {"run", "sample", "copy", "group", "clear", "layout", "reduce", "tick", "tiles",
               "place", "done", "thrown"}
    /\ \A e \in g.edges : Cardinality(e) = 2 /\ e \subseteq AllNodes(g)
    /\ \A p \in DOMAIN g.members : \A n \in g.members[p] : g.owner[n] = p
    /\ loop.after \in 0..CoolSteps + 1 /\ loop.grow \in 0..GrowPeriod - 1 /\ loop.total <= loop.max

\* spectralLayout: every pivot sampled is a new one and reaches every node, so that
\* no distance is missing from the matrix and no two of its columns are the same.
ColumnsUsable ==
    at = "sample" =>
        /\ \A i, j \in DOMAIN pivots : pivots[i] = pivots[j] => i = j
        /\ \A i \in DOMAIN pivots : DOMAIN Distances(near, pivots[i]) = DOMAIN near

\* LGraphManager: while trees are pruned and grown, its lists are those of the
\* graph, gravity is for all nodes in the graph that it was found to be for, and the
\* springs are those found at first, longer exactly where an edge leaves its graph.
ListsFresh ==
    /\ at \in {"reduce", "tick", "tiles"} =>
           all.nodes \in {Unset, AllNodes(g)} /\ all.edges \in {Unset, AllEdges(g)}
    /\ at \in {"tick", "tiles"} => all.gravity = heavy \cap AllNodes(g)
    /\ at \in {"tick", "tiles"} =>
           \A e \in AllEdges(g) : e \in DOMAIN lengths /\ (lengths[e] > 0 <=> isInterGraph(g, e))

\* calcRepulsionForces: in every iteration the neighbours are known of every node in
\* the graph, and the grid holds these nodes.
SurroundingsKnown ==
    at = "tick" /\ loop.total > 0 => AllNodes(g) \subseteq seen /\ grid = AllNodes(g)

\* No assertion of the graph fails.
NothingThrown == at # "thrown"

\* reduceTrees, growTree: at the end every edge copied is in the graph, whatever was
\* taken out with its end, except those between a node and a compound around it.
EdgesBack ==
    at = "done" =>
        /\ pruned = <<>>
        /\ AllEdges(g) = {e \in CopiedEdges : \A n \in e : OtherEnd(e, n) \notin Inside(d, n)}

\* growTree, tilingPostLayout: nothing is thrown, and at the end every node copied is
\* back in its graph or in a tile, and every childless node on display has a place of
\* this layout.
NothingLost ==
    /\ NothingThrown
    /\ at = "done" =>
          /\ Copied \subseteq AllNodes(g) \cup UNION {Members(c) : c \in DOMAIN packs}
          /\ \A n \in Childless(d) \ d.hidden : placed[n].of # Unset

\* tileNodes and adjustLocations: at the end the members of a tiled compound lie in
\* it where it has come to lie, and do not overlap.
TilesInside ==
    at = "place" =>
        \A c \in DOMAIN packs : \A n \in Members(c) :
            /\ loc[n].of = loc[c].of
            /\ loc[c].x <= loc[n].x /\ loc[n].x + Width(sizes[n]) <= loc[c].x + Width(sizes[c])
            /\ loc[c].y <= loc[n].y /\ loc[n].y + Height(sizes[n]) <= loc[c].y + Height(sizes[c])
            /\ \A m \in Members(c) \ {n} :
                   \/ loc[m].x + Width(sizes[m]) <= loc[n].x \/ loc[n].x + Width(sizes[n]) <= loc[m].x
                   \/ loc[m].y + Height(sizes[m]) <= loc[n].y \/ loc[n].y + Height(sizes[n]) <= loc[m].y

\* tick: the layout of a drawing ends, with trees to grow back or without.
LayoutEnds == (at = "run") ~> (at = "done")
=============================================================================
