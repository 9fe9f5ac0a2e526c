--------------------------- MODULE TopologyProofs ---------------------------
(***************************************************************************)
(* Theorems about the topology page: its handlers see only what is in the  *)
(* graph, and still leave no match, dimming or colour behind.              *)
(***************************************************************************)
EXTENDS Topology, SetFacts, TLAPS

------------------------------------------------------------------------------
(* Type correctness.                                                        *)

\* What the plugin leaves in the graph, and what a handler marks of it, are
\* elements of the page.
LEMMA InGraphTyped ==
  ASSUME NEW C \in SUBSET Groups
  PROVE  /\ PresentIf(C) = {n \in Nodes : Ancestors(n) \cap C = {}}
         /\ EdgesIf(C) \subseteq Edges
         /\ InGraph(C) \subseteq Elements /\ InGraph(C) \subseteq InGraph({})
         /\ collapseAll(C) \subseteq Groups
<1>1. PresentIf(C) = {n \in Nodes : Ancestors(n) \cap C = {}}
  BY DEF PresentIf, PresentOf
<1>2. EdgesIf(C) \subseteq Edges
  BY DEF EdgesIf, EdgesOf
<1>3. \A D \in SUBSET Groups : EdgesIf(D) = {e \in Edges : DrawnAs(e[1], D) # DrawnAs(e[2], D)}
  BY DEF EdgesIf, EdgesOf
<1>4. PresentIf({}) = Nodes
  BY DEF PresentIf, PresentOf
<1>5. {} \in SUBSET Groups
  OBVIOUS
<1>6. EdgesIf(C) \subseteq EdgesIf({})
  <2>1. SUFFICES ASSUME NEW e \in EdgesIf(C) PROVE e \in EdgesIf({})
    OBVIOUS
  <2>2. e \in Edges /\ DrawnAs(e[1], C) # DrawnAs(e[2], C)
    BY <1>3
  <2>3. e[1] # e[2] /\ e[1] \in Nodes /\ e[2] \in Nodes
    BY <2>2, TopologyAssumption
  <2>4. DrawnAs(e[1], {}) = e[1] /\ DrawnAs(e[2], {}) = e[2]
    BY <2>3, <1>4 DEF DrawnAs
  <2> QED BY <1>3, <1>5, <2>2, <2>3, <2>4
<1> QED BY <1>1, <1>2, <1>4, <1>6 DEF InGraph, Elements, collapseAll

\* A step is a filter, a layer, a theme, a group, or the panel; none of the last
\* three touches what the filters and layers have marked.
LEMMA Handlers ==
  ASSUME TypeOK, [Next]_vars
  PROVE  \/ \E F \in [q : Queries \cup {None}, scope : Scopes \cup {None}, crit : BOOLEAN] :
                set_filters(F)
         \/ \E l \in Layers \cup {exposure} : toggle_layer(l)
         \/ \E t \in Themes : toggle_theme(t)
         \/ \E g \in Groups : cue(g)
         \/ \E p \in BOOLEAN : boot(p) \/ boot_breaks(p)
         \/ boot_fails \/ expand_all \/ collapse_all
         \/ panel' \in Nodes \cup {None} /\ UNCHANGED <<cy, view, filters, tucked, layers, theme, styled>>
<1>1. ASSUME NEW q \in Queries \cup {None}
      PROVE  [fstate EXCEPT !.q = q] \in
                 [q : Queries \cup {None}, scope : Scopes \cup {None}, crit : BOOLEAN]
  BY DEF TypeOK
<1>2. ASSUME NEW n \in Scopes \cup {None}
      PROVE  [fstate EXCEPT !.scope = n] \in
                 [q : Queries \cup {None}, scope : Scopes \cup {None}, crit : BOOLEAN]
  BY DEF TypeOK
<1>3. [fstate EXCEPT !.crit = ~@] \in
          [q : Queries \cup {None}, scope : Scopes \cup {None}, crit : BOOLEAN]
  BY DEF TypeOK
<1>4. ASSUME NEW n \in Tapped, showPanel(n) PROVE n \in Nodes
  BY <1>4, InGraphTyped DEF showPanel, Visible, TypeOK
<1>5. CASE UNCHANGED vars
  BY <1>5 DEF vars, chrome, TypeOK
<1> QED BY <1>1, <1>2, <1>3, <1>4, <1>5
        DEF Next, type_query, choose_scope, toggle_crit, showPanel, close_panel

\* The page keeps its shape: classes are on elements of the graph, groups are groups;
\* and the graph has the colours of the page in every order of loading and switching
\* (topology.js, boot and the theme toggle).
THEOREM PageTyped == Spec => []TypeOK
<1>RefilterTyped. ASSUME TypeOK, NEW F, NEW C \in SUBSET Groups, NEW H, RefilterTo(F, C, H)
                  PROVE  dim' \subseteq Elements /\ match' \subseteq Nodes /\ tucked' \subseteq Elements
  <2> USE <1>RefilterTyped
  <2>1. Visible(C, H) \subseteq Nodes /\ PresentIf(C) \subseteq Nodes
    BY InGraphTyped DEF Visible
  <2>2. Dimmed(F, C, H) \subseteq Elements
    BY <2>1, InGraphTyped DEF Dimmed, Elements
  <2>3. Matched(F, C, H) \subseteq Nodes
    BY <2>1 DEF Matched, Seed
  <2> QED BY <2>2, <2>3, InGraphTyped DEF RefilterTo, TypeOK
<1>1. Init => TypeOK
  <2> SUFFICES ASSUME Init PROVE TypeOK
    OBVIOUS
  <2>1. boxes \subseteq Layers \cup {exposure}
    BY DEF Init
  <2>2. /\ fstate \in [q : Queries \cup {None}, scope : Scopes \cup {None}, crit : BOOLEAN]
        /\ expanded \in BOOLEAN /\ exposed \in BOOLEAN /\ graph = "fetching" /\ plugin = FALSE
    BY DEF Init
  <2> QED BY <2>1, <2>2 DEF Init, TypeOK, Drawn
<1>2. TypeOK /\ [Next]_vars => TypeOK'
  <2> SUFFICES ASSUME TypeOK, [Next]_vars PROVE TypeOK'
    OBVIOUS
  <2>0. {} \in SUBSET Groups /\ collapsed \in SUBSET Groups
    BY DEF TypeOK
  <2>1. ASSUME NEW F, ExpandedTo(F) = collapsed' \/ collapsed' = collapseAll(collapsed)
        PROVE  collapsed' \subseteq Groups
    BY <2>0, <2>1, InGraphTyped DEF ExpandedTo, expandAll
  <2>2. ASSUME NEW F \in [q : Queries \cup {None}, scope : Scopes \cup {None}, crit : BOOLEAN],
               set_filters(F)
        PROVE  TypeOK'
    <3>1. CASE ~Drawn
      BY <2>2, <3>1 DEF set_filters, TypeOK, Drawn, cy, view, layers, chrome
    <3>2. CASE Drawn
      <4>1. ExpandedTo(F) \in SUBSET Groups
        BY <2>0 DEF ExpandedTo, expandAll
      <4>2. dim' \subseteq Elements /\ match' \subseteq Nodes /\ tucked' \subseteq Elements
        BY <2>2, <3>2, <4>1, <1>RefilterTyped DEF set_filters, FilterSees
      <4>3. collapsed' \subseteq Groups /\ byHand' \subseteq Groups /\ expanded' \in BOOLEAN
        BY <2>2, <3>2, <4>1, <2>1 DEF set_filters, ByHandTo, ExpandedFlag, filtersActive, TypeOK
      <4> QED BY <2>2, <3>2, <4>2, <4>3 DEF set_filters, TypeOK, Drawn, cy, layers, chrome
    <3> QED BY <3>1, <3>2
  <2>3. ASSUME NEW l \in Layers \cup {exposure}, toggle_layer(l) PROVE TypeOK'
    <3>1. boxes' \subseteq Layers \cup {exposure}
      BY <2>3 DEF toggle_layer, TypeOK
    <3>2. CASE ~Drawn
      BY <2>3, <3>1, <3>2 DEF toggle_layer, TypeOK, Drawn, cy, view, chrome
    <3>3. CASE Drawn
      <4>1. collapsed' \in SUBSET Groups /\ byHand' \subseteq Groups /\ expanded' \in BOOLEAN
        BY <2>3, <3>3, <2>1 DEF toggle_layer, ByHandTo, ExpandedFlag, filtersActive, TypeOK
      <4>2. dim' \subseteq Elements /\ match' \subseteq Nodes /\ tucked' \subseteq Elements
        BY <2>3, <3>3, <4>1, <1>RefilterTyped DEF toggle_layer
      <4>3. hidden' \subseteq Elements
        BY <2>0, <2>3, <3>3, InGraphTyped DEF toggle_layer, HiddenTo, TypeOK
      <4>4. exposed' \in BOOLEAN
        BY <2>3, <3>3 DEF toggle_layer
      <4>5. UNCHANGED <<graph, plugin, fstate, panel, theme, styled>>
        BY <2>3, <3>3 DEF toggle_layer, cy, chrome
      <4> QED BY <3>1, <4>1, <4>2, <4>3, <4>4, <4>5 DEF TypeOK, Drawn
    <3> QED BY <3>2, <3>3
  <2>4. ASSUME NEW t \in Themes, toggle_theme(t) PROVE TypeOK'
    BY <2>4 DEF toggle_theme, TypeOK, Drawn, cy, view, filters, layers
  <2>5. ASSUME NEW C \in SUBSET Groups PROVE TuckedTo(C) \subseteq Elements
    BY <2>0, InGraphTyped DEF TuckedTo, TypeOK
  <2>6. ASSUME NEW g \in Groups, cue(g) PROVE TypeOK'
    <3>1. collapsed' \in SUBSET Groups /\ byHand' \in SUBSET Groups
      BY <2>6 DEF cue, TypeOK
    <3>2. tucked' \subseteq Elements
      BY <2>6, <3>1, <2>5 DEF cue
    <3> QED BY <2>6, <3>1, <3>2 DEF cue, TypeOK, Drawn, cy, filters, layers, chrome
  <2>7. ASSUME NEW p \in BOOLEAN, boot(p) \/ boot_breaks(p) PROVE TypeOK'
    <3>1. hidden' \subseteq Elements /\ collapsed' \subseteq Groups /\ exposed' \in BOOLEAN
      <4>1. FirstLayers => hidden' \subseteq Elements /\ exposed' \in BOOLEAN
        BY <2>0, InGraphTyped DEF FirstLayers, HiddenTo, TypeOK
      <4>2. collapseAll({}) \subseteq Groups
        BY <2>0, InGraphTyped
      <4> QED BY <2>7, <4>1, <4>2 DEF boot, boot_breaks, TypeOK
    <3>2. /\ graph' \in {"drawn", "scoped", "ready"} /\ styled' = theme /\ plugin' \in BOOLEAN
          /\ UNCHANGED <<fstate, dim, match, tucked, boxes, expanded, byHand, panel, theme>>
      BY <2>7 DEF boot, boot_breaks, draw, filters
    <3>3. styled' = (IF Drawn THEN theme ELSE None)'
      BY <3>2 DEF Drawn
    <3> QED BY <3>1, <3>2, <3>3 DEF TypeOK, Drawn
  <2>8. CASE boot_fails
    BY <2>8 DEF boot_fails, TypeOK, Drawn, view, filters, layers, chrome
  <2>9. CASE expand_all \/ collapse_all
    <3>1. collapsed' \in SUBSET Groups /\ expanded' \in BOOLEAN /\ byHand' \subseteq Groups
      BY <2>0, <2>9, InGraphTyped DEF expand_all, collapse_all, expandAll, TypeOK
    <3>2. tucked' \subseteq Elements
      BY <2>9, <3>1, <2>5 DEF expand_all, collapse_all, TypeOK
    <3>3. UNCHANGED <<graph, plugin, fstate, dim, match, boxes, hidden, exposed, panel, theme, styled>>
      BY <2>9 DEF expand_all, collapse_all, cy, filters, layers, chrome
    <3> QED BY <3>1, <3>2, <3>3 DEF TypeOK, Drawn
  <2>10. CASE panel' \in Nodes \cup {None} /\ UNCHANGED <<cy, view, filters, tucked, layers, theme, styled>>
    BY <2>10 DEF TypeOK, Drawn, cy, view, filters, layers
  <2> QED BY <2>2, <2>3, <2>4, <2>6, <2>7, <2>8, <2>9, <2>10, Handlers
<1> QED BY <1>1, <1>2, PTL DEF Spec

------------------------------------------------------------------------------
(* Filters.                                                                 *)

\* While topology.js believes that everything is expanded, only the user's cues have
\* collapsed a group; without the plugin nothing is expanded or collapsed.
HandInv ==
    /\ expanded => collapsed \subseteq byHand
    /\ ~plugin => ~expanded /\ collapsed = {}

\* The elements with a class are in the graph, where the next filter input finds
\* them, or the user collapsed them away; without a filter all are such.
DimInv ==
    /\ (dim \cup match) \ (IF filtersActive(fstate) THEN InGraph(collapsed) ELSE {}) \subseteq tucked
    /\ ~Drawn => dim \cup match = {}

LEMMA FiltersAlways == Spec => [](TypeOK /\ HandInv /\ DimInv)
<1>1. Init => HandInv /\ DimInv
  BY DEF Init, HandInv, DimInv, Drawn
<1>2. TypeOK /\ HandInv /\ DimInv /\ [Next]_vars => HandInv' /\ DimInv'
  <2> SUFFICES ASSUME TypeOK, HandInv, DimInv, [Next]_vars PROVE HandInv' /\ DimInv'
    OBVIOUS
  <2>0. collapsed \in SUBSET Groups
    BY DEF TypeOK
  <2>1. ASSUME NEW F, NEW H, RefilterTo(F, ExpandedTo(F), H), fstate' = F, Drawn',
               filtersActive(F) => collapsed' = ExpandedTo(F)
        PROVE  DimInv'
    <3> DEFINE C == ExpandedTo(F)
    <3>1. InGraph(collapsed) \subseteq InGraph(C)
      BY <2>0, InGraphTyped DEF ExpandedTo, expandAll
    <3>2. (dim \cup match) \ InGraph(C) \subseteq tucked \ InGraph(C)
      BY <3>1 DEF DimInv
    <3>3. /\ filtersActive(F) => Dimmed(F, C, H) \cup Matched(F, C, H) \subseteq InGraph(C)
          /\ ~filtersActive(F) => Dimmed(F, C, H) \cup Matched(F, C, H) = {}
      BY DEF Dimmed, Matched, Visible, InGraph, filtersActive, Seed
    <3>4. (dim' \cup match') \ (IF filtersActive(F) THEN InGraph(C) ELSE {}) \subseteq tucked'
      <4>1. /\ dim' = (dim \ InGraph(C)) \cup Dimmed(F, C, H)
            /\ match' = (match \ InGraph(C)) \cup Matched(F, C, H)
            /\ tucked' = tucked \ InGraph(C)
        BY <2>1 DEF RefilterTo
      <4> HIDE DEF C
      <4> QED BY <3>2, <3>3, <4>1
    <3>5. filtersActive(fstate)' = filtersActive(F)
      BY <2>1 DEF filtersActive
    <3>6. filtersActive(F) => InGraph(collapsed)' = InGraph(C)
      BY <2>1 DEF InGraph, PresentIf, EdgesIf
    <3> HIDE DEF C
    <3>7. CASE filtersActive(F)
      BY <2>1, <3>4, <3>5, <3>6, <3>7 DEF DimInv
    <3>8. CASE ~filtersActive(F)
      BY <2>1, <3>4, <3>5, <3>8 DEF DimInv
    <3> QED BY <3>7, <3>8
  <2>2. ASSUME NEW F, collapsed' = ExpandedTo(F), byHand' = ByHandTo(F),
               expanded' = ExpandedFlag(F), UNCHANGED plugin
        PROVE  HandInv'
    BY <2>2 DEF ExpandedTo, ExpandedFlag, ByHandTo, ExpandsFor, expandAll, HandInv
  <2>3. ASSUME UNCHANGED <<graph, fstate, dim, match>>, tucked' = TuckedTo(collapsed')
        PROVE  DimInv'
    <3>1. filtersActive(fstate)' = filtersActive(fstate)
      BY <2>3 DEF filtersActive
    <3>2. InGraph(collapsed)' = InGraph(collapsed')
      BY DEF InGraph, PresentIf, EdgesIf
    <3> QED BY <2>3, <3>1, <3>2 DEF DimInv, TuckedTo, Drawn
  <2>4. ASSUME NEW F, set_filters(F) PROVE HandInv' /\ DimInv'
    <3>1. CASE ~Drawn
      <4>1. UNCHANGED <<cy, view, dim, match, tucked>>
        BY <2>4, <3>1 DEF set_filters
      <4> QED BY <3>1, <4>1 DEF HandInv, DimInv, cy, view, Drawn
    <3>2. CASE Drawn
      <4>1. DimInv'
        BY <2>4, <3>2, <2>1 DEF set_filters, FilterSees, cy, Drawn
      <4>2. HandInv'
        BY <2>4, <3>2, <2>2 DEF set_filters, cy, HandInv
      <4> QED BY <4>1, <4>2
    <3> QED BY <3>1, <3>2
  <2>5. ASSUME NEW l, toggle_layer(l) PROVE HandInv' /\ DimInv'
    <3>1. CASE ~Drawn
      BY <2>5, <3>1 DEF toggle_layer, HandInv, DimInv, cy, view, Drawn
    <3>2. CASE Drawn
      <4>1. DimInv'
        BY <2>5, <3>2, <2>1 DEF toggle_layer, cy, Drawn
      <4>2. HandInv'
        BY <2>5, <3>2, <2>2 DEF toggle_layer, cy
      <4> QED BY <4>1, <4>2
    <3> QED BY <3>1, <3>2
  <2>6. ASSUME NEW g, cue(g) PROVE HandInv' /\ DimInv'
    BY <2>6, <2>3 DEF cue, HandInv, filters, cy
  <2>7. ASSUME NEW p \in BOOLEAN, boot(p) \/ boot_breaks(p) PROVE HandInv' /\ DimInv'
    <3>1. /\ ~Drawn /\ dim' = {} /\ match' = {} /\ plugin' = p
          /\ UNCHANGED <<expanded, byHand>>
      BY <2>7 DEF boot, boot_breaks, draw, DimInv, filters, Drawn
    <3>2. ~plugin /\ ~expanded /\ collapsed = {}
      BY <3>1 DEF HandInv, TypeOK
    <3>3. ~p => collapsed' = {}
      BY <2>7, <3>2 DEF boot, boot_breaks
    <3> QED BY <3>1, <3>2, <3>3 DEF HandInv, DimInv
  <2>8. CASE expand_all \/ collapse_all
    <3>1. tucked' = TuckedTo(collapsed')
      <4>1. InGraph(collapsed) \subseteq InGraph({})
        BY <2>0, InGraphTyped
      <4> QED BY <2>8, <4>1 DEF expand_all, collapse_all, expandAll, TuckedTo
    <3>2. plugin /\ HandInv'
      BY <2>8 DEF expand_all, collapse_all, expandAll, HandInv, cy
    <3> QED BY <2>8, <3>1, <3>2, <2>3 DEF expand_all, collapse_all, filters, cy
  <2>9. CASE \/ \E t \in Themes : toggle_theme(t)
             \/ boot_fails
             \/ UNCHANGED <<cy, view, filters, tucked, layers, theme, styled>>
    BY <2>9 DEF toggle_theme, boot_fails, HandInv, DimInv, cy, view, filters, Drawn
  <2> QED BY <2>4, <2>5, <2>6, <2>7, <2>8, <2>9, Handlers
<1> QED BY <1>1, <1>2, PageTyped, PTL DEF Spec

\* Without a filter no element stays dimmed or marked, in the graph or out of it, but
\* for those the user collapsed away under a filter (topology.js, applyFilters,
\* collapseIfCleared).
THEOREM DimsOnlyIfTucked == Spec => []DimOnlyIfTucked
<1>1. DimInv => DimOnlyIfTucked
  BY DEF DimInv, DimOnlyIfTucked
<1> QED BY <1>1, FiltersAlways, PTL

\* A filter input leaves every match in the graph, unless the user collapsed a group
\* around it by its cue (topology.js, applyFilters and collapseIfCleared).
THEOREM MatchesAreReachable == Spec => MatchesReachable
<1> DEFINE Reachable(n) == n \in PresentIf(collapsed') \/ Ancestors(n) \cap byHand' # {}
<1>1. TypeOK /\ HandInv /\ [Next]_vars =>
          [Drawn /\ fstate' # fstate /\ filtersActive(fstate') =>
              \A n \in Seed(fstate', Nodes) : Reachable(n)]_vars
  <2> SUFFICES ASSUME TypeOK, HandInv, [Next]_vars, Drawn, fstate' # fstate, filtersActive(fstate'),
                      NEW n \in Seed(fstate', Nodes)
               PROVE  Reachable(n)
    OBVIOUS
  <2>1. PICK F : set_filters(F)
    BY Handlers DEF toggle_layer, toggle_theme, cue, boot, boot_breaks, draw, boot_fails,
                     expand_all, collapse_all, filters
  <2>2. n \in Nodes /\ F = fstate'
    BY <2>1 DEF set_filters, Seed
  <2>3. collapsed' = ExpandedTo(F) /\ byHand' = ByHandTo(F)
    BY <2>1, <2>2 DEF set_filters
  <2>4. collapsed' \in SUBSET Groups /\ collapsed' \subseteq byHand'
    <3>1. CASE ExpandsFor(F)
      BY <2>3, <3>1 DEF ExpandedTo, expandAll
    <3>2. CASE ~ExpandsFor(F)
      <4>1. collapsed' = collapsed /\ byHand' = byHand
        BY <2>3, <3>2 DEF ExpandedTo, ByHandTo
      <4>2. expanded \/ ~plugin
        BY <2>2, <3>2 DEF ExpandsFor
      <4> QED BY <4>1, <4>2 DEF HandInv, TypeOK
    <3> QED BY <3>1, <3>2
  <2>5. PresentIf(collapsed') = {m \in Nodes : Ancestors(m) \cap collapsed' = {}}
    BY <2>4, InGraphTyped
  <2> QED BY <2>2, <2>4, <2>5
<1> QED BY <1>1, FiltersAlways, PTL DEF Spec, MatchesReachable

------------------------------------------------------------------------------
(* Style.                                                                   *)

\* Of the rules that apply to a critical group only those of the match and the
\* selection come after the red one (topology.js, buildStyle).
THEOREM HiddenCriticalsShow == Spec => []HiddenCriticalShows
<1>1. TypeOK => HiddenCriticalShows
  <2> SUFFICES ASSUME TypeOK, NEW g \in collapsed \cap Present,
                      \E n \in Descendants(g) : "sev-critical" \in ClassesOf[n],
                      "host" \notin ClassesOf[g], g \notin match, g # panel
               PROVE  border(g) = "critical"
    BY DEF HiddenCriticalShows
  <2>1. g \in Groups /\ g \in Nodes
    BY InGraphTyped DEF TypeOK, Present
  <2>2. /\ "has-crit" \in Classes(g)
        /\ "image" \notin Classes(g) /\ "match" \notin Classes(g) /\ ":selected" \notin Classes(g)
    BY <2>1, TopologyAssumption DEF Classes
  <2> DEFINE S == Applying(g)
  <2>3. /\ DOMAIN BorderRules = 1..20
        /\ BorderRules[14] = <<{"has-crit"}, "critical">>
        /\ "image" \in BorderRules[15][1] /\ "image" \in BorderRules[16][1]
        /\ "image" \in BorderRules[17][1] /\ "image" \in BorderRules[18][1]
        /\ "match" \in BorderRules[19][1] /\ ":selected" \in BorderRules[20][1]
    BY DEF BorderRules
  <2>4. 14 \in S
    BY <2>2, <2>3 DEF Applying
  <2>5. \A i \in S : i \in 1..20 /\ i \notin {15, 16, 17, 18, 19, 20}
    BY <2>2, <2>3 DEF Applying
  <2>6. S \subseteq Nat /\ \A i \in S : i =< 14
    BY <2>5
  <2> HIDE DEF S
  <2>7. Max(S) \in S /\ \A i \in S : i =< Max(S)
    BY <2>4, <2>6, MaxIsGreatest
  <2>8. Max(S) = 14
    <3>1. Max(S) \in Nat /\ Max(S) =< 14 /\ 14 =< Max(S)
      BY <2>4, <2>6, <2>7
    <3> QED BY <3>1
  <2> QED BY <2>3, <2>8 DEF S, border
<1> QED BY <1>1, PageTyped, PTL
=============================================================================
