------------------------------ MODULE Topology ------------------------------
(***************************************************************************)
(* The topology page: topology.js on a Cytoscape graph with the            *)
(* expand-collapse plugin.                                                 *)
(*                                                                         *)
(* A graph is a forest of groups (host > compose > container, cluster >    *)
(* namespace > workload) with edges.  Collapsing a group takes its         *)
(* descendants out of the graph; they keep their classes and bring them    *)
(* back when the group is expanded.  The handlers see only the elements    *)
(* that are in the graph, which is where a filter or a layer can be        *)
(* missed.  byHand and tucked are history variables: they remember what    *)
(* the user collapsed.                                                     *)
(***************************************************************************)
EXTENDS FiniteSets, Sequences, SequencesExt

CONSTANTS Nodes, Edges,   \* edges are pairs <<source, target>> of nodes
          Parent,         \* node -> the group it is in, or None
          ClassesOf,      \* node -> classes topology.py gave it
          LayersOf,       \* element -> the layers whose boxes must be on for it
          Layers,         \* the layers whose boxes hide elements
          Tapped,         \* bound: the nodes the user taps
          Queries,        \* what may be typed in the search box
          Labelled,       \* query -> nodes whose label contains it
          None

Groups == {Parent[n] : n \in Nodes} \ {None}
Elements == Nodes \cup Edges
\* populateScope offers the hosts and the clusters.
Scopes == {n \in Nodes : ClassesOf[n] \cap {"host", "cluster"} # {}}

AncestorsOf[n \in Nodes] ==
    IF Parent[n] = None THEN {} ELSE {Parent[n]} \cup AncestorsOf[Parent[n]]
DescendantsOf == [n \in Nodes |-> {m \in Nodes : n \in AncestorsOf[m]}]
Ancestors(n) == AncestorsOf[n]
Descendants(n) == DescendantsOf[n]

ASSUME TopologyAssumption ==
    /\ None \notin Elements /\ Nodes \cap Edges = {}
    /\ Parent \in [Nodes -> Nodes \cup {None}]
    /\ \A n \in Nodes : n \notin Ancestors(n)
    /\ Edges \subseteq Nodes \X Nodes
    /\ LayersOf \in [Elements -> SUBSET Layers]
    \* topology.py: mark_crit flags the groups around a critical node, but no host;
    \* an image is in no group and is none, and the page's own classes are the page's.
    /\ \A g \in Groups : /\ "image" \notin ClassesOf[g]
                         /\ (\E n \in Descendants(g) : "sev-critical" \in ClassesOf[n])
                            => {"host", "has-crit"} \cap ClassesOf[g] # {}
    /\ \A n \in Nodes : ClassesOf[n] \cap {"match", ":selected"} = {}
    /\ Labelled \in [Queries -> SUBSET Nodes]

VARIABLES
    graph,      \* how far boot came: "fetching", "failed" (no cy), "drawn" or "scoped"
                \* (an exception after cy was set), "ready"
    plugin,     \* is ecApi set?
    collapsed,  \* groups the plugin has collapsed
    expanded,   \* topology.js: are we currently expanded for a filter?
    fstate,     \* topology.js: [q, scope, crit]
    boxes,      \* layers whose box is checked, "layer-exposure" among them
    dim, match, \* elements with these classes
    hidden,     \* elements with class hidden-layer
    exposed,    \* is the exposure ring on the hosts that have it
    panel,      \* node that is selected and shown in the panel, or None
    theme, styled,  \* the page's theme; the theme the graph's style was built from
    byHand,     \* groups collapsed by their cue since everything was expanded
    tucked      \* elements the user collapsed away under a filter, and that no
                \* filter input has found in the graph since

cy == <<graph, plugin>>
filters == <<fstate, dim, match>>
view == <<collapsed, expanded, byHand>>
layers == <<boxes, hidden, exposed>>
chrome == <<panel, theme, styled>>
vars == <<cy, view, filters, tucked, layers, chrome>>

\* The handlers' test of cy; and a page that came through boot.
Drawn == graph \in {"drawn", "scoped", "ready"}
Ready == graph = "ready"
exposure == "layer-exposure"

------------------------------------------------------------------------------
(* The plugin.                                                              *)

PresentOf == [C \in SUBSET Groups |-> {n \in Nodes : Ancestors(n) \cap C = {}}]
PresentIf(C) == PresentOf[C]
\* The element an absent node is drawn as: its outermost collapsed group.
DrawnAs(n, C) ==
    IF n \in PresentIf(C) THEN n
    ELSE CHOOSE g \in Ancestors(n) \cap C : g \in PresentIf(C)
\* An edge between two groups moves to them; one inside a group goes with it.
EdgesOf == [C \in SUBSET Groups |-> {e \in Edges : DrawnAs(e[1], C) # DrawnAs(e[2], C)}]
EdgesIf(C) == EdgesOf[C]
InGraph(C) == PresentIf(C) \cup EdgesIf(C)

Present == PresentIf(collapsed)

expandAll == {}
\* A group inside a collapsed one is out of the plugin's reach.
collapseAll(C) == C \cup (Groups \cap PresentIf(C))

\* :visible is also false for a node in a hidden group.
Visible(C, H) == {n \in PresentIf(C) : ({n} \cup Ancestors(n)) \cap H = {}}

------------------------------------------------------------------------------
(* Style: the rules that set a border colour, the last one that applies wins. *)

BorderRules == <<
    <<{}, "border">>, <<{"host"}, "subtle">>, <<{"host", "exposed"}, "accent">>,
    <<{"host", "funnel"}, "critical">>, <<{"cluster"}, "accent">>,
    <<{"k8s-namespace"}, "accent">>, <<{"compose"}, "subtle">>,
    <<{"k8s-workload"}, "subtle">>, <<{"subnet"}, "subtle">>, <<{"tailnet"}, "subtle">>,
    <<{"container"}, "subtle">>, <<{"sev-high"}, "accent">>,
    <<{"sev-critical"}, "critical">>, <<{"has-crit"}, "critical">>,
    <<{"image"}, "subtle">>, <<{"image", "sev-critical"}, "critical">>,
    <<{"image", "sev-high"}, "accent">>, <<{"image", "sev-clean"}, "ok">>,
    <<{"match"}, "accent-hover">>, <<{":selected"}, "accent">> >>

Classes(n) ==
    (ClassesOf[n] \ (IF exposed THEN {} ELSE {"exposed", "funnel"}))
        \cup (IF n \in match THEN {"match"} ELSE {})
        \cup (IF n = panel THEN {":selected"} ELSE {})

\* The places in the list of the rules that apply.
Applying(n) == {i \in DOMAIN BorderRules : BorderRules[i][1] \subseteq Classes(n)}

\* mutant: the first rule that applies, but for the one of every node, wins
first_border(n) == BorderRules[Min(Applying(n) \ {1})][2]

border(n) == BorderRules[Max(Applying(n))][2]

------------------------------------------------------------------------------
(* Filters.                                                                 *)

filtersActive(F) == F.q # None \/ F.scope # None \/ F.crit

\* The nodes among S that pass the filters.
Seed(F, S) ==
    {n \in S : /\ F.scope # None => n = F.scope \/ F.scope \in Ancestors(n)
               /\ F.crit => "sev-critical" \in ClassesOf[n]
               /\ F.q # None => n \in Labelled[F.q]}

\* What stays bright around the seed: the groups it is in and, but for the
\* critical-only filter, its members.
Keep(F, S) ==
    S \cup UNION {Ancestors(n) : n \in S}
      \cup (IF F.crit THEN {} ELSE UNION {Descendants(n) : n \in S})

Dimmed(F, C, H) ==
    LET keep == Keep(F, Seed(F, Visible(C, H))) \cap PresentIf(C)
    IN  IF ~filtersActive(F) \/ keep = {} THEN {}
        ELSE (Visible(C, H) \ keep)
             \cup {e \in EdgesIf(C) : ~(DrawnAs(e[1], C) \in keep /\ DrawnAs(e[2], C) \in keep)}

Matched(F, C, H) == IF F.q # None THEN Seed(F, Visible(C, H)) ELSE {}

\* mutant: expands for every filter but forgets to note it
ExpandsFor_always(F) == filtersActive(F) /\ plugin /\ collapsed = {}

ExpandsFor(F) == filtersActive(F) /\ plugin /\ ~expanded

\* applyFilters on filters F, when the groups in C are collapsed (after its
\* expandAll) and the elements in H hidden: all classes go, then come anew.
RefilterTo(F, C, H) ==
    /\ dim' = (dim \ InGraph(C)) \cup Dimmed(F, C, H)
    /\ match' = (match \ InGraph(C)) \cup Matched(F, C, H)
    /\ tucked' = tucked \ InGraph(C)

ExpandedTo(F) == IF ExpandsFor(F) THEN expandAll ELSE collapsed
ByHandTo(F) == IF ExpandsFor(F) THEN {} ELSE byHand
ExpandedFlag(F) == expanded \/ (plugin /\ filtersActive(F))

\* mutant: a cleared filter collapses the groups before applyFilters looks
collapsed_first(F) ==
    IF ~filtersActive(F) /\ expanded THEN collapseAll(collapsed) ELSE ExpandedTo(F)

\* The groups that are collapsed when a filter input has applyFilters look.
FilterSees(F) == ExpandedTo(F)

\* A filter input: applyFilters(); collapseIfCleared().
set_filters(F) ==
    /\ fstate' = F
    /\ \/ ~Drawn /\ UNCHANGED <<view, dim, match, tucked>>
       \/ /\ Drawn
          /\ RefilterTo(F, FilterSees(F), hidden)
          /\ \/ /\ filtersActive(F) \/ ~expanded
                /\ collapsed' = ExpandedTo(F) /\ byHand' = ByHandTo(F)
                /\ expanded' = ExpandedFlag(F)
             \/ /\ ~filtersActive(F) /\ expanded
                /\ collapsed' = collapseAll(collapsed) /\ expanded' = FALSE
                /\ UNCHANGED byHand
    /\ UNCHANGED <<cy, layers, chrome>>

\* Every edit of the search box is an input, one that is trimmed away too.
type_query(q) == set_filters([fstate EXCEPT !.q = q])
\* The select has its options once populateScope has run.
choose_scope(n) ==
    /\ n # fstate.scope
    /\ n # None => graph \in {"scoped", "ready"} /\ n \in Scopes
    /\ set_filters([fstate EXCEPT !.scope = n])
toggle_crit == set_filters([fstate EXCEPT !.crit = ~@])

------------------------------------------------------------------------------
(* Layers.                                                                  *)

\* applyLayers on the elements in the graph.
HiddenTo(B, C) ==
    (hidden \ InGraph(C)) \cup {e \in InGraph(C) : ~(LayersOf[e] \subseteq B)}

\* The box of a layer: applyLayers(); applyFilters().
toggle_layer(l) ==
    LET B == IF l \in boxes THEN boxes \ {l} ELSE boxes \cup {l}
    IN  /\ boxes' = B
        /\ \/ ~Drawn /\ UNCHANGED <<view, hidden, exposed, dim, match, tucked>>
           \/ /\ Drawn
              /\ hidden' = HiddenTo(B, collapsed) /\ exposed' = (exposure \in B)
              /\ collapsed' = ExpandedTo(fstate) /\ byHand' = ByHandTo(fstate)
              /\ expanded' = ExpandedFlag(fstate)
              /\ RefilterTo(fstate, collapsed', hidden')
        /\ UNCHANGED <<cy, fstate, chrome>>

------------------------------------------------------------------------------
(* Boot, groups, panel, theme.                                              *)

\* The answer is drawn, with the plugin if its script was loaded (p).
draw(p, step) ==
    /\ graph = "fetching" /\ graph' = step
    /\ p \in BOOLEAN /\ plugin' = p
    /\ styled' = theme
    /\ UNCHANGED <<filters, tucked, boxes, expanded, byHand, panel, theme>>

FirstLayers == hidden' = HiddenTo(boxes, {}) /\ exposed' = (exposure \in boxes)

\* Everything is in the graph, the layers are applied, then everything collapses.
\* The filters are not applied.
boot(p) ==
    /\ draw(p, "ready")
    /\ FirstLayers
    /\ collapsed' = IF p THEN collapseAll({}) ELSE {}

\* The request or the drawing fails: there is no cy.
boot_fails ==
    /\ graph = "fetching" /\ graph' = "failed"
    /\ UNCHANGED <<plugin, view, filters, tucked, layers, chrome>>

\* An exception after cy was set: the page shows the error, but the handlers go on.
\* It comes from the plugin or the first layout, or from the collapse and its layout.
boot_breaks(p) ==
    \/ draw(p, "drawn") /\ UNCHANGED <<collapsed, hidden, exposed>>
    \/ /\ draw(p, "scoped") /\ p
       /\ FirstLayers
       /\ collapsed' \in {{}, collapseAll({})}

\* The user's own change of the groups takes away what is in the graph no more.
TuckedTo(C) ==
    tucked \cup (IF filtersActive(fstate) THEN InGraph(collapsed) \ InGraph(C) ELSE {})

expand_all ==
    /\ plugin /\ collapsed' = expandAll /\ expanded' = TRUE /\ byHand' = {}
    /\ UNCHANGED <<cy, filters, tucked, layers, chrome>>

collapse_all ==
    /\ plugin /\ collapsed' = collapseAll(collapsed) /\ expanded' = FALSE
    /\ tucked' = TuckedTo(collapsed')
    /\ UNCHANGED <<cy, byHand, filters, layers, chrome>>

\* The plugin's cue on a group; topology.js is not told.  A broken boot has
\* written its message over the canvas: there are no cues and taps.
cue(g) ==
    /\ Ready /\ plugin /\ g \in Groups \cap Present
    /\ \/ g \in collapsed /\ collapsed' = collapsed \ {g} /\ byHand' = byHand \ {g}
       \/ g \notin collapsed /\ collapsed' = collapsed \cup {g} /\ byHand' = byHand \cup {g}
    /\ tucked' = TuckedTo(collapsed')
    /\ UNCHANGED <<cy, expanded, filters, layers, chrome>>

showPanel(n) ==
    /\ Ready /\ n \in Tapped \cap Visible(collapsed, hidden)
    /\ panel' = n
    /\ UNCHANGED <<cy, view, filters, tucked, layers, theme, styled>>

\* The close button, or a tap on the background.
close_panel ==
    /\ panel # None /\ panel' = None
    /\ UNCHANGED <<cy, view, filters, tucked, layers, theme, styled>>

\* mutant: the style is built before the theme is switched
toggle_theme_late(t) ==
    /\ t # theme /\ theme' = t
    /\ styled' = IF Drawn THEN theme ELSE styled
    /\ UNCHANGED <<cy, view, filters, tucked, layers, panel>>

\* base.html switches the theme in a listener that was added before.
toggle_theme(t) ==
    /\ t # theme /\ theme' = t
    /\ styled' = IF Drawn THEN t ELSE styled
    /\ UNCHANGED <<cy, view, filters, tucked, layers, panel>>

Themes == {"dark", "light"}

Init ==
    /\ graph = "fetching" /\ plugin = FALSE
    /\ collapsed = {} /\ expanded = FALSE /\ byHand = {}
    /\ fstate = [q |-> None, scope |-> None, crit |-> FALSE]
    /\ boxes = (Layers \ {"layer-images"}) \cup {exposure}
    /\ dim = {} /\ match = {} /\ tucked = {}
    /\ hidden = {} /\ exposed = TRUE
    /\ panel = None
    /\ theme \in Themes /\ styled = None

Next ==
    \/ \E p \in BOOLEAN : boot(p) \/ boot_breaks(p)
    \/ boot_fails
    \/ \E q \in Queries \cup {None} : type_query(q)
    \/ \E n \in Scopes \cup {None} : choose_scope(n)
    \/ toggle_crit
    \/ \E l \in Layers \cup {exposure} : toggle_layer(l)
    \/ expand_all \/ collapse_all
    \/ \E g \in Groups : cue(g)
    \/ \E n \in Tapped : showPanel(n)
    \/ close_panel
    \/ \E t \in Themes : toggle_theme(t)

Spec == Init /\ [][Next]_vars

------------------------------------------------------------------------------
(* Properties.                                                              *)

\* Types; and the graph, once it is there, has the colours of the page (boot, theme
\* toggle).
TypeOK ==
    /\ graph \in {"fetching", "failed", "drawn", "scoped", "ready"}
    /\ plugin \in BOOLEAN /\ (plugin => Drawn)
    /\ collapsed \subseteq Groups /\ byHand \subseteq Groups /\ expanded \in BOOLEAN
    /\ fstate \in [q : Queries \cup {None}, scope : Scopes \cup {None}, crit : BOOLEAN]
    /\ boxes \subseteq Layers \cup {exposure} /\ exposed \in BOOLEAN
    /\ dim \subseteq Elements /\ match \subseteq Nodes /\ hidden \subseteq Elements
    /\ tucked \subseteq Elements
    /\ panel \in Nodes \cup {None}
    /\ theme \in Themes /\ styled = IF Drawn THEN theme ELSE None

\* topology.js, applyFilters: a filter input leaves every match of its filters
\* in the graph, unless the user collapsed a group around it by its cue.
MatchesReachable ==
    [][Drawn /\ fstate' # fstate /\ filtersActive(fstate') =>
          \A n \in Seed(fstate', Nodes) :
              n \in PresentIf(collapsed') \/ Ancestors(n) \cap byHand' # {}]_vars

\* topology.js, applyFilters and collapseIfCleared: when no filter is active, what is
\* still dimmed or marked as a match, in the graph or to come back into it, the user
\* collapsed away under a filter; clearing, switching and hiding leave nothing else.
DimOnlyIfTucked ==
    ~filtersActive(fstate) => dim \cup match \subseteq tucked

\* topology.py:3-6 "Layer membership is encoded as classes [...] so the client can
\* toggle layers": what is in the graph is hidden exactly if a box of its is off.
LayersHonoured ==
    Ready => hidden \cap InGraph(collapsed)
                = {e \in InGraph(collapsed) : ~(LayersOf[e] \subseteq boxes)}

\* topology.js, buildStyle: a collapsed compose, cluster or namespace group that
\* hides a critical finding shows it, whatever other class its rules give it.
HiddenCriticalShows ==
    \A g \in collapsed \cap Present :
        /\ \E n \in Descendants(g) : "sev-critical" \in ClassesOf[n]
        /\ "host" \notin ClassesOf[g] /\ g \notin match /\ g # panel
        => border(g) = "critical"
=============================================================================
