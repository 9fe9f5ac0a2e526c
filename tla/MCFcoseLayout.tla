--------------------------- MODULE MCFcoseLayout ---------------------------
(***************************************************************************)
(* Small drawings of the topology page for TLC, as build_topology          *)
(* (domain/services/topology.py) makes them: a host with a compose project *)
(* and containers, another host, a tailnet, a cluster with a namespace and *)
(* a workload in it, and two images; with any of the edges of image,       *)
(* tailnet and cluster, and an image or tailnet only with an edge to it;   *)
(* whole, with one of the page's layers off, or with one compound          *)
(* collapsed.                                                              *)
(***************************************************************************)
EXTENDS FcoseLayout

CONSTANTS host, nas, proj, web, db, cache, net, k3s, apps, job, img, img2

MC_Nodes == {host, nas, proj, web, db, cache, net, k3s, apps, job, img, img2}
MC_Parent ==
    [n \in MC_Nodes |->
        CASE n \in {proj, db, cache} -> host
          [] n = web -> proj
          [] n = apps -> k3s
          [] n = job -> apps
          [] OTHER -> Root]

MC_Ends ==
    <<<<web, img>>, <<db, img>>, <<job, img>>, <<cache, img2>>,
      <<host, net>>, <<nas, net>>, <<host, k3s>>, <<nas, k3s>>>>

\* The nodes there are with the edges of E.
MC_Drawn(E) ==
    {n \in MC_Nodes : n \in {img, img2, net} => \E e \in E : MC_Ends[e][2] = n}

\* The layers that hide nodes: a parent not displayed hides what is in it.
MC_Layers == {{img, img2}, {apps, job}, {net}, {host, nas, proj, web, db, cache, k3s, apps, job}}

MC_Below == [n \in {host, proj, k3s} |->
    CASE n = host -> {proj, web, db, cache} [] n = proj -> {web} [] n = k3s -> {apps, job}]

MC_Whole(E, H) ==
    [nodes |-> MC_Drawn(E), parent |-> [n \in MC_Drawn(E) |-> MC_Parent[n]],
     ends |-> [e \in E |-> MC_Ends[e]], hidden |-> H \cap MC_Drawn(E)]

\* Collapsing takes what is below out of the drawing and moves edge ends to c.
MC_Collapsed(E, c) ==
    LET left == MC_Drawn(E) \ MC_Below[c]
        end(n) == IF n \in MC_Below[c] THEN c ELSE n
    IN  [nodes |-> left, parent |-> [n \in left |-> MC_Parent[n]],
         ends |-> [e \in E |-> <<end(MC_Ends[e][1]), end(MC_Ends[e][2])>>], hidden |-> {}]

MC_Drawings ==
    UNION {{MC_Whole(E, {})} \cup {MC_Whole(E, H) : H \in MC_Layers}
           \cup {MC_Collapsed(E, c) : c \in DOMAIN MC_Below} : E \in SUBSET (1..8)}

\* Two sizes that are wider than high, or higher than wide.
MC_LeafSize ==
    [n \in MC_Nodes |-> CASE n \in {db, nas} -> <<1, 3>> [] n \in {web, img} -> <<4, 1>> [] OTHER -> <<2, 2>>]
=============================================================================
