----------------------------- MODULE MCTopology -----------------------------
(***************************************************************************)
(* A small topology for TLC: a host that is a member of a cluster, the     *)
(* cluster with a namespace and in it a critical workload, the workload's  *)
(* image, and the edges of membership and image.                           *)
(***************************************************************************)
EXTENDS Topology, TLC

CONSTANTS nas, k3s, apps, job, img

MC_Nodes == {nas, k3s, apps, job, img}
MC_Parent == (nas :> None @@ k3s :> None @@ apps :> k3s @@ job :> apps @@ img :> None)
MC_Edges == {<<nas, k3s>>, <<job, img>>}

MC_ClassesOf ==
    (nas :> {"host", "exposed"}
     @@ k3s :> {"cluster", "has-crit"} @@ apps :> {"k8s-namespace", "has-crit"}
     @@ job :> {"k8s-workload", "sev-critical"} @@ img :> {"image", "sev-critical"})

\* One of the four layers that hide: the image's own box is taken to be on.
MC_Layers == {"layer-k8s"}
MC_LayersOf ==
    [e \in MC_Nodes \cup MC_Edges |->
        IF e \in {apps, job, img, <<job, img>>} THEN MC_Layers ELSE {}]

MC_Queries == {"job"}
MC_Labelled == [q \in MC_Queries |-> {job}]
=============================================================================
