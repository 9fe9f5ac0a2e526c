-------------------------- MODULE MCImageInventory --------------------------
(***************************************************************************)
(* Small instances of ImageInventory: one repository scanned under a real  *)
(* tag and under "latest", one host and one cluster that run it, pinned by *)
(* digest or by tag.                                                       *)
(***************************************************************************)
EXTENDS ImageInventory, TLC

CONSTANTS hub, app, v1, latest, d1, d2, f1, f2

Spelled(tag, digest) == [registry |-> hub, repo |-> app, tag |-> tag, digest |-> digest]

Tagged == Spelled(v1, None)
Untagged == Spelled(None, None)
Pinned == Spelled(None, d1)

Report(ref, digest, results) ==
    [ref |-> ref, digest |-> digest, results |-> results, breaks_at |-> 0]
Broken(rep, i) == [rep EXCEPT !.breaks_at = i]

\* The tagged row carries d1; "latest" moves between d2 and d1; one finding is
\* repeated over two Results; one report breaks off after its first Result;
\* one has no ArtifactName.
MC_Reports == {
    Report(Tagged, d1, <<{f1}>>),
    Report(Untagged, d2, <<{f1}, {f1, f2}>>),
    Report(Untagged, d1, <<>>),
    Broken(Report(Untagged, d2, <<{f1}, {f2}>>), 2),
    Report(None, None, <<>>)}

Running(ref) == [image |-> ref, running |-> TRUE]
Stopped(ref) == [image |-> ref, running |-> FALSE]

\* What a docker ps or a kubectl get pods may list: pinned, tagged, stopped.
MC_DockerListings == {{Running(Pinned)}, {Running(Tagged), Stopped(Untagged)}}
MC_PodListings == {{}, {Pinned}}

\* For the runs about scan times: what a scan finds does not matter.
Timed_Reports == {Report(Tagged, d1, <<>>), Report(Untagged, d2, <<>>)}

\* Leaner instances: two images of which one runs, or one that does.
Lean_Reports == {
    Report(Tagged, d1, <<{f1}>>),
    Report(Untagged, d2, <<{f1}, {f1, f2}>>)}
Lean_DockerListings == {{Running(Tagged)}}
Lean_PodListings == {{Tagged}}

One_Report == {Report(Untagged, d2, <<{f1}, {f1, f2}>>)}
One_DockerListing == {{Running(Untagged)}}
One_PodListing == {{Untagged}}

\* Sources and clients are interchangeable: no operator orders them.
Interchangeable == Permutations(Sources) \cup Permutations(Clients)
=============================================================================
