# A TLA+ model of HomeLabCMDB

HomeLabCMDB is a configuration database for a home lab: a SQLite file behind
SQLAlchemy, filled by import services (ansible facts, `docker ps`, kubectl,
trivy scans) and read and edited from a web application, a command line and an
MCP server. This directory models

* its core, the image inventory and the daily vulnerability trend;
* the sessions that several processes hold on the one file, with the event loop
  that some of them share;
* the doors: password login, the gate and the page in front of it, and the key
  cache of the token check;
* the topology page in the browser, and the layout it runs.

TLC checks all of it on small instances; TLAPS proves the safety of the image
inventory, of the doors, of the sessions on one file, of the topology page and of
most of the layout for instances of any size.

1. [Inventory](#1-inventory)
2. [Modules](#2-modules)
3. [From the code to the model](#3-from-the-code-to-the-model)
4. [Properties and runs](#4-properties-and-runs)
5. [Disagreements between code and
   documentation](#5-disagreements-between-code-and-documentation)
6. [Proofs](#6-proofs)
7. [Not modelled](#7-not-modelled)
8. [Plan](#8-plan)

## 1. Inventory

| Component (under `src/cmdb/`) | State | Operations | Hard behaviour | What makes it correct |
|---|---|---|---|---|
| image references `domain/refs.py` | none | `canonical_ref` | one image, many spellings | spellings of one image meet in one row, and no others do |
| trivy import `services/trivy_import.py` | `images`, `image_scans`, `vulnerabilities`, import log | import a file or directory of envelopes | a report that breaks off, late files, clocks of other machines | every scan belongs to its image, its counts are its findings |
| images `services/images.py` | the same, plus `expected_noisy` | list, detail, placements, staleness, `set_noisy`, `delete_image`, `vuln_summary` | tags that move, two sources, read before lock | list, detail and card tell one story; a pinned deployment is shown on its content |
| daily snapshots `services/vuln_snapshots.py` | `vuln_snapshots` | rewrite today, read the trend, reconstruct past days | midnight, concurrent reconstruction | a past day never changes; today equals the live view |
| metrics `services/vuln_metrics.py` | none | deltas over windows | empty days | the end of the trend is the present |
| docker import `services/docker_import.py` | `containers` per host, rows pending in the session | replace the containers of one host after the other | records that break off, two records of one host, host deleted meanwhile | a host has one listing, as far as it could be read |
| kubernetes import `services/k8s_import.py`, `services/k8s.py` | clusters, nodes, namespaces, workloads | upsert a cluster, replace its workloads, delete | a record without workloads must wipe nothing | as above |
| hosts, facts, history `services/hosts.py`, `ansible.py`, `history.py` | `hosts`, tags, custom fields, `host_snapshots` | import facts, edit, delete, change timeline | lost updates, clock set back | one row per machine id; the timeline has every change once |
| collection `services/collect.py`, `web/routes/collect.py` | one open transaction, the event loop it blocks | run ansible, import what it printed | minutes under the write lock, midnight before the commit | every session ends; one host's failure stays its own |
| tailscale, ports | services and ports per host | replace on import | as docker import | as docker import |
| export and restore `services/export.py` | every table | dump, wipe and load | writers during the dump | a dump restores to the state it was taken of |
| accounts `services/users.py` | `users` | add, delete, promote, disable, first-run setup | commands that check, then write | an active admin remains, unless two commands race |
| sessions, login `web/auth/*` | cookies, failure counter, provider caches | login, logout, gate, health probe | parallel attempts, account changed during a session | a lock-out is reached and ends |
| MCP tokens `mcp/auth.py` | key set, group cache | verify | key rotation, provider down, single flight | a rotated key is fetched, at a bounded rate |
| MCP server, web routes, CLI | none | call the services in one session | | |
| session guard `static/js/session.js` | one page, a request under way, a banner | probe before a form, probe after a failed htmx request | the session lapses between probe and answer | a form is lost, or a banner shown, only for a real lapse |
| topology page `static/js/topology.js` | filters, layers, collapsed groups, panel, theme | filter, switch a layer, expand, collapse | handlers see only what is in the graph | nothing stays dim or hidden without a cause |
| layout `static/js/{cytoscape-fcose,cose-base,layout-base}.js` | compound graph, cached lists, tiles, pruned trees | sample, tile, prune, iterate, grow, place | lists cached over a changing graph, assertions that throw | no node or edge is lost, and the run ends |
| session, migrations `db/` | the SQLite file | commit or roll back, wait 30 s for the lock | several processes, one file | |
| views (dashboard, topology, network, storage, security, search, generate) | none | queries | | |

How they interact. All front ends call the same services, each in one session
that commits at its end or rolls back (`db/session.py`). There is no shared
memory between the processes: they meet in the SQLite file. Inside the web
process a route declared `def` runs in a worker thread and one declared
`async def` (uploads, collections) on the event loop, and the loop resumes the
dependency that commits the session of either. A transaction gets
the write lock at its first INSERT, UPDATE or DELETE and keeps it until the
commit; a SELECT before that is outside any transaction. So an operation that
writes first runs alone, and one that reads first can find its reads stale.
The imports, `set_noisy` and `delete_image` end with a call of
`write_daily_snapshot`, which rewrites today's trend rows from the live view;
`delete_host`, `delete_cluster`, `add_cluster` and the facts import do not (the
last two change no placement). The rewrite is published when the session
commits. For a file import that is at once; the web's "collect all" is one
session over five parts, with three more ansible runs between the refresh of the
docker part and the commit (the command line has a session per part). An import
notes the exception of a record and goes on. What the record had deleted stays
deleted, and the rows it had added stay in the session, which does not flush
before a query (autoflush is off): the next flush, of another record or of the
log, inserts them. Foreign keys are
declared but not enforced (no PRAGMA turns them on), and rowids are reused
(no AUTOINCREMENT).

A browser request passes the gate (`middleware.py`) by its cookie, or by a
header of the forward-auth outpost; the paths of the MCP endpoint pass it
untouched and meet the bearer check and its key cache. In the page `session.js`
asks `/healthz` before a form is sent and after an htmx request has failed.
`topology.js` fetches the graph that `build_topology` makes once, and from then
on works on it alone; each layout is one synchronous call.

## 2. Modules

| Module | Contents |
|---|---|
| `ImageRefs` | references as records, `canonical_ref`, the join by digest: pure operators |
| `TrendHistory` | the abstract specification of `vuln_snapshots`: a day that is over is history, but for the days one open transaction holds |
| `ImageInventory` | the state machine: tables, the open transaction, imports record by record, edits, deletes, reconstruction, clock; the properties |
| `MCImageInventory` | small instances for TLC |
| `SetFacts` | lemmas for the proofs: least and greatest elements of sets of naturals, computations step by step |
| `ImageInventoryProofs` | the theorems about the inventory: types, the refinement of `TrendHistory`, drift, card against trend, reconstruction, the join by digest, staleness |
| `SharedStore` | sessions statement by statement: accounts and first-run setup, custom fields, host deletion, docker import and collection; the write lock and its timeout, the event loop |
| `MCSharedStore` | a fresh install and a running one, the commands that may be started |
| `SharedStoreProofs` | the theorems about races, broken-off records and the deadlock |
| `WebSession` | the throttle, the gate and the outpost, the session of one browser, one page with its guard |
| `JwksCache` | `_JwksCache` with its lock, its time to live and its forced refetch; a provider that rotates its keys |
| `AccessDoors` | both behind the one middleware |
| `AccessProofs` | the theorems about the doors |
| `Topology` | the topology page on a graph with the expand-collapse plugin |
| `MCTopology` | a small page |
| `TopologyProofs` | the theorems about the page |
| `LayoutGraph` | the compound graph of `layout-base.js` as operators on a value |
| `TileRows` | how a compound without edges is packed into rows |
| `SpectralLayout` | the transformed graph and the sampled distances of the spectral stage |
| `FcoseLayout` | a whole run of the layout, step by step |
| `MCFcoseLayout` | drawings as `build_topology` shapes them |
| `SpectralProofs` | lemmas about forests and searches; the transformed graph is connected |
| `TileProofs` | lemmas about lists; the rows of a compound keep its nodes inside it and apart |
| `FcoseProofs` | the theorems about a run: the pivots, the compound graph while it is tiled, pruned and grown, the tiles and the places |

`ImageInventory` EXTENDS `ImageRefs` and INSTANCEs `TrendHistory`
(`today <- Today, history <- db.snaps, held <- Held`, where `Held` are the days
on which the open transaction shows other rows than the file) to state
`HistoryKept`. `AccessDoors`
EXTENDS `WebSession` and `JwksCache`, which share no state, and lets a
behaviour use one of them. `FcoseLayout` EXTENDS `SpectralLayout` (and through
it `LayoutGraph`) and `TileRows`. `SharedStore` takes the docker import
and the facts import apart once more. In `ImageInventory` a record is one step of
a transaction that nobody else's writes can enter, and what counts is what the
refresh sees; in `SharedStore` the lookup, the DELETE and the flush are steps of
their own, and what counts is what a lock, a crash or another session does between
them.

## 3. From the code to the model

### Image inventory

| Variable | Code |
|---|---|
| `now` | `datetime.utcnow()`; a day is `now \div TicksPerDay` |
| `db` | the committed tables, below |
| `db.images` | table `images`: ref to rowid, digest, noisy flag, `last_scanned_at` |
| `db.scans` | tables `image_scans` and `vulnerabilities`; `of` is a history field, the ref the scan was imported for |
| `db.containers`, `db.workloads` | containers of each host, image refs of each cluster's running pods; their DOMAINs are the hosts and clusters that exist |
| `db.snaps` | table `vuln_snapshots`: day to ref to frozen row |
| `tx` | the one transaction that holds the write lock, if any: `file`, the tables as it sees them; `pending`, rows added to the session and not flushed; `stage`, how far its import is; `refreshed`, the day it last rewrote; `missed`, a history field: rows were pending at that rewrite |
| `plan` | per client, what a session has read and will write: the ids `delete_image` loaded, the rows `backfill_snapshots` computed |

* **References** are records of the parts the code tells apart (registry
  spelling, repository, tag, digest). Cutting them out of a string is left out.
* **Severities.** The six counters are one `total`; no operation treats them
  differently.
* **A transaction** begins with the first write of an import or an edit and
  ends with `commit` or `rollback`. Readers (the properties about cards, lists and
  joins) see `db`; the importer sees `tx.file`. While it is open, other writers
  wait, readers and the clock do not. `stage` is the order of the parts: "collect
  all" imports hosts, then docker listings (`log_docker`), then clusters
  (`log_rest`); file imports and `collect` of one part are the runs that skip the
  others. Its tailscale and ports parts touch nothing here: they are the time
  between `log_rest` and `commit`. `commit` is possible after each part,
  for that is where `CollectError` is caught. Short operations that neither
  refresh nor wait (`add_cluster`, `delete_host`, `delete_cluster`, the write of a
  reconstruction) are one step.
* **`import_trivy`** is one report. It may lack `ArtifactName` (rejected before any
  write) or break off (`breaks_at`): the exception is caught per report, so what
  was written stays.
* **`import_docker`, `import_k8s`** are one record each (a file may hold many, also
  of one host). A record deletes the rows of its host or cluster, adds its own to
  the session and flushes; one that `breaks` keeps the DELETE and leaves
  the rows added so far in `pending`, where the next flush finds them. The rows a
  broken record got through are any listing of the instance. A cluster's earlier flushes
  (a new cluster, a description, a node) are `flushes`. An unknown host writes
  nothing; a record without workloads keeps the old ones. `pending` is a set: where
  the code would insert a container twice, UNIQUE fails the flush and the session
  is rolled back, and the model may also commit it once. `SharedStore` has the clash.
* **`import_log`** is the end of each import: the log, the rewrite of today's rows
  from the tables without what is pending, and the flush that inserts it.
* **`set_noisy`** reads one row before the lock. If that row is deleted in
  between, the UPDATE matches nothing and the transaction rolls back, so it is
  one step.
* **`delete_image`** is `delete_read`, `delete_write`. The two SELECTs of the
  read (image, scans) are one step. The write deletes exactly the rows read, by
  primary key, whatever they are by then.
* **`backfill_snapshots`** is `backfill_read`, `backfill_write`. One collision
  on the UNIQUE key rolls all of it back.
* **`abandon`** is a client that dies or whose wait for the lock runs out.
* **`latest_scan` and `last_listed`.** Both sort by time; SQLite's sort is
  stable over rowid order, so of equal times `.first()` of the descending sort is
  the lowest rowid and the last of the ascending sort the highest.
* **Rowids** are the largest in the table plus one.

Every operation of this module runs because a person or a timer asks for it, and
nothing in it must eventually happen by itself: it has no fairness and no
liveness property. That sessions end is a matter of `SharedStore`.

### Shared store

| Variable | Code |
|---|---|
| `db` | what is committed: users and hosts by name with their rowids, container rows by rowid |
| `lock`, `tx` | the session that holds SQLite's write lock, and the file as that session sees it |
| `loop` | the async handler that runs on the event loop of the web process |
| `sess` | per client its SQLAlchemy session: the command, what it has read (`got`), the statements left (`todo`), rows added and not flushed (`pending`), `dead` after a failed flush. Two fields are history: `overtaken`, another session committed since the read; `mixed`, the hosts whose DELETE last ran while rows of an earlier record of theirs were pending |
| `starts` | how many sessions have begun (a bound) |

* **A session** begins with its command, reads, writes and commits as separate
  steps. `flush_and_commit` is one step where the service itself calls
  `commit()` (accounts, host deletion); elsewhere the flush takes the lock and
  `commit` is the dependency's, which in the web process needs a free event loop.
* **Failure.** `end` is an exception or a command with nothing to do;
  `give_up` the driver's 30 s for the lock; `collect_error` ansible missing,
  failing or killed after 300 s; `interrupted` Ctrl-C on the command line. A
  record of a listing that is no object raises after the DELETE; two containers
  of one name break UNIQUE in the flush, which rolls everything back and leaves
  the session dead for the rest of the import.
* **Imports** are a list of statements. A file or an ansible run holds any records
  (`Lookups`, `Finds`), several of one host included: a hostname, an fqdn and a
  name of the inventory may find the same one. Each record is its lookup and then
  its DELETE and flush, or its upsert; a record that raises, also on a broken
  flush, is noted and the next one begins. The facts import finds the
  host in one step and writes it in another.
* **Reads** come from `db`, except for the lock holder's, which come from `tx`.
* `MaxId` bounds the rowids of the initial files only; a run that goes on takes
  the next ones, and `MaxStarts` is what keeps TLC's instance finite.
* The web's collection is one session with a list of `parts`; the command line
  starts one session per part.
* Creating an account in `/setup` also stamps `last_login_at` and sets the
  cookie; neither is read by anything modelled here.
* Deleting a host is started from the command line only in the run; the route
  does the same in a thread.

### Doors

| Variable | Code |
|---|---|
| `door` | what turns a request away: the app's gate, or an outpost before it (`mcp`: the bearer check) |
| `account` | `users.is_active`, or the row is gone |
| `failures` | `throttle._failures`: count and age of the last failure |
| `attempts` | per worker thread, the login it serves and how far it is |
| `cookie` | the user the signed cookie of this browser names |
| `page` | what the tab shows, whether the banner is up, and the request under way; its `unsure` is a history variable: the session came or went, or a probe failed, since the session was last looked at |
| `published`, `withdrawn` | the provider's keys, and how long ago each was withdrawn |
| `keys`, `expires`, `forced` | `_keys`, `_expires_at`, `_last_forced`, in ticks |
| `queue`, `request` | the waiters of the `anyio.Lock`, its holder first; what each request asks |
| `calm` | history: ticks since the last forced refetch or the boot |

* **Login** is the lock-out check, the slow hash, the count and the cookie, each
  a step of its thread. An expired lock-out starts a fresh count.
* **A redirect** of an htmx request is what the browser makes of it: to the
  outpost's origin a send error; to `/login` a GET that is answered 200 after a
  POST, and a DELETE that is answered 405.
* **Time** is counted in ticks; only differences from the code's limits are kept.
  `_last_forced` starts at 0 on a monotonic clock, so right after the boot of the
  host the rate limit applies without a refetch: `forced` starts anywhere.
* Signatures, claims, group lists and the cookie's format are left out: a session
  is signed in or not, a token names a key.

### Topology page

| Variable | Code |
|---|---|
| `graph` | how far `boot` came: "fetching"; "failed", there is no `cy`; "drawn" or "scoped", an exception after `cy` was set, before or after the scope list was filled; "ready" |
| `plugin` | `ecApi` is set |
| `collapsed`, `expanded` | the plugin's state; topology.js's flag that everything is expanded for a filter |
| `fstate`, `dim`, `match` | the filters, and the elements with the classes they set |
| `boxes`, `hidden`, `exposed` | the layer checkboxes and the classes they set |
| `panel`, `theme`, `styled` | the selected node; the page's theme and the one the style was built from |
| `byHand`, `tucked` | history: groups collapsed by their cue; elements the user collapsed away under a filter and that no filter input has found in the graph since |

Collapsing takes descendants out of the graph, so a handler that runs over
`cy.elements()` does not reach them; they come back with the classes they had.
A filter input is any edit of the search box, also one that is trimmed away.
`boot` catches every exception: one before `cy` is set leaves a page without a
graph (`boot_fails`), one after it an error message over a graph that the filters,
the layers and the buttons go on working on (`boot_breaks`), without cues and taps.
Exceptions are placed at the calls into Cytoscape, the plugin and the layout;
`applyLayers` and `populateScope` are taken to come through.
The plugin is modelled from its source as far as the page calls it (`collapse`,
`expand` and the cue), Cytoscape itself as external.

### Layout

| Variable | Code |
|---|---|
| `at` | where the one call of `Layout.run` is |
| `d` | the drawing: nodes, parents, edges, what is not displayed |
| `near`, `pivots` | `allNodesNeighborhood`, `samplesColumn` |
| `g` | the graphs of `LGraphManager` with their nodes, owners and edges |
| `all` | the manager's cached lists of nodes, edges and nodes under gravity |
| `heavy`, `lengths` | `nodesWithGravity`; per edge the levels its ideal length counts |
| `groups`, `order`, `sizes`, `packs` | `memberGroups`, `compoundOrder`, the sizes and the rows of tiled compounds |
| `pruned` | `prunedNodesAll`, a round of leaves each |
| `loop`, `still` | the counters of `tick`; whether the last moves were small |
| `grid`, `seen` | the nodes in the repulsion grid, and those whose surrounding is known |
| `loc`, `placed` | a node's corner, from that of the node it moves with; what is handed to the drawing |

* The libraries are vendored, and modelled because the page is nothing without
  them and their options are the page's: quality "default", randomized, tiling,
  no animation, no constraints. Their draft quality, constraints, multi-level
  scaling, bend points and radial trees are never reached with these options,
  and packing is not either, since the page does not load that extension.
* `clearCompounds` takes the graphs of `ToBeTiled` away in one step, where the code
  takes one after the other; what is left, and `order`, are the same. A round of
  leaves is grown back in one step (`AddBack`), as `growTree` does.
* A drawing is finite, its parents form a forest (`Forest`), which is what
  `build_topology` sends and what Cytoscape insists on, and a parent that is not
  displayed hides what is in it (`IsDrawing`).
* A node that the layout has not moved or placed yet is `Nowhere`: the position it
  is copied with is the spectral stage's or, where a dummy is made, none.
* Coordinates, forces and the linear algebra are abstract: an iteration either
  moves the nodes visibly or not (`still`), and the offsets of tiles in their
  compound are the only numbers. They are whole, as the sizes of leaves are.
  `relocateComponent` moves everything alike. Springs keep the number of levels
  their edge crosses, which is read from the graph once, before it is pruned.
* Powers of a matrix with a missing distance never settle: `powerIteration` is
  enabled only if every pivot reaches every node. `LGraph.add` and
  `calcIdealEdgeLengths` can throw: `at = "thrown"`.
* `shiftToLastRow` reads a width that layout nodes do not have, so it moves
  nothing; the model says so and leaves the rows as they are. Equal tiles are
  taken in any one order.

## 4. Properties and runs

| Run | Instance | States | Properties |
|---|---|---|---|
| `trend` | 1 report, 2 clients, 3 days of a tick, a scanner one tick ahead, 2 scans | 1.3 M | `HistoryKept`, `NoForeknowledge`, `DriftOnlyByRemoval` |
| `drift` | 5 reports (moving tag, repeated finding, broken, unnamed), 1 host, 1 cluster, no client, 2 days of a tick, 2 scans | 1.4 M | `TypeOK`, `CardMatchesTrend`, `PinnedJoinsContent`, `DriftOnlyByRemoval` |
| `stale` | 2 sources, 3 ticks, 4 scans of 2 images, no client, sources interchangeable | 506 k | `StaleOnlyByMissedRun` |
| `store` | 2 clients, 3 sessions one after the other or at once, 18 commands, users ann and bob, hosts nas and pi, 2 fields, 4 listings, imports of two records of one host or of two | 359 k | `TypeOK`, `OnlyTheLoopDeadlocks`, `AdminLostOnlyByRace`, `SetupOnlyOnFreshInstall`, `FieldLostOnlyByRace`, `OrphansOnlyByRace`, `MixedOnlyByBreakOff`, `SessionsEnd` |
| `topology` | a host in a cluster, a namespace with a critical workload, its image; one layer, one query | 61 k | `TypeOK`, `DimOnlyIfTucked`, `HiddenCriticalShows`, `MatchesReachable` |
| `access` | 1 user, 2 threads, lock-out after 2 failures for 2 ticks; 2 requests, 2 keys and an unknown one, time to live 3, interval 2 | 173 k | `TypeOK`, `LockoutBounded`, `LockoutEnds`, `PostLostOnlyByLapse`, `BannerTruthful`, `LapseIsShown`, `SubmitResolves`, `WithdrawnKeyDies`, `NewKeyRefusedBriefly`, `RefetchesSpaced`, `RequestsAnswered` |
| `layout` | 12-node drawings with any of 8 edges: whole, with one of 4 layers off, or with one of 3 compounds collapsed | 136 k | `TypeOK`, `ColumnsUsable`, `ListsFresh`, `SurroundingsKnown`, `EdgesBack`, `NothingLost`, `TilesInside`, `LayoutEnds` |

* `HistoryKept`: `ImageInventory` implements `TrendHistory`. A step rewrites the
  current day in the open transaction, publishes the days that transaction wrote
  on, adds reconstructed rows without changing any, passes midnight, or leaves the
  trend alone. So a day that is over changes only when a transaction that was open
  at its midnight commits; that this happens at all is in section 5.
* `DriftOnlyByRemoval`: today's rows and the live view part only at midnight, by
  the removal of a host or cluster, by a reconstruction that lands on today, by a
  transaction that refreshed an earlier day, or by one whose refresh ran while
  rows of a broken-off record were pending.
  This is the list of refresh hooks of `docs/design/vuln-trend-snapshots.md`,
  stated so that a forgotten hook is a violation.
* `CardMatchesTrend`: the card (`vuln_summary`, a loop over live rows) and the
  trend (`snapshot_trend`, SQL over frozen rows) are one number while today's
  rows are current.
* `NoForeknowledge`: a row written for a day that is not today holds no scan of
  a later day, even if the reconstruction waited while scans came in.
* `PinnedJoinsContent`: what the digest join promises.
* `StaleOnlyByMissedRun`: an image that keeps its scans turns stale only when a
  scan of another image, newer and of a source that used to see this one, is
  recorded. The condition "keeps its scans" is needed: a stale delete (see
  `adopt`) can take the scans of an image that reuses their rowids. The run has
  no deletes, which set watermarks back; the theorem has.

Shared store. The code checks before it holds the lock, so "an admin always
remains" and the like do not hold; what holds, and is checked, is that they fail
only by a race:

* `AdminLostOnlyByRace`, `SetupOnlyOnFreshInstall`, `FieldLostOnlyByRace`,
  `OrphansOnlyByRace`: the last admin goes, a second account comes from `/setup`,
  a field is lost, a container outlives its host, only if another session
  committed between the reads and the write of this one.
* `MixedOnlyByBreakOff`: whatever fails on the way, a committed import leaves a
  host with what it had or with one listing, up to the row that raised; two
  listings mix only if a DELETE for the host ran while rows of an earlier record of
  it were pending.
* `OnlyTheLoopDeadlocks`: sessions wait in a circle only when a handler on the
  event loop waits for the write lock of a session that waits for the loop to
  commit it; `SessionsEnd`: that circle, too, is broken, by the lock timeout.

Doors.

* `LockoutBounded`, `LockoutEnds`: attempts that pass the check in parallel
  overshoot the limit by at most one per thread; a locked account is let in again
  in the end, whoever keeps trying.
* `PostLostOnlyByLapse`, `BannerTruthful`, `LapseIsShown`, `SubmitResolves`: a
  form is lost to the login page only for a lapse after the probe or a failed
  probe; the banner goes up for a lapse only, and for every lapse seen except the
  one of section 5; nothing hangs on its probe.
* `WithdrawnKeyDies`, `NewKeyRefusedBriefly`, `RefetchesSpaced`,
  `RequestsAnswered`: what the cache promises while the provider rotates and fails.

Topology page. `MatchesReachable`: a filter input leaves every match in the graph,
unless the user collapsed a group around it (section 5). `DimOnlyIfTucked`: with
no filter active, an element is still dim or a match only if the user collapsed it
away, by a cue or by Collapse all, while a filter was on, and no filter input has
found it in the graph since; clearing a filter, switching layers, expanding and
the page's own collapsing leave none behind, in the graph or out of it. What is
tucked away does come back dim: the code clears the classes of what is in the
graph only. `TypeOK` says also that the graph has the colours of the page, once it
is there. `HiddenCriticalShows` goes through the style rules in their order, hosts
excepted (section 5).

Layout. `ColumnsUsable`: the sampled distances give a matrix that can be worked
with. `ListsFresh`, `SurroundingsKnown`: no cached list is stale while the graph
shrinks and grows. `EdgesBack`: at the end every edge of the drawing is in the
graph, but those between a node and a compound around it. `NothingLost`: nothing
throws, and every node is back and has a place of this run. `TilesInside`: the
tiles of a compound lie in it and do not overlap. `LayoutEnds`:
`tick` stops, with trees to grow back or without.

Fairness. Weak fairness is assumed of what must run by itself, never of a user
or a client:

* `store`: a thread, a process and the event loop take the steps they can;
  ansible answers or is killed after 300 s; the driver stops waiting for the lock
  after 30 s. No commit is obliged to come before that.
* `access`: the clock ticks, threads run, a fetch of the page answers or fails
  (the browser gives up), a fetch of keys answers or times out (5 s), and the
  waiters of the `anyio.Lock` are served in order.
* `layout`: one synchronous call that nothing interrupts; the fairness of its
  steps is written with the condition under which one can be taken (`canStep`).

Bounds. A hazard of the inventory needs at most three scans (the third shows a
tie, a reused rowid, or what a delete leaves behind; staleness over two sources
needs the fourth), a past and a present day, one open transaction, and one waiting
client next to it. The passing runs divide that, since all of it at once is beyond
TLC. `trend` has a third day and a second client, so that two reconstructions race
and one waits over two midnights, and one image and no hosts: its properties
compare row by row. `drift` has several images with moving tags and both kinds of
placement, two scans and no client. Placements next to deletes and
reconstructions, and larger numbers of each, are left to the theorems of section 6
and to the counterexample runs. `MaxScans` and `MaxRowId` bound the tables in the
guard of `import_trivy`. In `store` a race needs two sessions at once and a third
to prepare it (an account disabled, a host filled); `MaxStarts` is 3. In `access`
two threads show parallel attempts and two requests the single flight; the limits
are the least that keep "below", "at" and "above" apart. In `layout` the constants
are the least for which every branch of `tick` is taken (a check that converges,
one that does not, the iteration limit with and without pruned trees, cooling to
0), and the 12 nodes have each shape `build_topology` makes. `topology` and
`layers` keep one of four layers that hide and one node to select: layers and
selections do not interact with each other, only with collapsing. Only `store`
disables the deadlock check: after the last session everybody has stopped, as they
may.

Every property has a mutant in `PROJECT.json`, a plausible slip in one definition,
under which its run fails: a missing tag that stays missing, noisy images in the
trend, snapshot rows that follow the images table like a foreign key, a log
without the refresh, a reconstruction without the day comparison, a join by
spelling first, an image called stale by any one source; a guard that counts
disabled admins, a setup page that stays open, a dictionary written with one key,
a deletion without its cascade, old rows that stay, a session dropped without a
rollback, a driver without a timeout; a count that is never fresh, a probe that
never calls back or takes a fault for a lapse, a lock kept when a fetch raises, a
refetch recorded only when it succeeds; a theme switched after the style is built,
groups collapsed before the filter is cleared, an expansion that is not noted, the
first style rule that wins; a level not connected, a list not dropped, both of two
joined leaves pruned, a node grown back without its edge, no gap between tiles,
growth that never finishes. Mutants are operators beside the definition they
replace and are used nowhere else.

## 5. Disagreements between code and documentation

Each of these five is a run that TLC finishes with a counterexample.

| Run | Property | The code | The text |
|---|---|---|---|
| `tie` | `DetailMatchesList` | of two scans with one time, detail shows the first, list the last | "Single-image version of an image_overview row" (`images.py:277`) |
| `counts` | `CountsMatchFindings` | a report that breaks off leaves its findings and a total of 0 | Vulnerabilities feed "per-CVE rows ... and severity roll-up counts" (`docs/image-scanning.md:98`) |
| `drop` | `DeleteShowsDrop` | when nothing counts any more today has no point, and the trend ends at yesterday's total | "a remediation-by-delete shows the drop immediately" (`images.py:315`) |
| `layers` | `LayersHonoured` | a switch reaches what is in the graph only: a layer unticked on the collapsed page, as it loads, shows its elements when a group is drilled into or a filter expands everything | "so the client can toggle layers without re-fetching" (`domain/services/topology.py:5-6`) |
| `adopt` | `ScanHistoryIsOwn` | a scan imported between the read and the write of a delete survives it, and the next new image takes over its rowid | "Delete an image and its scan rows" (`images.py:309`) |

Others were met while modelling and have no run of their own. The models follow
the code, and where a property would be violated by one it says so as an exception.

* `vuln_snapshots.py:29-31` says snapshot and summary "can never disagree".
  Deleting a host or a cluster (`hosts.py:78`) refreshes nothing (excepted in
  `DriftOnlyByRemoval`).
* `docker_import.py:116-117` says that past days stay frozen. The refresh takes
  the date when it runs, and its session commits later: "collect all" runs ansible
  three more times in between (`routes/collect.py:77-94`), so a commit after
  midnight may replace rows of yesterday (excepted in `HistoryKept`, as the days
  held).
* The same comment says that today's snapshot "reflects the new running set
  immediately". A record that raises leaves rows pending (`docker_import.py:66-75`,
  autoflush is off in `session.py:17`): the refresh does not see them and its flush
  inserts them (excepted in `DriftOnlyByRemoval`).
* `docker_import.py:48` says all containers of the host are rewritten from the
  record. If an import has a second record of the host (its hostname, then its fqdn) and
  the first broke off, the DELETE of the second does not remove what is pending:
  both listings are inserted (excepted in `MixedOnlyByBreakOff`).
* `topology.js:12` says any active filter auto-expands, so that matches are
  reachable. It expands only if the flag `expanded` is down (line 280), and
  collapsing by the cue leaves the flag up (excepted in `MatchesReachable`).
* `topology.js:13` says clearing every filter collapses back to the skeleton. It does
  only if the flag is up: not after Collapse all and a cue under the filter, nor
  for a filter typed before the graph was there (line 312; no property claims it).
* `topology.js:282` clears the classes of what is in the graph: what the user
  collapsed away under a filter comes back dim (excepted in `DimOnlyIfTucked`).
* `middleware.py:162-164` says the banner behaves identically behind the outpost
  and the gate, and `session.js:139-140` that a login page fronted same-origin
  cannot land inside a card. At the gate an htmx POST follows the redirect to
  `/login` and is answered 200; the listener looks for the outpost's URL only, so
  the login page is swapped into the card and no banner is shown (excepted in
  `LapseIsShown`).
* `topology.js:10` says a collapsed group with a hidden critical has a red ring;
  hosts are never given the class (excepted in `HiddenCriticalShows`). Line 7
  names a double click that drills in; there is no handler for it.
* A filter typed before the graph has loaded is not applied by `boot` until the
  next input (`boot` leaves the filters alone).
* `cose-base.js:1781-1782` says `shiftToLastRow` moves the last node of the
  longest row; it reads `node.width`, which layout nodes do not have, and never
  moves one.
* `getInclusionTreeDepth` of a graph that is not the root's gives the depth of
  its compound, one less than that of its nodes: an edge between graphs inside a
  compound counts two levels more than the same edge at the top (`GraphDepth`).
* The guard of the last admin and the check of `/setup` are made before the write
  lock is held: see the races of `store`.

## 6. Proofs

### Image inventory

TLAPS proves, for every value of the constants that satisfies `RefsAssumption`
and `InventoryAssumption` (any number of hosts, clusters, clients, sources,
reports, days and rows), every property of the runs `trend`, `drift` and `stale`:

| Theorem | States |
|---|---|
| `TypeCorrect` | `Spec => []TypeOK` |
| `HistoryIsKept` | `Spec => HistoryKept`, the refinement of `TrendHistory` with its held days |
| `DriftsOnlyByRemoval` | `Spec => DriftOnlyByRemoval` |
| `CardAgreesWithTrend` | `Spec => []CardMatchesTrend` |
| `NoForeknowledgeHolds` | `Spec => NoForeknowledge` |
| `PinnedDeploymentsJoinContent` | `Spec => []PinnedJoinsContent` |
| `StaleOnlyByAMissedRun` | `Spec => StaleOnlyByMissedRun` |

The assumptions say that bounds are natural numbers, a day has at least one
tick, listings and reports have the shape the importers accept, the finding set
is finite, and `None` is none of the values it stands beside.

The argument. Everything rests on `LeastNatural` (`SetFacts`), a least element of
a non-empty set of naturals, obtained from the well-foundedness of `<` on `Nat`:
it gives the CHOOSEs of the model (the last scan, the first row with a digest,
the newest time of a source) the members they are meant to name. `TypeOK` is
inductive as it stands; it carries the tables of the open transaction and the rows
a pending plan holds, because both become rows of the trend. The actions are taken
in five groups (`StepShapes`): a record of an import changes the transaction only
and no row of the trend (`RecordStep`), a rewrite changes the current day of it
(`RewriteStep`), an edit by hand touches no row (`HandEdits`), a reconstruction
only adds (`Reconstruction`), and a client reads or gives up. The rows are a
function of the tables (`RowsOfTables`). `DriftsOnlyByRemoval` needs to know of a
transaction about to commit what its rows were computed from. The strengthening is
`TxFaithful`: a transaction that so far has imported hosts has changed nothing but
added hosts without containers, and one that is between a refresh and its commit
holds for the day it refreshed the rows of its own tables, unless rows were pending
then.
`NoForeknowledge` is not inductive: what a reconstruction writes was computed
earlier. The strengthening is `PlansKnowThePast`, which says of every pending
plan what the property says of the rows written. `CardMatchesTrend` is proved
by showing that the two totals are folds of one function. Staleness goes by
comparing the watermark of one source before and after the step, with `IdsKept`: the
open transaction has the images of the file, under their rowids, but for those it
has added or deletes.

### Doors

For every value of the constants that satisfies `WebSessionAssumption` and
`JwksAssumption` (any number of users, threads, requests and keys, any limits):

| Theorem | States |
|---|---|
| `DoorsTyped` | `Spec => []TypeOK` |
| `FormsAreKept` | `Spec => PostLostOnlyByLapse` |
| `BannerIsTrue` | `Spec => BannerTruthful` |
| `WithdrawnKeysDie` | `Spec => WithdrawnKeyDies` |
| `RefetchesAreSpaced` | `Spec => RefetchesSpaced` |
| `NewKeysRefusedBriefly` | `Spec => NewKeyRefusedBriefly` |
| `LapsesAreShown` | `Spec => LapseIsShown` |
| `LockoutIsBounded` | `Spec => []LockoutBounded` |

The assumptions say that the limits are positive numbers, that the unknown key is
none of the provider's, and that `None` and `Nothing` are none of the values
they stand beside.

The argument. The page's invariant is `GuardInv`: a request that has its probe's
answer, and whose session has not come or gone since, agrees with the session.
The cache's is `CacheInv`, the type invariant with two parts: `AgesInv` compares
ages (the time since a cached key was withdrawn and the time the cache has left
come to at most its time to live), and `LookInv` says that the rate limit goes by
the time `calm` counts, that only the holder of the lock is past waiting, and that
a key published all along is in the set fetched for its request. Both are needed
because the properties speak of two moments, the probe or the fetch and
the use of its result. Each is proved to hold at first and to be kept by every
action, one lemma per group of actions, and the action properties follow.
`LockoutBounded` is not inductive, since it does not say who may still fail. The
strengthening is `ThrottleInv`: the failures counted and the attempts that have
passed the check and not yet been counted are together within the limit, unless a
lock-out has expired, where the next failure starts a fresh count. The number of
threads enters as a cardinality, so the proof counts finite sets.

### Sessions on one file

For every value of the constants that satisfies `SharedStoreAssumption` (any
number of clients, sessions, accounts, hosts, fields, containers and listings):

| Theorem | States |
|---|---|
| `StoreTyped` | `Spec => []TypeOK` |
| `DeadlocksAreOfTheLoop` | `Spec => []OnlyTheLoopDeadlocks` |
| `AdminsAreLostByRace` | `Spec => AdminLostOnlyByRace` |
| `SetupsRaceOnly` | `Spec => SetupOnlyOnFreshInstall` |
| `FieldsAreLostByRace` | `Spec => FieldLostOnlyByRace` |
| `OrphansComeByRace` | `Spec => OrphansOnlyByRace` |
| `ListingsMixOnlyByBreakOff` | `Spec => MixedOnlyByBreakOff` |

The assumptions say that the initial files are tables with distinct rowids, that a
command has the shape the front ends give it, and that `None` and the record that
is no object are none of the values they stand beside.

The argument. `StoreInv` gives each session the shape of its program counter,
says who may hold the lock between two steps, and keeps both files tables with
bounded rowids: so a row added gets a rowid that is not in use (`FreshId`). That a
handler on the loop never waits for the loop itself makes every circle of waiting
one through the loop. The race theorems say what an *overtaken* session is not: a
session that no commit has overtaken has read what is still committed. That is an
invariant per kind of data (`UsersInv` for accounts, `FieldInv` for dictionaries,
`AimInv` and `OrphanInv` for hosts and containers), kept because a commit either
changes nothing that the others have read or marks all of them overtaken.
`ListingInv` says of every host what an import's transaction may hold for it at each
of its steps: the rows of before; none, with the rows of one listing pending; or
one listing, as far as it was read; and nothing for the hosts in `mixed`, until a
DELETE with none of their rows pending takes them out of it. It rests on `PendInv`:
rows are pending only behind a DELETE, in the session that holds the lock. The
steps of a session are classified once, by what they do to the two files and the
lock (`Outcomes`), and the theorems go by that.

### Topology page

For every value of the constants that satisfies `TopologyAssumption` (any graph of
groups, edges, classes, layers and queries):

| Theorem | States |
|---|---|
| `PageTyped` | `Spec => []TypeOK` |
| `DimsOnlyIfTucked` | `Spec => []DimOnlyIfTucked` |
| `MatchesAreReachable` | `Spec => MatchesReachable` |
| `HiddenCriticalsShow` | `Spec => []HiddenCriticalShows` |

The assumptions are what `topology.py` sends: parents without cycles, edges
between nodes, a group around a critical node is a host or flagged `has-crit`
(`mark_crit`), images are no groups, and the classes the page sets itself are not
set by the server. The argument. `HandInv`: while the page believes that everything is
expanded for a filter, only the user's cues have collapsed anything, and without the
plugin nothing is collapsed. `DimInv`: an element that is dim or a match is
in the graph while a filter is active, where the next filter input finds it, or is
tucked away; the groups a filter expands and a cleared one collapses keep that,
because the filter looks before the page collapses.
`HiddenCriticalShows` follows from the order of the rules in `BorderRules`, where
only the match and the selection come after the critical one.

### Layout

For every value of the constants that satisfies `DrawingsAssumption`,
`FcoseAssumption` and `TileAssumption` (any finite drawings whose parents form a
forest, any sizes, gaps, periods and limits), every property of the run `layout`
but `LayoutEnds`:

| Theorem | States |
|---|---|
| `LayoutTyped` | `Spec => []TypeOK` |
| `NothingIsThrown` | `Spec => []NothingThrown`, the first part of `NothingLost` |
| `NothingIsLost` | `Spec => []NothingLost` |
| `TilesLieInside` | `Spec => []TilesInside` |
| `ColumnsAreUsable` | `Spec => []ColumnsUsable` |
| `ListsAreFresh` | `Spec => []ListsFresh` |
| `SurroundingsAreKnown` | `Spec => []SurroundingsKnown` |
| `EdgesComeBack` | `Spec => []EdgesBack` |

The assumptions say what a drawing is, that the dummy of a compound and `Unset` are
no nodes of it, that leaves have natural numbers as sizes, that the periods of
`tick` are at least two iterations, and that at least two are allowed (the libraries
have 100, 10 and 10 as periods and a limit of 2500).

The argument has three inductive invariants. The first, on which the third rests, is
`LayoutInv` (`LayoutInvariant`). `GraphInv`
says that the compound graph is one: a node is a member of the graph that owns it,
every owner is there, and edges join nodes in graphs. `ListsInv` says of each stage
which cached lists are of the graph as it is and which are dropped. `LoopInv` bounds
the counters of `tick` and says that growth ends with nothing left to grow.
`PrunedInv` is what makes `AddBack` safe: the neighbour of a pruned leaf is in its
owner's graph or was pruned in a later round, which is grown first; two joined
leaves are never pruned together (`LeafFacts`). `EdgesInv` accounts for the edges,
in the graph or pruned with their leaf, and says that a spring is long exactly where
its edge leaves its graph; `SourceInv` traces them to the drawing across tiling,
which drops the edges between a node and a compound around it.

The model recurs over the forest: the compounds above a node (`Above`, `Ancestors`,
from which a graph's depth is counted) and the tiling of a compound with what is
inside it (`getToBeTiled`). The library's theorem on recursive functions is out of
reach, so the proofs construct the solution as a least closed set (`UpUnfolds`) or a
greatest one, and what holds upwards is proved from `Forest` in the form that every
non-empty set of nodes has one whose parent is outside it (`ForestInduction`), or
downwards (`DownInduction`, `DownRecursion`). A computation that goes by numbers is
built the same way (`Iteration`, `UpTo`): the rounds of a search, the packing of
one tile after another, the compounds cleared and adjusted in their order. So the
recursive definitions are unfolded by lemmas, each shown to be the computation.

`SampleInv` (`SampleInvariant`) is the second invariant: the pivots are different
nodes of the transformed graph, and never more than it has. `ColumnsUsable` needs
two facts about any drawing. The transformed graph is connected: a level's pieces
are joined by its dummy, a compound is stood for by a leaf inside it, and so each
level is connected if those below it are (`TransformedIsConnected`). And a search
reaches all of a connected graph: a round that finds nothing new ends in a closed
set, and there cannot be as many rounds as nodes that each find another
(`SearchIsClosed`). With all distances there and a node left that is no pivot, the
farthest from the pivots is at least one edge away, so it is a new one
(`FarthestIsNew`).

`TileInv` (`TileInvariant`) is the third, in three parts. `HomeInv` says where a node
that was copied is: in its graph, with its compound tiled, or pruned with its
round. `PacksInv` says that each compound of `compoundOrder` is packed by the sizes
its members have in the end: the order is an inner one (`Inner`, `OrderIsInner`), so a
member that is a compound has its size before it is packed (`OneTiled`). `LocInv`
says where nodes lie: the first iteration moves whatever is in the graph, and at
least one comes before the end; after `tilingPostLayout` the members of every
compound are at their offsets from where the compound is *then*, for the reversed
order moves the outer compounds first (`TilePost`). The order matters in both
directions, and one that put a compound on the wrong side of its parent would
break the invariant. `Organized` is inductive over the tiles: each node has one
place in the rows, the width of a row is where its last node ends, and the height
of the whole is where its last row ends (`InsertKeeps`, `TilesOrganized`). From it
`adjustLocations` is seen to keep the nodes in the compound and apart
(`OrganizedIsPlaced`): in a row each begins a gap after the one before it, and the
rows begin one below another by the height kept for them.

### Only model-checked

* Every liveness property (`SessionsEnd`, `LockoutEnds`, `SubmitResolves`,
  `RequestsAnswered`, `LayoutEnds`): fairness is out of the prover's reach. Every
  other property of a passing run is a theorem.
* The five counterexamples.

The sums of the trend are compared as functions and never evaluated in a proof: the
prover has no induction over the folds they are written with.

## 7. Not modelled

String handling of references and import files; import logs; host data other
than existence, custom fields and containers, and with it the change history;
nodes, namespaces and roles of clusters; tailscale services and ports (as the
docker import, on tables nothing else joins); export and restore; OIDC and the
group lists of sessions and tokens; passwords; the MCP tools (wrappers over
modelled services); migrations, configuration, templates and read-only views;
demo data and the scanners' shell scripts, whose output is an input of the
imports.

In the browser: coordinates, forces and the spectral decomposition; the options
the page does not set (section 3); `cytoscape.min.js` and `htmx.min.js`, external.

`PROJECT.json` lists every component with its reason, and the hazards no property
covers yet with theirs.

## 8. Plan

What is left, in this order.

1. `SharedStore`: the cluster, tailscale and ports imports as further kinds of `todo`.
2. `HostFacts`: machine-id upsert, change history, the clock set back.
3. `Restore`: a dump table by table between commits, a restore that wipes.
4. The group cache of the token check, and sessions whose groups change.
5. For the image inventory: late imports that set `digest` and `last_scanned_at`
   back, and a bounded-loss statement for `adopt`.
