--------------------------- MODULE ImageInventory ---------------------------
(***************************************************************************)
(* The image inventory of HomeLabCMDB: images and their scans, where they  *)
(* run (docker containers, kubernetes workloads), the daily snapshots that *)
(* feed the dashboard's trend, and every operation that touches them.      *)
(*                                                                         *)
(* The processes (web, CLI, MCP) share one SQLite file.  A transaction     *)
(* takes the write lock at its first INSERT, UPDATE or DELETE and holds it *)
(* to its commit: db is what is committed and what every reader sees, tx   *)
(* the one transaction that may be open.  An import runs record by record  *)
(* in its transaction and ends with the rewrite of today's rows; the web's *)
(* "collect all" runs its parts in one, with minutes of ansible between    *)
(* the rewrite and the commit, so midnight may lie between them.           *)
(*                                                                         *)
(* delete_image and backfill_snapshots read before they write: each is a   *)
(* read step that leaves a plan and a write step that carries it out.      *)
(***************************************************************************)
EXTENDS Integers, FiniteSets, FiniteSetsExt, Sequences, ImageRefs

CONSTANTS Hosts, Clusters,
          Clients,         \* sessions that may sit between a read and its write
          Sources,         \* ImageScan.source
          Findings,        \* distinct (CVE, package, version) keys
          Reports,         \* trivy reports: [ref, digest, results, breaks_at]
          DockerListings,  \* the rows a docker record may carry: sets of container rows
          PodListings,     \* the rows a kubernetes record may carry: sets of refs
          TicksPerDay, MaxTime,  \* the clock: bound
          ClockSkew,       \* how far ahead of us a scanner's clock may be
          MaxScans, MaxRowId,    \* bounds on the tables
          WindowDays       \* length of the trend window

Times == 0 .. MaxTime
Day(t) == t \div TicksPerDay
Days == 0 .. Day(MaxTime)
RowIds == 1 .. MaxRowId
NoRows == [r \in {} |-> None]

ContainerRow == [image : RawRef, running : BOOLEAN]
ImageRowType == [id : RowIds, digest : Digests \cup {None}, noisy : BOOLEAN,
                 last_scanned_at : Times]
ScanRow == [id : RowIds, image_id : RowIds, of : ImageRef, at : Times,
            source : Sources, total : Nat, vulns : SUBSET Findings]
SnapRow == [total : Nat, scanned_at : Times,
            was_running : BOOLEAN, was_noisy : BOOLEAN]

ASSUME InventoryAssumption ==
    /\ TicksPerDay \in Nat \ {0} /\ MaxTime \in Nat /\ ClockSkew \in Nat
    /\ MaxScans \in Nat /\ MaxRowId \in Nat /\ WindowDays \in Nat
    /\ IsFiniteSet(Findings)
    /\ DockerListings \subseteq SUBSET ContainerRow
    /\ PodListings \subseteq SUBSET RawRef /\ None \notin PodListings
    /\ \A rep \in Reports :
         /\ rep.ref \in RawRef \cup {None} /\ rep.digest \in Digests \cup {None}
         /\ rep.results \in Seq(SUBSET Findings) /\ rep.breaks_at \in Nat
    /\ None \notin ScanRow /\ None \notin Days

VARIABLES
    now,    \* the server's clock (naive UTC)
    db,     \* the committed tables: [images, scans, containers, workloads, snaps]
            \*   images:     ref -> [id, digest, noisy, last_scanned_at]
            \*   scans:      image_scans (with their vulnerabilities), by image_id
            \*   containers: host -> its container rows
            \*   workloads:  cluster -> image refs of its running pods
            \*   snaps:      vuln_snapshots, day -> (ref -> row)
    tx,     \* the open transaction that holds the write lock, or None
            \*   file:      the tables as it sees them
            \*   pending:   rows added to the session and not yet flushed
            \*   stage:     how far its import has come
            \*   refreshed: the day it last rewrote, or None
            \*   missed:    some rows were pending at that rewrite (history)
    plan    \* client -> what it read and has not yet written, or None

vars == <<now, db, tx, plan>>

Today == Day(now)

------------------------------------------------------------------------------
(* Scans of an image, and which one is the latest.  The readers take the   *)
(* tables they read: the committed ones, or those of a transaction.        *)

ScansOf(d, r) == {s \in d.scans : s.image_id = d.images[r].id}

\* latest_scan: ORDER BY scanned_at DESC, first row; SQLite's sort is stable,
\* so of equal times the row inserted first comes first.
latest_scan(S) ==
    CHOOSE s \in S : \A t \in S : t.at < s.at \/ (t.at = s.at /\ s.id =< t.id)

\* image_overview and backfill: ORDER BY scanned_at, the last row wins.
last_listed(S) ==
    CHOOSE s \in S : \A t \in S : t.at < s.at \/ (t.at = s.at /\ t.id =< s.id)

SourcesOf(S) == {s.source : s \in S}
NewestOf(S, src) == Max({s.at : s \in {t \in S : t.source = src}})

source_watermarks(d) == [src \in SourcesOf(d.scans) |-> NewestOf(d.scans, src)]

\* mutant: one late source is enough to call an image stale
is_stale_any_source(d, r) ==
    \E src \in SourcesOf(ScansOf(d, r)) :
        NewestOf(ScansOf(d, r), src) < source_watermarks(d)[src]

\* The image missed the newest run of every source it is known to.
is_stale(d, r) ==
    /\ ScansOf(d, r) # {}
    /\ \A src \in SourcesOf(ScansOf(d, r)) :
           NewestOf(ScansOf(d, r), src) < source_watermarks(d)[src]

------------------------------------------------------------------------------
(* Where an image runs: the join of placements to Image rows.               *)

container_key(d, c) == resolve_image_ref(c.image, canonical_ref(c.image), d.images)
workload_key(d, w) == resolve_image_ref(w, canonical_or_none(w), d.images)

container_placements(d, r) ==
    {h \in DOMAIN d.containers :
        \E c \in d.containers[h] : c.running /\ container_key(d, c) = r}

k8s_placements(d, r) ==
    {k \in DOMAIN d.workloads : \E w \in d.workloads[k] : workload_key(d, w) = r}

is_running(d, r) == container_placements(d, r) # {} \/ k8s_placements(d, r) # {}

------------------------------------------------------------------------------
(* The read surfaces: list, detail, summary card, trend.                    *)

overview_row(d, r, scan) ==
    [scan   |-> scan,
     stale  |-> is_stale(d, r),
     status |-> IF is_running(d, r) THEN "running" ELSE "registry-only"]

never_scanned(d, r) == ScansOf(d, r) = {}

image_overview(d) == [r \in DOMAIN d.images |->
    overview_row(d, r, IF never_scanned(d, r) THEN None ELSE last_listed(ScansOf(d, r)))]
image_status(d, r) ==
    overview_row(d, r, IF never_scanned(d, r) THEN None ELSE latest_scan(ScansOf(d, r)))

Total(f) == FoldFunction(+, 0, f)

\* The severity totals of the latest scan of each non-noisy image, by status.
vuln_summary(d, status) ==
    Total([r \in {q \in DOMAIN d.images : /\ ~ d.images[q].noisy
                                          /\ image_overview(d)[q].status = status
                                          /\ image_overview(d)[q].scan # None}
              |-> image_overview(d)[r].scan.total])

\* One row as the snapshot freezes it.
frozen(d, r, scan) == [total       |-> scan.total,
                       scanned_at  |-> scan.at,
                       was_running |-> is_running(d, r),
                       was_noisy   |-> d.images[r].noisy]

ScannedImages(d) == {r \in DOMAIN d.images : ~ never_scanned(d, r)}
SnapshotRows(d) ==
    [r \in ScannedImages(d) |-> frozen(d, r, last_listed(ScansOf(d, r)))]

\* mutant: the trend counts noisy images, which the card leaves out
Counted_with_noisy(day) == {r \in DOMAIN db.snaps[day] : db.snaps[day][r].was_running}

\* Rows the trend counts on a day, and that day's point.
Counted(day) == {r \in DOMAIN db.snaps[day] :
                    db.snaps[day][r].was_running /\ ~ db.snaps[day][r].was_noisy}
trend_total(day) == Total([r \in Counted(day) |-> db.snaps[day][r].total])

\* The days with a point: a day on which no row counts has none.
snapshot_trend == {day \in Days : Today - WindowDays =< day /\ Counted(day) # {}}

\* The current end of the trend line, 0 for an empty one.
end_total == IF snapshot_trend = {} THEN 0 ELSE trend_total(Max(snapshot_trend))

------------------------------------------------------------------------------
(* Transactions.                                                            *)

NothingPending == [containers |-> {}, workloads |-> {}]

\* The open transaction, or the one that a first write opens.
Work == IF tx # None THEN tx
        ELSE [file |-> db, pending |-> NothingPending, stage |-> "start",
              refreshed |-> None, missed |-> FALSE]
Reached(stages) == Work.stage \in stages

\* session.flush(): everything added to the session is inserted.
Inserted(d, pending) ==
    [d EXCEPT !.containers = [h \in DOMAIN @ |->
                  @[h] \cup {c \in ContainerRow : <<h, c>> \in pending.containers}],
              !.workloads = [k \in DOMAIN @ |->
                  @[k] \cup {w \in RawRef : <<k, w>> \in pending.workloads}]]
Flushed(t) == [t EXCEPT !.file = Inserted(@, t.pending), !.pending = NothingPending]

\* mutant: rows of every day follow the images table, as a foreign key would
write_daily_snapshot_cascading(d) ==
    [d EXCEPT !.snaps = [day \in Days |->
        IF day = Today THEN SnapshotRows(d)
        ELSE [r \in DOMAIN @[day] \cap DOMAIN d.images |-> @[day][r]]]]

\* Delete today's rows and add one per scanned image, from the tables as they
\* stand: rows that are pending (autoflush is off) are not seen.
write_daily_snapshot(d) == [d EXCEPT !.snaps[Today] = SnapshotRows(d)]

\* The flush that ends it also inserts what was pending.
Refreshed(t) == [Flushed([t EXCEPT !.file = write_daily_snapshot(@)])
                    EXCEPT !.refreshed = Today,
                           !.missed = t.pending # NothingPending]

\* The session ends: a request or a command that returned, also one that gave
\* up on a later part of "collect all" ...
commit == /\ tx # None /\ tx.stage \in {"hosts", "logged", "end"}
          /\ db' = tx.file
          /\ tx' = None
          /\ UNCHANGED <<now, plan>>

\* ... or one that raised, or died.
rollback == /\ tx # None
            /\ tx' = None
            /\ UNCHANGED <<now, db, plan>>

------------------------------------------------------------------------------
(* Trivy import.                                                            *)

\* SQLite's next rowid: one more than the largest in the table.
IsNextRowId(i, used) ==
    (\A j \in used : j < i) /\ (i = 1 \/ i - 1 \in used)

ImageIds(d) == {d.images[r].id : r \in DOMAIN d.images}
ScanIds(d) == {s.id : s \in d.scans}

\* A report is read Result by Result up to the one the importer raises on
\* (breaks_at, 0 for a well-formed report).
Malformed(rep) == rep.breaks_at # 0
Parsed(rep) == {i \in DOMAIN rep.results : Malformed(rep) => i < rep.breaks_at}

\* Findings are deduplicated over the whole report.
found(rep) == UNION {rep.results[i] : i \in Parsed(rep)}

\* The counts are assigned after the loop: an exception inside it is caught by
\* import_scan_run and leaves the scan with the column default, 0, and with
\* the findings read so far.
report_total(rep) == IF Malformed(rep) THEN 0 ELSE Cardinality(found(rep))

\* Get or create the image, overwrite its digest and last_scanned_at, add a scan.
ingest_report(d, rep, at, src) ==
    LET ref == canonical_ref(rep.ref)
        old == ref \in DOMAIN d.images
    IN  \E image_id \in RowIds, scan_id \in RowIds :
          /\ IF old THEN image_id = d.images[ref].id
             ELSE IsNextRowId(image_id, ImageIds(d))
          /\ IsNextRowId(scan_id, ScanIds(d))
          /\ tx' = [Work EXCEPT
                !.stage = "trivy",
                !.file.images = [r \in DOMAIN d.images \cup {ref} |->
                    IF r # ref THEN d.images[r]
                    ELSE [id |-> image_id, digest |-> rep.digest,
                          noisy |-> IF old THEN d.images[ref].noisy ELSE FALSE,
                          last_scanned_at |-> at]],
                !.file.scans = @ \cup {[id |-> scan_id, image_id |-> image_id,
                                        of |-> ref, at |-> at, source |-> src,
                                        total |-> report_total(rep),
                                        vulns |-> found(rep)]}]

\* One report of a file.  One without ArtifactName is rejected before any
\* write but that of the import's log, which comes first here.
import_trivy(rep, at, src) ==
    /\ Reached({"start", "trivy"})
    /\ at =< now + ClockSkew
    /\ IF rep.ref = None THEN tx' = [Work EXCEPT !.stage = "trivy"]
       ELSE /\ Cardinality(Work.file.scans) < MaxScans
            /\ ingest_report(Work.file, rep, at, src)
    /\ UNCHANGED <<now, db, plan>>

------------------------------------------------------------------------------
(* Inventory imports: each record replaces what it reports.  A record that  *)
(* raises in the loop over its rows, after the DELETE, is noted in the log: *)
(* the rows before the break stay in the session, for a later flush.        *)

\* The ansible facts import creates a host; it has no containers yet.
import_host(h) ==
    /\ Reached({"start", "hosts"})
    /\ h \notin DOMAIN Work.file.containers
    /\ tx' = [Work EXCEPT !.stage = "hosts",
                          !.file.containers = [g \in DOMAIN @ \cup {h} |->
                              IF g = h THEN {} ELSE @[g]]]
    /\ UNCHANGED <<now, db, plan>>

\* One record of a docker import (an unknown host is noted, nothing written).
import_docker(h, listing, breaks) ==
    /\ Reached({"start", "hosts", "docker"})
    /\ h \in DOMAIN Work.file.containers
    /\ LET replaced == [Work EXCEPT !.stage = "docker",
                                    !.file.containers[h] = {},
                                    !.pending.containers = @ \cup ({h} \X listing)]
       IN  tx' = IF breaks THEN replaced ELSE Flushed(replaced)
    /\ UNCHANGED <<now, db, plan>>

\* One record of a kubernetes import: the cluster is created if new (with a
\* flush, as have a new description and a node); its workloads are replaced
\* only when the record carries them (pods # None).
import_k8s(k, pods, flushes, breaks) ==
    /\ Reached({"start", "logged", "k8s"})
    /\ LET named == [Work EXCEPT !.stage = "k8s",
                                 !.file.workloads = [c \in DOMAIN @ \cup {k} |->
                                     IF c \in DOMAIN @ THEN @[c] ELSE {}]]
           begun == IF flushes \/ k \notin DOMAIN Work.file.workloads
                    THEN Flushed(named) ELSE named
           done  == IF pods = None THEN begun
                    ELSE [begun EXCEPT !.file.workloads[k] = {},
                                       !.pending.workloads = @ \cup ({k} \X pods)]
       IN  tx' = IF breaks THEN done ELSE Flushed(done)
    /\ UNCHANGED <<now, db, plan>>

\* mutant: the log leaves today's rows for the next scan to correct
import_log_unhooked(before, after) ==
    /\ Reached(before)
    /\ tx' = [Flushed(Work) EXCEPT !.stage = after]
    /\ UNCHANGED <<now, db, plan>>

\* Every trivy, docker or kubernetes import, also one without a usable record,
\* ends with its log and the rewrite of today's rows.
import_log(before, after) ==
    /\ Reached(before)
    /\ tx' = [Refreshed(Work) EXCEPT !.stage = after]
    /\ UNCHANGED <<now, db, plan>>

\* After the docker part "collect all" goes on with kubernetes.
log_docker == import_log({"start", "hosts", "docker"}, "logged")
log_rest == import_log({"start", "logged", "k8s", "trivy"}, "end")

------------------------------------------------------------------------------
(* Placements edited by hand, each in a short transaction of its own.       *)

\* A cluster added by hand has no workloads yet; its name is unique.
add_cluster(k) ==
    /\ tx = None /\ k \notin DOMAIN db.workloads
    /\ db' = [db EXCEPT !.workloads = [c \in DOMAIN @ \cup {k} |->
                                          IF c = k THEN {} ELSE @[c]]]
    /\ UNCHANGED <<now, tx, plan>>

\* Deleting a host or a cluster cascades to its rows and refreshes nothing.
delete_host(h) ==
    /\ tx = None /\ h \in DOMAIN db.containers
    /\ db' = [db EXCEPT !.containers = [g \in DOMAIN @ \ {h} |-> @[g]]]
    /\ UNCHANGED <<now, tx, plan>>

delete_cluster(k) ==
    /\ tx = None /\ k \in DOMAIN db.workloads
    /\ db' = [db EXCEPT !.workloads = [c \in DOMAIN @ \ {k} |-> @[c]]]
    /\ UNCHANGED <<now, tx, plan>>

------------------------------------------------------------------------------
(* Edits of an image.                                                       *)

\* Its one read precedes the lock; if the row is deleted in between, the
\* UPDATE matches nothing and the transaction rolls back: no step.
set_noisy(r, value) ==
    /\ tx = None /\ r \in DOMAIN db.images
    /\ tx' = Refreshed([Work EXCEPT !.file.images[r].noisy = value, !.stage = "end"])
    /\ UNCHANGED <<now, db, plan>>

\* delete_image reads the row and its scans before it holds any lock ...
delete_read(c, r) ==
    /\ plan[c] = None
    /\ r \in DOMAIN db.images
    /\ plan' = [plan EXCEPT ![c] = [op |-> "delete", image_id |-> db.images[r].id,
                                    scan_ids |-> {s.id : s \in ScansOf(db, r)}]]
    /\ UNCHANGED <<now, db, tx>>

\* ... and then deletes exactly those rows, by primary key.
delete_write(c) ==
    /\ tx = None
    /\ plan[c] # None /\ plan[c].op = "delete"
    /\ tx' = Refreshed([Work EXCEPT
                !.stage = "end",
                !.file.images = [r \in {q \in DOMAIN @ : @[q].id # plan[c].image_id}
                                    |-> @[r]],
                !.file.scans = {s \in @ : s.id \notin plan[c].scan_ids}])
    /\ plan' = [plan EXCEPT ![c] = None]
    /\ UNCHANGED <<now, db>>

------------------------------------------------------------------------------
(* Reconstruction of past days.                                             *)

\* mutant: the day of the scan is not compared, later scans leak into the past
scans_of_any_day(r, day) == ScansOf(db, r)

scans_until(r, day) == {s \in ScansOf(db, r) : Day(s.at) =< day}

\* For each date with scans and no rows, the latest scan until then of each
\* image, under the current running and noisy flags.
backfill_rows(day) ==
    IF (\E s \in db.scans : Day(s.at) = day) /\ db.snaps[day] = NoRows
    THEN [r \in {q \in DOMAIN db.images : scans_until(q, day) # {}} |->
             frozen(db, r, last_listed(scans_until(r, day)))]
    ELSE NoRows

backfill_read(c) ==
    /\ plan[c] = None
    /\ db.scans # {}
    /\ plan' = [plan EXCEPT ![c] = [op |-> "backfill",
                                    rows |-> [day \in Days |-> backfill_rows(day)]]]
    /\ UNCHANGED <<now, db, tx>>

\* UNIQUE (snapshot_date, image_ref): one collision rolls everything back.
collides(rows) == \E day \in Days : DOMAIN rows[day] \cap DOMAIN db.snaps[day] # {}

backfill_write(c) ==
    /\ tx = None
    /\ plan[c] # None /\ plan[c].op = "backfill"
    /\ db' = IF collides(plan[c].rows) THEN db
             ELSE [db EXCEPT !.snaps = [day \in Days |->
                      [r \in DOMAIN @[day] \cup DOMAIN plan[c].rows[day] |->
                          IF r \in DOMAIN @[day] THEN @[day][r]
                          ELSE plan[c].rows[day][r]]]]
    /\ plan' = [plan EXCEPT ![c] = None]
    /\ UNCHANGED <<now, tx>>

\* The process dies, or gives up on the write lock after its 30 s timeout.
abandon(c) ==
    /\ plan[c] # None
    /\ plan' = [plan EXCEPT ![c] = None]
    /\ UNCHANGED <<now, db, tx>>

\* Time passes, also inside a transaction.
tick == /\ now < MaxTime
        /\ now' = now + 1
        /\ UNCHANGED <<db, tx, plan>>

------------------------------------------------------------------------------
Init == /\ now = 0
        /\ db = [images     |-> [r \in {} |-> None],
                 scans      |-> {},
                 containers |-> [h \in {} |-> None],
                 workloads  |-> [k \in {} |-> None],
                 snaps      |-> [day \in Days |-> NoRows]]
        /\ tx = None
        /\ plan = [c \in Clients |-> None]

Next ==
    \/ \E rep \in Reports, at \in Times, src \in Sources : import_trivy(rep, at, src)
    \/ \E h \in Hosts : import_host(h)
    \/ \E h \in Hosts, listing \in DockerListings, breaks \in BOOLEAN :
          import_docker(h, listing, breaks)
    \/ \E k \in Clusters, pods \in PodListings \cup {None},
          flushes \in BOOLEAN, breaks \in BOOLEAN : import_k8s(k, pods, flushes, breaks)
    \/ log_docker
    \/ log_rest
    \/ commit
    \/ rollback
    \/ \E k \in Clusters : add_cluster(k)
    \/ \E h \in Hosts : delete_host(h)
    \/ \E k \in Clusters : delete_cluster(k)
    \/ \E r \in ImageRef, value \in BOOLEAN : set_noisy(r, value)
    \/ \E c \in Clients, r \in ImageRef : delete_read(c, r)
    \/ \E c \in Clients : delete_write(c)
    \/ \E c \in Clients : backfill_read(c)
    \/ \E c \in Clients : backfill_write(c)
    \/ \E c \in Clients : abandon(c)
    \/ tick

Spec == Init /\ [][Next]_vars

------------------------------------------------------------------------------
(* Types.                                                                   *)

IsDayRows(f) == DOMAIN f \subseteq ImageRef /\ f \in [DOMAIN f -> SnapRow]
IsCalendar(f) == f = [day \in Days |-> f[day]] /\ \A day \in Days : IsDayRows(f[day])

\* The tables the snapshots are computed from.
ImagesTyped(d) == /\ DOMAIN d.images \subseteq ImageRef
                  /\ d.images \in [DOMAIN d.images -> ImageRowType]
TablesTyped(d) == ImagesTyped(d) /\ d.scans \subseteq ScanRow
PlacementsTyped(d) ==
    /\ DOMAIN d.containers \subseteq Hosts
    /\ d.containers \in [DOMAIN d.containers -> SUBSET ContainerRow]
    /\ DOMAIN d.workloads \subseteq Clusters
    /\ d.workloads \in [DOMAIN d.workloads -> SUBSET RawRef]
IsDatabase(d) ==
    /\ d = [images |-> d.images, scans |-> d.scans, containers |-> d.containers,
            workloads |-> d.workloads, snaps |-> d.snaps]
    /\ TablesTyped(d) /\ PlacementsTyped(d) /\ IsCalendar(d.snaps)

PendingRows == [containers : SUBSET (Hosts \X ContainerRow),
                workloads  : SUBSET (Clusters \X RawRef)]
Stages == {"start", "hosts", "docker", "logged", "k8s", "trivy", "end"}
IsTransaction(t) ==
    /\ t = [file |-> t.file, pending |-> t.pending, stage |-> t.stage,
            refreshed |-> t.refreshed, missed |-> t.missed]
    /\ IsDatabase(t.file)
    /\ t.pending \in PendingRows /\ t.stage \in Stages
    /\ t.refreshed \in Days \cup {None} /\ t.missed \in BOOLEAN

DeletePlan == [op : {"delete"}, image_id : RowIds, scan_ids : SUBSET RowIds]
IsBackfillPlan(p) == /\ p = [op |-> "backfill", rows |-> p.rows]
                     /\ IsCalendar(p.rows)
PlanTyped(p) == p # None => p \in DeletePlan \/ IsBackfillPlan(p)

\* Every variable has its type: in particular every row of the trend is made
\* from a scan of the image it names.
TypeOK ==
    /\ now \in Times
    /\ IsDatabase(db)
    /\ tx # None => IsTransaction(tx)
    /\ plan = [c \in Clients |-> plan[c]]
    /\ \A c \in Clients : PlanTyped(plan[c])

------------------------------------------------------------------------------
(* Safety.                                                                  *)

\* Days on which the open transaction shows other rows than are committed.
Held == IF tx = None THEN {}
        ELSE {day \in Days : tx.file.snaps[day] # db.snaps[day]}

\* The snapshots are the history they are documented to be, up to the one
\* transaction that midnight finds open: it may still publish the day it wrote
\* its rows on.  Nothing else, no delete, import or concurrent reconstruction,
\* changes a row of a day that is over (write_daily_snapshot,
\* backfill_snapshots, get_session).
Trend == INSTANCE TrendHistory
             WITH today <- Today, history <- db.snaps, held <- Held
HistoryKept == Trend!Spec

\* Today's rows are what the list page shows now.
TodayAgrees == db.snaps[Today] = SnapshotRows(db)

\* Once they agree, today's rows and the live view are only parted by a new
\* day, by the removal of a host or a cluster, by a reconstruction that lands
\* on today, by an import that wrote its rows before midnight and commits
\* after it, or by one whose record broke off: no import and no edit of an
\* image forgets the refresh, or runs it too early
\* (the hooks listed in docs/design/vuln-trend-snapshots.md).
RemovedPlacement == \/ \E h \in DOMAIN db.containers : h \notin DOMAIN db'.containers
                    \/ \E k \in DOMAIN db.workloads : k \notin DOMAIN db'.workloads
ReconstructedToday == db' = [db EXCEPT !.snaps = db'.snaps]
LateCommit == tx # None /\ tx.refreshed \notin {None, Today}
BrokenOff == tx # None /\ tx.missed
DriftStep == (TodayAgrees /\ ~ TodayAgrees') =>
    \/ Today' # Today
    \/ tx = None /\ (RemovedPlacement \/ ReconstructedToday)
    \/ LateCommit
    \/ BrokenOff
DriftOnlyByRemoval == [][DriftStep]_vars

\* The trend's point for today and the running bucket of the summary card,
\* two separate computations, are the same number whenever today's rows are
\* current (snapshot_trend against vuln_summary).
CardMatchesTrend == TodayAgrees => trend_total(Today) = vuln_summary(db, "running")

\* An image that keeps its scans turns stale only when a scan of another image
\* is recorded, of a source the image is known to and newer than all of its
\* own scans of that source (is_stale, source_watermarks): never by its own
\* import, by the delete of another image, by a placement or by the clock.
MissedRun(r, s) == /\ s.image_id # db.images[r].id
                   /\ s.source \in SourcesOf(ScansOf(db, r))
                   /\ NewestOf(ScansOf(db, r), s.source) < s.at
StaleStep ==
    \A r \in DOMAIN db.images \cap DOMAIN db'.images :
        (/\ ScansOf(db, r) # {} /\ ScansOf(db, r) \subseteq db'.scans
         /\ ~ is_stale(db, r) /\ is_stale(db, r)')
        => \E s \in db'.scans \ db.scans : MissedRun(r, s)
StaleOnlyByMissedRun == [][StaleStep]_vars

\* A row that appears on a day other than by the refresh of that day holds no
\* scan of a later day (backfill_snapshots carries forward, never backward).
ForeknowledgeStep ==
    \A day \in Days \ Held :
        \A r \in DOMAIN db'.snaps[day] \ DOMAIN db.snaps[day] :
            Day(db'.snaps[day][r].scanned_at) =< day
NoForeknowledge == [][ForeknowledgeStep]_vars

\* References a runtime reports right now.
RunningRefs == {c.image : c \in {x \in UNION {db.containers[h] : h \in DOMAIN db.containers} :
                                    x.running}}
PodRefs == UNION {db.workloads[k] : k \in DOMAIN db.workloads}

\* A deployment pinned by digest alone is shown on a row carrying that digest
\* whenever there is one, however tags moved between scans; a pod is never
\* shown on a row with other content (resolve_image_ref, _canonical_or_none).
PinnedJoinsContent ==
    /\ \A w \in RunningRefs : is_tagless_digest_ref(w) =>
          LET key == resolve_image_ref(w, canonical_ref(w), db.images)
          IN  Carriers(db.images, w.digest) # {} => key \in Carriers(db.images, w.digest)
    /\ \A w \in PodRefs : is_tagless_digest_ref(w) =>
          workload_key(db, w) \in Carriers(db.images, w.digest) \cup {None}

------------------------------------------------------------------------------
(* What the documentation says and the code does not do.                    *)

\* images.py, image_status: "Single-image version of an image_overview row".
Shown(row) == [row EXCEPT !.scan = IF @ = None THEN None ELSE @.total]
DetailMatchesList ==
    \A r \in DOMAIN db.images : Shown(image_status(db, r)) = Shown(image_overview(db)[r])

\* docs/image-scanning.md: the Vulnerabilities of a report feed both the
\* per-CVE rows and the severity roll-up counts.
CountsMatchFindings == \A s \in db.scans : s.total = Cardinality(s.vulns)

\* images.py, delete_image: "a remediation-by-delete shows the drop
\* immediately".  A deleted image that counted in today's point, which was the
\* end of the trend, lowers the end of the trend when the delete commits on
\* the day it refreshed.
DropStep ==
    \A r \in Counted(Today) :
        (/\ r \in DOMAIN db.images /\ r \notin DOMAIN db'.images
         /\ ScansOf(db, r) \cap db'.scans = {}
         /\ tx # None /\ tx.refreshed = Today
         /\ TodayAgrees /\ db.snaps[Today][r].total > 0)
        => end_total' < end_total
DeleteShowsDrop == [][DropStep]_vars

\* images.py, delete_image: "Delete an image and its scan rows": no image's
\* scan history holds the scan of another.
ScanHistoryIsOwn ==
    \A r \in DOMAIN db.images : \A s \in ScansOf(db, r) : s.of = r
==============================================================================
