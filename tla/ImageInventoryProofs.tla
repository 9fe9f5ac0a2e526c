------------------------ MODULE ImageInventoryProofs ------------------------
(***************************************************************************)
(* Theorems of ImageInventory, for every value of its constants.           *)
(***************************************************************************)
EXTENDS ImageInventory, SetFacts, FiniteSetTheorems, TLAPS

------------------------------------------------------------------------------
(* What the model chooses: the scan that is listed, the row of a digest.    *)

\* Among rows with bounded time and rowid one is last in the list order, so
\* the scan image_overview picks is one of the image's scans.
LEMMA LastListedIsMember ==
  ASSUME NEW S, S \subseteq ScanRow, S # {}
  PROVE  last_listed(S) \in S
<1> USE InventoryAssumption
<1> DEFINE Ages == {MaxTime - s.at : s \in S}
<1>1. \A s \in S : s.at \in 0 .. MaxTime /\ s.id \in 1 .. MaxRowId
  BY DEF ScanRow, Times, RowIds
<1>2. Ages \subseteq Nat /\ Ages # {}
  BY <1>1
<1>3. PICK age \in Ages : \A a \in Ages : age =< a
  BY <1>2, LeastNatural
<1>4. PICK newest \in S : \A s \in S : s.at =< newest.at
  <2>1. PICK s \in S : age = MaxTime - s.at
    OBVIOUS
  <2>2. \A t \in S : age =< MaxTime - t.at
    BY <1>3
  <2>3. \A t \in S : t.at =< s.at
    BY <2>1, <2>2, <1>1
  <2> QED BY <2>3
<1> DEFINE Ties == {s \in S : s.at = newest.at}
<1> DEFINE Ranks == {MaxRowId - s.id : s \in Ties}
<1>5. Ranks \subseteq Nat /\ Ranks # {}
  BY <1>1
<1>6. PICK rank \in Ranks : \A a \in Ranks : rank =< a
  BY <1>5, LeastNatural
<1>7. PICK last \in Ties : \A s \in Ties : s.id =< last.id
  <2>1. PICK s \in Ties : rank = MaxRowId - s.id
    OBVIOUS
  <2>2. \A t \in Ties : rank =< MaxRowId - t.id
    BY <1>6
  <2>3. \A t \in Ties : t.id =< s.id
    BY <2>1, <2>2, <1>1
  <2> QED BY <2>3
<1>8. \A t \in S : t.at < last.at \/ (t.at = last.at /\ t.id =< last.id)
  BY <1>1, <1>4, <1>7
<1> QED BY <1>8 DEF last_listed

\* The join by digest answers with a row that carries the digest.
LEMMA DigestIndexCarries ==
  ASSUME NEW images, NEW digest, \A r \in DOMAIN images : images[r].id \in Nat,
         Carriers(images, digest) # {}
  PROVE  digest_index(images, digest) \in Carriers(images, digest)
<1> DEFINE all == Carriers(images, digest)
           real == {r \in all : r.tag # Latest}
           pool == IF real # {} THEN real ELSE all
           Ids == {images[r].id : r \in pool}
<1>1. pool # {} /\ pool \subseteq all /\ pool \subseteq DOMAIN images
  BY DEF Carriers
<1>2. Ids \subseteq Nat /\ Ids # {}
  BY <1>1
<1>3. PICK i \in Ids : \A j \in Ids : i =< j
  BY <1>2, LeastNatural
<1>4. \E r \in pool : \A q \in pool : images[r].id =< images[q].id
  BY <1>3
<1>5. digest_index(images, digest) \in pool
  BY <1>1, <1>4 DEF digest_index
<1> QED BY <1>1, <1>5

------------------------------------------------------------------------------
(* Type correctness.                                                        *)

\* A day is a natural number of the calendar.
LEMMA DayInCalendar ==
  ASSUME NEW t \in Times
  PROVE  Day(t) \in Days /\ 0 \in Days
<1> USE InventoryAssumption
<1>1. t \in Nat /\ t =< MaxTime /\ MaxTime \in Nat /\ TicksPerDay \in Nat /\ TicksPerDay > 0
  BY DEF Times
<1>2. t \div TicksPerDay \in Nat /\ MaxTime \div TicksPerDay \in Nat
  BY <1>1
<1>3. t \div TicksPerDay =< MaxTime \div TicksPerDay
  BY <1>1, <1>2
<1> QED BY <1>2, <1>3 DEF Day, Days

\* A frozen row has the type of a snapshot row.
LEMMA FrozenTyped ==
  ASSUME NEW d, ImagesTyped(d), NEW r \in DOMAIN d.images, NEW s \in ScanRow
  PROVE  frozen(d, r, s) \in SnapRow
<1>1. d.images[r] \in ImageRowType
  BY DEF ImagesTyped
<1>2. is_running(d, r) \in BOOLEAN
  BY DEF is_running
<1> QED BY <1>1, <1>2 DEF frozen, SnapRow, ScanRow, ImageRowType

\* What write_daily_snapshot inserts is well typed.
LEMMA SnapshotRowsTyped ==
  ASSUME NEW d, TablesTyped(d)
  PROVE  IsDayRows(SnapshotRows(d))
<1>1. ASSUME NEW r \in ScannedImages(d)
      PROVE  r \in ImageRef /\ frozen(d, r, last_listed(ScansOf(d, r))) \in SnapRow
  <2>1. r \in DOMAIN d.images /\ ScansOf(d, r) # {} /\ ScansOf(d, r) \subseteq ScanRow
    BY DEF ScannedImages, never_scanned, ScansOf, TablesTyped
  <2>2. last_listed(ScansOf(d, r)) \in ScanRow
    BY <2>1, LastListedIsMember
  <2> QED BY <2>1, <2>2, FrozenTyped DEF TablesTyped, ImagesTyped
<1> QED BY <1>1 DEF SnapshotRows, IsDayRows

\* Rewriting today's rows keeps the tables well typed and touches no other day.
LEMMA SnapshotWritten ==
  ASSUME TypeOK, NEW d, IsDatabase(d)
  PROVE  LET e == write_daily_snapshot(d)
         IN  /\ IsDatabase(e)
             /\ e.images = d.images /\ e.scans = d.scans
             /\ e.containers = d.containers /\ e.workloads = d.workloads
             /\ e.snaps[Today] = SnapshotRows(d)
             /\ \A day \in Days \ {Today} : e.snaps[day] = d.snaps[day]
<1> DEFINE e == write_daily_snapshot(d)
<1>1. Today \in Days
  BY DayInCalendar DEF TypeOK, Today
<1>2. IsDayRows(SnapshotRows(d))
  BY SnapshotRowsTyped DEF IsDatabase
<1>3. /\ e = [images |-> e.images, scans |-> e.scans, containers |-> e.containers,
              workloads |-> e.workloads, snaps |-> e.snaps]
      /\ e.images = d.images /\ e.scans = d.scans
      /\ e.containers = d.containers /\ e.workloads = d.workloads
      /\ e.snaps = [d.snaps EXCEPT ![Today] = SnapshotRows(d)]
  BY DEF IsDatabase, write_daily_snapshot
<1>4. d.snaps = [day \in Days |-> d.snaps[day]] /\ \A day \in Days : IsDayRows(d.snaps[day])
  BY DEF IsDatabase, IsCalendar
<1> HIDE DEF e
<1>5. e.snaps[Today] = SnapshotRows(d)
      /\ \A day \in Days \ {Today} : e.snaps[day] = d.snaps[day]
  BY <1>1, <1>3, <1>4
<1>6. IsCalendar(e.snaps)
  BY <1>1, <1>2, <1>3, <1>4, <1>5 DEF IsCalendar
<1>7. TablesTyped(e) /\ PlacementsTyped(e)
  BY <1>3 DEF IsDatabase, TablesTyped, ImagesTyped, PlacementsTyped
<1>8. IsDatabase(e)
  BY <1>3, <1>6, <1>7 DEF IsDatabase
<1> QED BY <1>3, <1>5, <1>8 DEF e

\* Inserting rows changes the placements and nothing else.
LEMMA InsertedFields ==
  ASSUME NEW d, IsDatabase(d), NEW pending
  PROVE  LET e == Inserted(d, pending)
         IN  /\ IsDatabase(e)
             /\ e.images = d.images /\ e.scans = d.scans /\ e.snaps = d.snaps
             /\ pending = NothingPending => /\ e.containers = d.containers
                                            /\ e.workloads = d.workloads
<1> DEFINE e == Inserted(d, pending)
           C == d.containers
           W == d.workloads
           ToHost(h) == {c \in ContainerRow : <<h, c>> \in pending.containers}
           ToCluster(k) == {w \in RawRef : <<k, w>> \in pending.workloads}
<1>0. /\ e = [d EXCEPT !.containers = [h \in DOMAIN C |-> C[h] \cup ToHost(h)],
                    !.workloads = [k \in DOMAIN W |-> W[k] \cup ToCluster(k)]]
      /\ d = [images |-> d.images, scans |-> d.scans, containers |-> d.containers,
              workloads |-> d.workloads, snaps |-> d.snaps]
  BY DEF Inserted, IsDatabase
<1> HIDE DEF e, ToHost, ToCluster
<1>1. /\ e = [images |-> e.images, scans |-> e.scans, containers |-> e.containers,
              workloads |-> e.workloads, snaps |-> e.snaps]
      /\ e.images = d.images /\ e.scans = d.scans /\ e.snaps = d.snaps
      /\ e.containers = [h \in DOMAIN C |-> C[h] \cup ToHost(h)]
      /\ e.workloads = [k \in DOMAIN W |-> W[k] \cup ToCluster(k)]
  BY <1>0
<1>2. /\ C \in [DOMAIN C -> SUBSET ContainerRow] /\ DOMAIN C \subseteq Hosts
      /\ W \in [DOMAIN W -> SUBSET RawRef] /\ DOMAIN W \subseteq Clusters
  BY DEF IsDatabase, PlacementsTyped
<1>3. pending = NothingPending => (\A h : ToHost(h) = {}) /\ (\A k : ToCluster(k) = {})
  BY DEF NothingPending, ToHost, ToCluster
<1>4. (\A h : ToHost(h) \subseteq ContainerRow) /\ (\A k : ToCluster(k) \subseteq RawRef)
  BY DEF ToHost, ToCluster
<1>5. pending = NothingPending => e.containers = C /\ e.workloads = W
  BY <1>1, <1>2, <1>3
<1>6. PlacementsTyped(e)
  <2>1. e.containers \in [DOMAIN C -> SUBSET ContainerRow]
    BY <1>1, <1>2, <1>4
  <2>2. e.workloads \in [DOMAIN W -> SUBSET RawRef]
    BY <1>1, <1>2, <1>4
  <2> QED BY <1>2, <2>1, <2>2 DEF PlacementsTyped
<1>7. TablesTyped(e) /\ IsCalendar(e.snaps)
  BY <1>1 DEF IsDatabase, TablesTyped, ImagesTyped
<1>8. IsDatabase(e)
  BY <1>1, <1>6, <1>7 DEF IsDatabase
<1> QED BY <1>1, <1>5, <1>8 DEF e

\* A flush inserts the pending rows and changes nothing else.
LEMMA FlushedFields ==
  ASSUME NEW t, IsTransaction(t)
  PROVE  LET u == Flushed(t)
         IN  /\ IsTransaction(u)
             /\ u.file.images = t.file.images /\ u.file.scans = t.file.scans
             /\ u.file.snaps = t.file.snaps
             /\ u.pending = NothingPending /\ u.stage = t.stage
             /\ u.refreshed = t.refreshed /\ u.missed = t.missed
             /\ t.pending = NothingPending => /\ u.file.containers = t.file.containers
                                              /\ u.file.workloads = t.file.workloads
<1> DEFINE u == Flushed(t)
<1>0. u = [t EXCEPT !.file = Inserted(t.file, t.pending), !.pending = NothingPending]
  BY DEF Flushed
<1> HIDE DEF u
<1>1. /\ u = [file |-> u.file, pending |-> u.pending, stage |-> u.stage,
              refreshed |-> u.refreshed, missed |-> u.missed]
      /\ u.file = Inserted(t.file, t.pending)
      /\ u.pending = NothingPending /\ u.stage = t.stage
      /\ u.refreshed = t.refreshed /\ u.missed = t.missed
  BY <1>0 DEF IsTransaction
<1>2. NothingPending \in PendingRows
  BY DEF NothingPending, PendingRows
<1>3. /\ IsDatabase(u.file)
      /\ u.file.images = t.file.images /\ u.file.scans = t.file.scans
      /\ u.file.snaps = t.file.snaps
      /\ t.pending = NothingPending => /\ u.file.containers = t.file.containers
                                       /\ u.file.workloads = t.file.workloads
  BY <1>1, InsertedFields DEF IsTransaction
<1>4. IsTransaction(u)
  BY <1>1, <1>2, <1>3 DEF IsTransaction
<1> QED BY <1>1, <1>3, <1>4 DEF u

\* A refresh rewrites today's rows from the tables before it, and flushes.
LEMMA RefreshedFields ==
  ASSUME TypeOK, NEW t, IsTransaction(t)
  PROVE  LET u == Refreshed(t)
         IN  /\ IsTransaction(u)
             /\ u.file.images = t.file.images /\ u.file.scans = t.file.scans
             /\ u.file.snaps[Today] = SnapshotRows(t.file)
             /\ \A day \in Days \ {Today} : u.file.snaps[day] = t.file.snaps[day]
             /\ u.pending = NothingPending /\ u.stage = t.stage
             /\ u.refreshed = Today /\ u.missed = (t.pending # NothingPending)
             /\ ~ u.missed => /\ u.file.containers = t.file.containers
                              /\ u.file.workloads = t.file.workloads
<1> DEFINE u == Refreshed(t)
           s == [t EXCEPT !.file = write_daily_snapshot(@)]
           f == Flushed(s)
<1>1. Today \in Days
  BY DayInCalendar DEF TypeOK, Today
<1>0. s = [t EXCEPT !.file = write_daily_snapshot(t.file)]
  OBVIOUS
<1> HIDE DEF s
<1>2. /\ s = [file |-> s.file, pending |-> s.pending, stage |-> s.stage,
              refreshed |-> s.refreshed, missed |-> s.missed]
      /\ s.file = write_daily_snapshot(t.file)
      /\ s.pending = t.pending /\ s.stage = t.stage
      /\ s.refreshed = t.refreshed /\ s.missed = t.missed
  BY <1>0 DEF IsTransaction
<1>3. /\ IsDatabase(s.file)
      /\ s.file.images = t.file.images /\ s.file.scans = t.file.scans
      /\ s.file.containers = t.file.containers /\ s.file.workloads = t.file.workloads
      /\ s.file.snaps[Today] = SnapshotRows(t.file)
      /\ \A day \in Days \ {Today} : s.file.snaps[day] = t.file.snaps[day]
  BY <1>2, SnapshotWritten DEF IsTransaction
<1>4. IsTransaction(s)
  BY <1>2, <1>3 DEF IsTransaction
<1> HIDE DEF f
<1>5. /\ IsTransaction(f)
      /\ f.file.images = s.file.images /\ f.file.scans = s.file.scans
      /\ f.file.snaps = s.file.snaps
      /\ f.pending = NothingPending /\ f.stage = s.stage
      /\ s.pending = NothingPending => /\ f.file.containers = s.file.containers
                                       /\ f.file.workloads = s.file.workloads
  BY <1>4, FlushedFields DEF f
<1>6. u = [f EXCEPT !.refreshed = Today, !.missed = t.pending # NothingPending]
  BY DEF Refreshed, f, s
<1> HIDE DEF u
<1>7. /\ u = [file |-> u.file, pending |-> u.pending, stage |-> u.stage,
              refreshed |-> u.refreshed, missed |-> u.missed]
      /\ u.file = f.file /\ u.pending = f.pending /\ u.stage = f.stage
      /\ u.refreshed = Today /\ u.missed = (t.pending # NothingPending)
  BY <1>5, <1>6 DEF IsTransaction
<1>8. IsTransaction(u)
  BY <1>1, <1>5, <1>7 DEF IsTransaction
<1> QED BY <1>2, <1>3, <1>5, <1>7, <1>8 DEF u

\* The transaction a step works in is well typed, also one it opens.
LEMMA WorkTyped ==
  ASSUME TypeOK
  PROVE  /\ IsTransaction(Work)
         /\ tx = None => /\ Work.file = db /\ Work.pending = NothingPending
                         /\ Work.stage = "start"
         /\ tx # None => Work = tx
<1>1. CASE tx # None
  BY <1>1 DEF Work, TypeOK
<1>2. CASE tx = None
  <2>1. Work = [file |-> db, pending |-> NothingPending, stage |-> "start",
                refreshed |-> None, missed |-> FALSE]
    BY <1>2 DEF Work
  <2>2. NothingPending \in PendingRows
    BY DEF NothingPending, PendingRows
  <2> QED BY <1>2, <2>1, <2>2 DEF IsTransaction, TypeOK, Stages
<1> QED BY <1>1, <1>2

\* A record with the fields of a transaction, around one with those of a file.
Shaped(t) ==
  /\ t = [file |-> t.file, pending |-> t.pending, stage |-> t.stage,
          refreshed |-> t.refreshed, missed |-> t.missed]
  /\ t.file = [images |-> t.file.images, scans |-> t.file.scans,
               containers |-> t.file.containers, workloads |-> t.file.workloads,
               snaps |-> t.file.snaps]

LEMMA TransactionShaped ==
  ASSUME NEW t, IsTransaction(t)
  PROVE  Shaped(t)
BY DEF IsTransaction, IsDatabase, Shaped

\* Rewriting the images and the scans keeps a transaction well typed.
LEMMA TablesRewritten ==
  ASSUME NEW t, IsTransaction(t), NEW u, Shaped(u), TablesTyped(u.file),
         u.file.containers = t.file.containers, u.file.workloads = t.file.workloads,
         u.file.snaps = t.file.snaps, u.pending = t.pending, u.stage \in Stages,
         u.refreshed = t.refreshed, u.missed = t.missed
  PROVE  IsTransaction(u)
BY DEF IsTransaction, IsDatabase, PlacementsTyped, Shaped

\* Rewriting the placements and what is pending of them keeps it well typed.
LEMMA PlacementsRewritten ==
  ASSUME NEW t, IsTransaction(t), NEW u, Shaped(u), PlacementsTyped(u.file),
         u.file.images = t.file.images, u.file.scans = t.file.scans,
         u.file.snaps = t.file.snaps, u.pending \in PendingRows, u.stage \in Stages,
         u.refreshed = t.refreshed, u.missed = t.missed
  PROVE  IsTransaction(u)
BY DEF IsTransaction, IsDatabase, TablesTyped, ImagesTyped, Shaped

\* What a report leaves: new images and scans, in the stage of its import.
LEMMA ReportIngested ==
  ASSUME TypeOK, NEW rep \in Reports, NEW at \in Times, NEW src \in Sources,
         import_trivy(rep, at, src)
  PROVE  /\ IsTransaction(tx') /\ tx'.stage = "trivy"
         /\ tx'.file.snaps = Work.file.snaps
         /\ DOMAIN Work.file.images \subseteq DOMAIN tx'.file.images
         /\ \A r \in DOMAIN Work.file.images : tx'.file.images[r].id = Work.file.images[r].id
<1>1. /\ IsTransaction(Work)
      /\ DOMAIN Work.file.images \subseteq ImageRef
      /\ Work.file.images \in [DOMAIN Work.file.images -> ImageRowType]
      /\ Work.file.scans \subseteq ScanRow
  BY WorkTyped DEF IsTransaction, IsDatabase, TablesTyped, ImagesTyped
<1>0. Shaped(Work)
  BY WorkTyped, TransactionShaped
<1>2. "trivy" \in Stages
  BY DEF Stages
<1>3. CASE rep.ref = None
  <2>1. tx' = [Work EXCEPT !.stage = "trivy"]
    BY <1>3 DEF import_trivy
  <2>2. PICK u : u = [Work EXCEPT !.stage = "trivy"]
    OBVIOUS
  <2>3. /\ Shaped(u) /\ u.stage = "trivy"
        /\ u.file = Work.file /\ u.pending = Work.pending
        /\ u.refreshed = Work.refreshed /\ u.missed = Work.missed
    BY <1>0, <2>2 DEF Shaped
  <2>4. IsTransaction(u)
    BY <1>1, <1>2, <2>3, TablesRewritten DEF TablesTyped, ImagesTyped
  <2> QED BY <2>1, <2>2, <2>3, <2>4
<1>4. CASE rep.ref # None
  <2> DEFINE d == Work.file
             ref == canonical_ref(rep.ref)
             row(i) == [id |-> i, digest |-> rep.digest,
                        noisy |-> IF ref \in DOMAIN d.images THEN d.images[ref].noisy ELSE FALSE,
                        last_scanned_at |-> at]
             scan(i, j) == [id |-> j, image_id |-> i, of |-> ref, at |-> at, source |-> src,
                            total |-> report_total(rep), vulns |-> found(rep)]
             I(i) == [r \in DOMAIN d.images \cup {ref} |-> IF r # ref THEN d.images[r] ELSE row(i)]
  <2>1. ingest_report(d, rep, at, src)
    BY <1>4 DEF import_trivy
  <2>2. PICK i \in RowIds, j \in RowIds :
          /\ ref \in DOMAIN d.images => i = d.images[ref].id
          /\ tx' = [Work EXCEPT !.stage = "trivy", !.file.images = I(i),
                                !.file.scans = d.scans \cup {scan(i, j)}]
    BY <2>1 DEF ingest_report
  <2>3. /\ found(rep) \in SUBSET Findings /\ rep.digest \in Digests \cup {None}
        /\ ref \in ImageRef
    BY <1>4, InventoryAssumption, RefsAssumption
       DEF found, Parsed, canonical_ref, RawRef, ImageRef
  <2>4. report_total(rep) \in Nat
    <3>1. Cardinality(found(rep)) \in Nat
      BY <2>3, InventoryAssumption, FS_Subset, FS_CardinalityType
    <3> QED BY <3>1 DEF report_total
  <2> HIDE DEF d, ref
  <2>5. ref \in DOMAIN d.images => d.images[ref].noisy \in BOOLEAN
    BY <1>1 DEF ImageRowType, d
  <2>6. row(i) \in ImageRowType
    BY <2>3, <2>5 DEF ImageRowType
  <2>7. scan(i, j) \in ScanRow
    BY <2>3, <2>4 DEF ScanRow
  <2> HIDE DEF row, scan
  <2>8. I(i) \in [DOMAIN I(i) -> ImageRowType] /\ DOMAIN I(i) = DOMAIN d.images \cup {ref}
    BY <1>1, <2>6 DEF d
  <2>9. \A r \in DOMAIN d.images : I(i)[r].id = d.images[r].id
    BY <2>2 DEF row
  <2> HIDE DEF I
  <2>10. PICK u : u = [Work EXCEPT !.stage = "trivy", !.file.images = I(i),
                                   !.file.scans = d.scans \cup {scan(i, j)}]
    OBVIOUS
  <2>11. /\ Shaped(u) /\ u.stage = "trivy"
         /\ u.file.images = I(i) /\ u.file.scans = d.scans \cup {scan(i, j)}
         /\ u.file.containers = Work.file.containers
         /\ u.file.workloads = Work.file.workloads
         /\ u.file.snaps = Work.file.snaps /\ u.pending = Work.pending
         /\ u.refreshed = Work.refreshed /\ u.missed = Work.missed
    BY <1>0, <2>10 DEF Shaped
  <2>12. TablesTyped(u.file)
    BY <1>1, <2>3, <2>7, <2>8, <2>11 DEF TablesTyped, ImagesTyped, d
  <2>13. IsTransaction(u)
    BY <1>1, <1>2, <2>11, <2>12, TablesRewritten
  <2> QED BY <2>2, <2>8, <2>9, <2>10, <2>11, <2>13 DEF d
<1> QED BY <1>3, <1>4

\* A host comes without containers; nothing else changes.
LEMMA HostImported ==
  ASSUME TypeOK, NEW h \in Hosts, import_host(h)
  PROVE  /\ IsTransaction(tx') /\ tx'.stage = "hosts"
         /\ tx'.file.images = Work.file.images /\ tx'.file.scans = Work.file.scans
         /\ tx'.file.workloads = Work.file.workloads /\ tx'.file.snaps = Work.file.snaps
         /\ tx'.file.containers = [g \in DOMAIN Work.file.containers \cup {h} |->
                                      IF g = h THEN {} ELSE Work.file.containers[g]]
<1> DEFINE C == Work.file.containers
           D == [g \in DOMAIN C \cup {h} |-> IF g = h THEN {} ELSE C[g]]
<1>0. Shaped(Work) /\ IsTransaction(Work)
  BY WorkTyped, TransactionShaped
<1>1. /\ DOMAIN C \subseteq Hosts /\ C \in [DOMAIN C -> SUBSET ContainerRow]
      /\ DOMAIN Work.file.workloads \subseteq Clusters
      /\ Work.file.workloads \in [DOMAIN Work.file.workloads -> SUBSET RawRef]
      /\ Work.pending \in PendingRows
  BY WorkTyped DEF IsTransaction, IsDatabase, PlacementsTyped
<1>2. tx' = [Work EXCEPT !.stage = "hosts", !.file.containers = D]
  BY DEF import_host
<1>3. D \in [DOMAIN D -> SUBSET ContainerRow] /\ DOMAIN D \subseteq Hosts
  BY <1>1
<1> HIDE DEF D
<1>4. PICK u : u = [Work EXCEPT !.stage = "hosts", !.file.containers = D]
  OBVIOUS
<1>5. /\ Shaped(u) /\ u.stage = "hosts"
      /\ u.file.images = Work.file.images /\ u.file.scans = Work.file.scans
      /\ u.file.snaps = Work.file.snaps
      /\ u.file.containers = D /\ u.file.workloads = Work.file.workloads
      /\ u.pending = Work.pending
      /\ u.refreshed = Work.refreshed /\ u.missed = Work.missed
  BY <1>0, <1>4 DEF Shaped
<1>6. PlacementsTyped(u.file)
  BY <1>1, <1>3, <1>5 DEF PlacementsTyped
<1>7. IsTransaction(u)
  BY <1>0, <1>1, <1>5, <1>6, PlacementsRewritten DEF Stages
<1> QED BY <1>2, <1>4, <1>5, <1>7 DEF D

\* A record of a docker import leaves other containers, flushed or pending.
LEMMA DockerImported ==
  ASSUME TypeOK, NEW h \in Hosts, NEW listing \in DockerListings, NEW breaks \in BOOLEAN,
         import_docker(h, listing, breaks)
  PROVE  /\ IsTransaction(tx') /\ tx'.stage = "docker"
         /\ tx'.file.images = Work.file.images /\ tx'.file.scans = Work.file.scans
         /\ tx'.file.snaps = Work.file.snaps
<1> DEFINE Imported(u) == /\ IsTransaction(u)
                          /\ u.file.images = Work.file.images /\ u.file.scans = Work.file.scans
                          /\ u.file.snaps = Work.file.snaps
           C == Work.file.containers
           W == Work.file.workloads
           p == Work.pending
<1>Shape. Shaped(Work)
  BY WorkTyped, TransactionShaped
<1>Before. /\ IsTransaction(Work)
           /\ DOMAIN C \subseteq Hosts /\ C \in [DOMAIN C -> SUBSET ContainerRow]
           /\ DOMAIN W \subseteq Clusters /\ W \in [DOMAIN W -> SUBSET RawRef]
           /\ p \in PendingRows
  BY WorkTyped DEF IsTransaction, IsDatabase, PlacementsTyped
<1>Stage. {"hosts", "docker", "k8s"} \subseteq Stages
  BY DEF Stages
<1> DEFINE D == [C EXCEPT ![h] = {}]
           q == [p EXCEPT !.containers = @ \cup ({h} \X listing)]
           replaced == [Work EXCEPT !.stage = "docker", !.file.containers[h] = {},
                                    !.pending.containers = @ \cup ({h} \X listing)]
<1>1. tx' = IF breaks THEN replaced ELSE Flushed(replaced)
  BY DEF import_docker
<1>2. /\ D \in [DOMAIN D -> SUBSET ContainerRow] /\ DOMAIN D \subseteq Hosts
      /\ q \in PendingRows
  <2>1. {h} \X listing \subseteq Hosts \X ContainerRow
    BY InventoryAssumption
  <2>2. p \in [containers : SUBSET (Hosts \X ContainerRow), workloads : SUBSET (Clusters \X RawRef)]
    BY <1>Before DEF PendingRows
  <2>3. q \in [containers : SUBSET (Hosts \X ContainerRow), workloads : SUBSET (Clusters \X RawRef)]
    <3>1. p.containers \cup ({h} \X listing) \in SUBSET (Hosts \X ContainerRow)
      BY <2>1, <2>2
    <3> HIDE DEF p
    <3> QED BY <2>2, <3>1
  <2>4. q \in PendingRows
    BY <2>3 DEF PendingRows
  <2>5. /\ D \in [DOMAIN D -> SUBSET ContainerRow] /\ DOMAIN D \subseteq Hosts
    BY <1>Before
  <2> QED BY <2>4, <2>5
<1>3. PICK u : u = replaced
  OBVIOUS
<1>4. /\ Shaped(u) /\ u.stage = "docker"
      /\ u.file.images = Work.file.images /\ u.file.scans = Work.file.scans
      /\ u.file.snaps = Work.file.snaps
      /\ u.file.containers = D /\ u.file.workloads = W /\ u.pending = q
      /\ u.refreshed = Work.refreshed /\ u.missed = Work.missed
  BY <1>Shape, <1>3 DEF Shaped
<1> HIDE DEF D, q, replaced, Imported
<1>5. PlacementsTyped(u.file)
  BY <1>Before, <1>2, <1>4 DEF PlacementsTyped
<1>6. Imported(u)
  BY <1>Before, <1>Stage, <1>2, <1>4, <1>5, PlacementsRewritten DEF Imported
<1>7. Imported(Flushed(u)) /\ Flushed(u).stage = "docker"
  BY <1>4, <1>6, FlushedFields DEF Imported
<1> QED BY <1>1, <1>3, <1>4, <1>6, <1>7 DEF Imported

\* A record of a kubernetes import leaves other workloads, flushed or pending.
LEMMA K8sImported ==
  ASSUME TypeOK, NEW k \in Clusters, NEW pods \in PodListings \cup {None},
         NEW flushes \in BOOLEAN, NEW breaks \in BOOLEAN,
         import_k8s(k, pods, flushes, breaks)
  PROVE  /\ IsTransaction(tx') /\ tx'.stage = "k8s"
         /\ tx'.file.images = Work.file.images /\ tx'.file.scans = Work.file.scans
         /\ tx'.file.snaps = Work.file.snaps
<1> DEFINE Imported(u) == /\ IsTransaction(u)
                          /\ u.file.images = Work.file.images /\ u.file.scans = Work.file.scans
                          /\ u.file.snaps = Work.file.snaps
           C == Work.file.containers
           W == Work.file.workloads
           p == Work.pending
<1>Shape. Shaped(Work)
  BY WorkTyped, TransactionShaped
<1>Before. /\ IsTransaction(Work)
           /\ DOMAIN C \subseteq Hosts /\ C \in [DOMAIN C -> SUBSET ContainerRow]
           /\ DOMAIN W \subseteq Clusters /\ W \in [DOMAIN W -> SUBSET RawRef]
           /\ p \in PendingRows
  BY WorkTyped DEF IsTransaction, IsDatabase, PlacementsTyped
<1>Stage. {"hosts", "docker", "k8s"} \subseteq Stages
  BY DEF Stages
<1> DEFINE X == [c \in DOMAIN W \cup {k} |-> IF c \in DOMAIN W THEN W[c] ELSE {}]
           named == [Work EXCEPT !.stage = "k8s",
                                 !.file.workloads = [c \in DOMAIN @ \cup {k} |->
                                     IF c \in DOMAIN @ THEN @[c] ELSE {}]]
           Named(u) == Imported(u) /\ u.stage = "k8s" /\ k \in DOMAIN u.file.workloads
           start == IF flushes \/ k \notin DOMAIN W THEN Flushed(named) ELSE named
           end == IF pods = None THEN start
                  ELSE [start EXCEPT !.file.workloads[k] = {},
                                     !.pending.workloads = @ \cup ({k} \X pods)]
<1>0. tx' = IF breaks THEN end ELSE Flushed(end)
  BY DEF import_k8s
<1>1. X \in [DOMAIN X -> SUBSET RawRef] /\ DOMAIN X \subseteq Clusters /\ k \in DOMAIN X
  BY <1>Before
<1>2. PICK u : u = named
  OBVIOUS
<1>3. /\ Shaped(u) /\ u.stage = "k8s"
      /\ u.file.images = Work.file.images /\ u.file.scans = Work.file.scans
      /\ u.file.snaps = Work.file.snaps
      /\ u.file.containers = C /\ u.file.workloads = X /\ u.pending = p
      /\ u.refreshed = Work.refreshed /\ u.missed = Work.missed
  BY <1>Shape, <1>2 DEF Shaped
<1> HIDE DEF X, Imported, named, start, end
<1>4. PlacementsTyped(u.file)
  BY <1>Before, <1>1, <1>3 DEF PlacementsTyped
<1>5. Named(u)
  BY <1>Before, <1>Stage, <1>1, <1>3, <1>4, PlacementsRewritten DEF Imported
<1>6. ASSUME NEW v, Named(v)
      PROVE  Named(Flushed(v))
  <2>1. IsTransaction(v)
    BY <1>6 DEF Imported
  <2>2. Imported(Flushed(v)) /\ Flushed(v).stage = "k8s"
    BY <1>6, <2>1, FlushedFields DEF Imported
  <2>3. Flushed(v).file.workloads = Inserted(v.file, v.pending).workloads
        /\ DOMAIN Inserted(v.file, v.pending).workloads = DOMAIN v.file.workloads
    BY <2>1 DEF Flushed, Inserted, IsTransaction, IsDatabase
  <2> QED BY <1>6, <2>2, <2>3
<1>7. PICK begun : begun = start /\ Named(begun)
  BY <1>2, <1>5, <1>6 DEF start
<1>8. PICK done : done = IF pods = None THEN begun
                         ELSE [begun EXCEPT !.file.workloads[k] = {},
                                            !.pending.workloads = @ \cup ({k} \X pods)]
  OBVIOUS
<1>9. tx' = IF breaks THEN done ELSE Flushed(done)
  <2>1. end = done
    BY <1>7, <1>8 DEF end
  <2> QED BY <1>0, <2>1
<1>10. Named(done)
  <2>1. CASE pods = None
    BY <1>7, <1>8, <2>1
  <2>2. CASE pods # None
    <3> DEFINE Y == [begun.file.workloads EXCEPT ![k] = {}]
               q == [begun.pending EXCEPT !.workloads = @ \cup ({k} \X pods)]
    <3>1. /\ IsTransaction(begun) /\ Shaped(begun) /\ k \in DOMAIN begun.file.workloads
          /\ begun.stage = "k8s" /\ begun.pending \in PendingRows
          /\ DOMAIN begun.file.workloads \subseteq Clusters
          /\ begun.file.workloads \in [DOMAIN begun.file.workloads -> SUBSET RawRef]
      BY <1>7, TransactionShaped DEF Imported, IsTransaction, IsDatabase, PlacementsTyped
    <3>2. pods \subseteq RawRef
      BY <2>2, InventoryAssumption
    <3>3. /\ Y \in [DOMAIN Y -> SUBSET RawRef] /\ DOMAIN Y \subseteq Clusters
          /\ k \in DOMAIN Y /\ q \in PendingRows
      BY <3>1, <3>2 DEF PendingRows
    <3>4. done = [begun EXCEPT !.file.workloads[k] = {},
                               !.pending.workloads = @ \cup ({k} \X pods)]
      BY <1>8, <2>2
    <3>5. /\ Shaped(done) /\ done.stage = "k8s"
          /\ done.file.images = begun.file.images /\ done.file.scans = begun.file.scans
          /\ done.file.snaps = begun.file.snaps
          /\ done.file.containers = begun.file.containers
          /\ done.file.workloads = Y /\ done.pending = q
          /\ done.refreshed = begun.refreshed /\ done.missed = begun.missed
      BY <3>1, <3>4 DEF Shaped
    <3> HIDE DEF Y, q
    <3>6. PlacementsTyped(done.file)
      BY <3>1, <3>3, <3>5 DEF PlacementsTyped, IsTransaction, IsDatabase
    <3>7. IsTransaction(done)
      BY <1>Stage, <3>1, <3>3, <3>5, <3>6, PlacementsRewritten
    <3> QED BY <1>7, <3>3, <3>5, <3>7 DEF Imported
  <2> QED BY <2>1, <2>2
<1>11. Named(Flushed(done))
  BY <1>6, <1>10
<1> QED BY <1>9, <1>10, <1>11 DEF Imported

------------------------------------------------------------------------------
(* The shapes of a step.                                                    *)

\* One record of an import.
ImportRecord ==
  \/ \E rep \in Reports, at \in Times, src \in Sources : import_trivy(rep, at, src)
  \/ \E h \in Hosts : import_host(h)
  \/ \E h \in Hosts, listing \in DockerListings, breaks \in BOOLEAN :
        import_docker(h, listing, breaks)
  \/ \E k \in Clusters, pods \in PodListings \cup {None},
        flushes \in BOOLEAN, breaks \in BOOLEAN : import_k8s(k, pods, flushes, breaks)

\* The end of an import, or an edit of an image: today's rows are rewritten.
Rewrite == \/ log_docker \/ log_rest
           \/ \E r \in ImageRef, value \in BOOLEAN : set_noisy(r, value)
           \/ \E c \in Clients : delete_write(c)

\* An edit of a placement.
ByHand == \/ \E k \in Clusters : add_cluster(k)
          \/ \E h \in Hosts : delete_host(h)
          \/ \E k \in Clusters : delete_cluster(k)

\* A step that only reads, or gives up what was read.
PlanOnly == \/ \E c \in Clients, r \in ImageRef : delete_read(c, r)
            \/ \E c \in Clients : backfill_read(c)
            \/ \E c \in Clients : abandon(c)
            \/ UNCHANGED vars

\* Every step has one of these shapes.
LEMMA StepShapes ==
  ASSUME [Next]_vars
  PROVE  \/ ImportRecord \/ Rewrite \/ commit \/ rollback \/ ByHand
         \/ \E c \in Clients : backfill_write(c)
         \/ PlanOnly \/ tick
BY DEF Next, ImportRecord, Rewrite, ByHand, PlanOnly

\* What the record of an import leaves of the rest.
LEMMA UnchangedByRecord ==
  ASSUME ImportRecord
  PROVE  now' = now /\ db' = db /\ plan' = plan /\ Work.stage # "end"
<1>1. ASSUME NEW rep, NEW at, NEW src, import_trivy(rep, at, src)
      PROVE  now' = now /\ db' = db /\ plan' = plan /\ Work.stage # "end"
  BY <1>1 DEF import_trivy, Reached
<1>2. ASSUME NEW h, import_host(h)
      PROVE  now' = now /\ db' = db /\ plan' = plan /\ Work.stage # "end"
  BY <1>2 DEF import_host, Reached
<1>3. ASSUME NEW h, NEW listing, NEW breaks, import_docker(h, listing, breaks)
      PROVE  now' = now /\ db' = db /\ plan' = plan /\ Work.stage # "end"
  BY <1>3 DEF import_docker, Reached
<1>4. ASSUME NEW k, NEW pods, NEW flushes, NEW breaks, import_k8s(k, pods, flushes, breaks)
      PROVE  now' = now /\ db' = db /\ plan' = plan /\ Work.stage # "end"
  BY <1>4 DEF import_k8s, Reached
<1> QED BY <1>1, <1>2, <1>3, <1>4 DEF ImportRecord

\* What a step that works in the transaction leaves of the rest.
LEMMA WorkAlone ==
  ASSUME ImportRecord \/ Rewrite
  PROVE  now' = now /\ db' = db
<1>1. CASE ImportRecord
  BY <1>1, UnchangedByRecord
<1>2. CASE Rewrite
  BY <1>2 DEF Rewrite, log_docker, log_rest, import_log, set_noisy, delete_write
<1> QED BY <1>1, <1>2

\* The tables fix the rows a rewrite would write.
LEMMA RowsOfTables ==
  ASSUME NEW d, NEW e, e.images = d.images, e.scans = d.scans,
         e.containers = d.containers, e.workloads = d.workloads
  PROVE  SnapshotRows(e) = SnapshotRows(d)
<1>1. ScannedImages(e) = ScannedImages(d) /\ \A r : ScansOf(e, r) = ScansOf(d, r)
  BY DEF ScannedImages, never_scanned, ScansOf
<1>2. \A r : is_running(e, r) = is_running(d, r)
  BY DEF is_running, container_placements, k8s_placements, container_key, workload_key
<1>3. \A r, s : frozen(e, r, s) = frozen(d, r, s)
  BY <1>2 DEF frozen
<1> QED BY <1>1, <1>3 DEF SnapshotRows

\* A record of an import touches no snapshot and keeps the rowids.
LEMMA RecordStep ==
  ASSUME TypeOK, ImportRecord
  PROVE  /\ IsTransaction(tx') /\ tx'.stage \in {"trivy", "hosts", "docker", "k8s"}
         /\ tx'.file.snaps = Work.file.snaps
         /\ DOMAIN Work.file.images \subseteq DOMAIN tx'.file.images
         /\ \A r \in DOMAIN Work.file.images : tx'.file.images[r].id = Work.file.images[r].id
<1>1. ASSUME NEW rep \in Reports, NEW at \in Times, NEW src \in Sources,
             import_trivy(rep, at, src)
      PROVE  /\ IsTransaction(tx') /\ tx'.stage = "trivy"
             /\ tx'.file.snaps = Work.file.snaps
             /\ DOMAIN Work.file.images \subseteq DOMAIN tx'.file.images
             /\ \A r \in DOMAIN Work.file.images :
                   tx'.file.images[r].id = Work.file.images[r].id
  BY <1>1, ReportIngested
<1>2. ASSUME NEW h \in Hosts, import_host(h)
      PROVE  /\ IsTransaction(tx') /\ tx'.stage = "hosts"
             /\ tx'.file.images = Work.file.images /\ tx'.file.snaps = Work.file.snaps
  BY <1>2, HostImported
<1>3. ASSUME NEW h \in Hosts, NEW listing \in DockerListings, NEW breaks \in BOOLEAN,
             import_docker(h, listing, breaks)
      PROVE  /\ IsTransaction(tx') /\ tx'.stage = "docker"
             /\ tx'.file.images = Work.file.images /\ tx'.file.snaps = Work.file.snaps
  BY <1>3, DockerImported
<1>4. ASSUME NEW k \in Clusters, NEW pods \in PodListings \cup {None},
             NEW flushes \in BOOLEAN, NEW breaks \in BOOLEAN,
             import_k8s(k, pods, flushes, breaks)
      PROVE  /\ IsTransaction(tx') /\ tx'.stage = "k8s"
             /\ tx'.file.images = Work.file.images /\ tx'.file.snaps = Work.file.snaps
  BY <1>4, K8sImported
<1> QED BY <1>1, <1>2, <1>3, <1>4 DEF ImportRecord

\* A rewrite gives today the rows of the tables, unless some were pending, and
\* no other day; only an edit changes the images, and its transaction ends.
LEMMA RewriteStep ==
  ASSUME TypeOK, Rewrite
  PROVE  /\ IsTransaction(tx') /\ tx'.stage \in {"logged", "end"}
         /\ tx'.stage = "logged" => Work.stage # "end" /\ tx'.file.images = Work.file.images
         /\ tx'.refreshed = Today
         /\ ~ tx'.missed => tx'.file.snaps[Today] = SnapshotRows(tx'.file)
         /\ \A day \in Days \ {Today} : tx'.file.snaps[day] = Work.file.snaps[day]
         /\ DOMAIN tx'.file.images \subseteq DOMAIN Work.file.images
         /\ \A r \in DOMAIN tx'.file.images :
               tx'.file.images[r].id = Work.file.images[r].id
<1> DEFINE Rewritten(u, t) ==
             /\ IsTransaction(u) /\ u.refreshed = Today
             /\ u.file.images = t.file.images
             /\ ~ u.missed => u.file.snaps[Today] = SnapshotRows(u.file)
             /\ \A day \in Days \ {Today} : u.file.snaps[day] = t.file.snaps[day]
<1>0. IsTransaction(Work) /\ Shaped(Work)
  BY WorkTyped, TransactionShaped
<1>1. ASSUME NEW t, IsTransaction(t)
      PROVE  Rewritten(Refreshed(t), t) /\ Refreshed(t).stage = t.stage
  <2>1. ~ Refreshed(t).missed => SnapshotRows(Refreshed(t).file) = SnapshotRows(t.file)
    BY <1>1, RefreshedFields, RowsOfTables
  <2> QED BY <1>1, <2>1, RefreshedFields
<1>2. ASSUME NEW after \in {"logged", "end"}, NEW before, import_log(before, after)
      PROVE  Rewritten(tx', Work) /\ tx'.stage = after
  <2>1. PICK u : u = Refreshed(Work) /\ Rewritten(u, Work)
    BY <1>0, <1>1
  <2>2. PICK v : v = [u EXCEPT !.stage = after]
    OBVIOUS
  <2>3. /\ v = [file |-> v.file, pending |-> v.pending, stage |-> v.stage,
                refreshed |-> v.refreshed, missed |-> v.missed]
        /\ v.file = u.file /\ v.pending = u.pending /\ v.stage = after
        /\ v.refreshed = u.refreshed /\ v.missed = u.missed
    BY <2>1, <2>2 DEF IsTransaction
  <2>4. IsTransaction(v)
    BY <2>1, <2>3 DEF IsTransaction, Stages
  <2>5. tx' = v
    BY <1>2, <2>1, <2>2 DEF import_log
  <2> QED BY <2>1, <2>3, <2>4, <2>5
<1>3. ASSUME NEW u, Shaped(u), u.stage = "end", TablesTyped(u.file),
             u.file.containers = Work.file.containers,
             u.file.workloads = Work.file.workloads,
             u.file.snaps = Work.file.snaps, u.pending = Work.pending,
             u.refreshed = Work.refreshed, u.missed = Work.missed
      PROVE  IsTransaction(u)
  BY <1>0, <1>3, TablesRewritten DEF Stages
<1> DEFINE d == Work.file
<1>4. /\ DOMAIN d.images \subseteq ImageRef
      /\ d.images \in [DOMAIN d.images -> ImageRowType] /\ d.scans \subseteq ScanRow
  BY <1>0 DEF IsTransaction, IsDatabase, TablesTyped, ImagesTyped
<1>5. ASSUME NEW r \in ImageRef, NEW value \in BOOLEAN, set_noisy(r, value)
      PROVE  /\ IsTransaction(tx') /\ tx'.stage = "end" /\ tx'.refreshed = Today
             /\ ~ tx'.missed => tx'.file.snaps[Today] = SnapshotRows(tx'.file)
             /\ \A day \in Days \ {Today} : tx'.file.snaps[day] = d.snaps[day]
             /\ DOMAIN tx'.file.images = DOMAIN d.images
             /\ \A q \in DOMAIN d.images : tx'.file.images[q].id = d.images[q].id
  <2> DEFINE I == [d.images EXCEPT ![r].noisy = value]
  <2>1. PICK u : u = [Work EXCEPT !.file.images[r].noisy = value, !.stage = "end"]
    OBVIOUS
  <2>2. tx' = Refreshed(u)
    BY <1>5, <2>1 DEF set_noisy
  <2>3. /\ I \in [DOMAIN d.images -> ImageRowType] /\ DOMAIN I = DOMAIN d.images
        /\ \A q \in DOMAIN d.images : I[q].id = d.images[q].id
    <3>1. r \in DOMAIN d.images
      BY <1>5, WorkTyped DEF set_noisy
    <3>2. [d.images[r] EXCEPT !.noisy = value] \in ImageRowType
      BY <1>4, <3>1 DEF ImageRowType
    <3>3. [d.images[r] EXCEPT !.noisy = value].id = d.images[r].id
      BY <1>4, <3>1 DEF ImageRowType
    <3>4. I = [d.images EXCEPT ![r] = [d.images[r] EXCEPT !.noisy = value]]
      OBVIOUS
    <3> QED BY <1>4, <3>1, <3>2, <3>3, <3>4
  <2> HIDE DEF I
  <2>4. u = [Work EXCEPT !.file.images = I, !.stage = "end"]
    BY <2>1 DEF I
  <2>5. /\ Shaped(u) /\ u.stage = "end" /\ u.file.images = I /\ u.file.scans = d.scans
        /\ u.file.containers = d.containers /\ u.file.workloads = d.workloads
        /\ u.file.snaps = d.snaps /\ u.pending = Work.pending
        /\ u.refreshed = Work.refreshed /\ u.missed = Work.missed
    BY <1>0, <2>4 DEF Shaped
  <2>6. TablesTyped(u.file)
    BY <1>4, <2>3, <2>5 DEF TablesTyped, ImagesTyped
  <2>7. IsTransaction(u)
    BY <1>3, <2>5, <2>6
  <2>8. Rewritten(tx', u) /\ tx'.stage = "end"
    BY <1>1, <2>2, <2>5, <2>7
  <2> QED BY <2>3, <2>5, <2>8
<1>6. ASSUME NEW c \in Clients, delete_write(c)
      PROVE  /\ IsTransaction(tx') /\ tx'.stage = "end" /\ tx'.refreshed = Today
             /\ ~ tx'.missed => tx'.file.snaps[Today] = SnapshotRows(tx'.file)
             /\ \A day \in Days \ {Today} : tx'.file.snaps[day] = d.snaps[day]
             /\ DOMAIN tx'.file.images \subseteq DOMAIN d.images
             /\ \A q \in DOMAIN tx'.file.images : tx'.file.images[q].id = d.images[q].id
  <2> DEFINE I == [r \in {q \in DOMAIN d.images : d.images[q].id # plan[c].image_id}
                      |-> d.images[r]]
             S == {s \in d.scans : s.id \notin plan[c].scan_ids}
  <2>1. PICK u : u = [Work EXCEPT !.stage = "end", !.file.images = I, !.file.scans = S]
    OBVIOUS
  <2>2. tx' = Refreshed(u)
    BY <1>6, <2>1 DEF delete_write
  <2>3. /\ I \in [DOMAIN I -> ImageRowType] /\ DOMAIN I \subseteq ImageRef
        /\ DOMAIN I \subseteq DOMAIN d.images
        /\ S \subseteq ScanRow
        /\ \A q \in DOMAIN I : I[q].id = d.images[q].id
    BY <1>4
  <2> HIDE DEF I, S
  <2>5. /\ Shaped(u) /\ u.stage = "end" /\ u.file.images = I /\ u.file.scans = S
        /\ u.file.containers = d.containers /\ u.file.workloads = d.workloads
        /\ u.file.snaps = d.snaps /\ u.pending = Work.pending
        /\ u.refreshed = Work.refreshed /\ u.missed = Work.missed
    BY <1>0, <2>1 DEF Shaped
  <2>6. TablesTyped(u.file)
    BY <2>3, <2>5 DEF TablesTyped, ImagesTyped
  <2>7. IsTransaction(u)
    BY <1>3, <2>5, <2>6
  <2>8. Rewritten(tx', u) /\ tx'.stage = "end"
    BY <1>1, <2>2, <2>5, <2>7
  <2> QED BY <2>3, <2>5, <2>8
<1>7. CASE log_docker
  BY <1>2, <1>7 DEF log_docker, import_log, Reached
<1>8. CASE log_rest
  BY <1>2, <1>8 DEF log_rest
<1> QED BY <1>5, <1>6, <1>7, <1>8 DEF Rewrite

------------------------------------------------------------------------------
(* Type correctness.                                                        *)

\* An edit by hand changes the placements alone, outside any transaction.
LEMMA HandEdits ==
  ASSUME TypeOK, ByHand
  PROVE  /\ tx = None /\ tx' = None /\ now' = now /\ plan' = plan
         /\ IsDatabase(db')
         /\ db'.images = db.images /\ db'.scans = db.scans /\ db'.snaps = db.snaps
<1> DEFINE C == db.containers
           W == db.workloads
           Edited(e) == /\ tx = None /\ tx' = None /\ now' = now /\ plan' = plan
                        /\ IsDatabase(e)
                        /\ e.images = db.images /\ e.scans = db.scans /\ e.snaps = db.snaps
<1>1. /\ db = [images |-> db.images, scans |-> db.scans, containers |-> C,
               workloads |-> W, snaps |-> db.snaps]
      /\ TablesTyped(db) /\ IsCalendar(db.snaps)
      /\ DOMAIN C \subseteq Hosts /\ C \in [DOMAIN C -> SUBSET ContainerRow]
      /\ DOMAIN W \subseteq Clusters /\ W \in [DOMAIN W -> SUBSET RawRef]
  BY DEF TypeOK, IsDatabase, PlacementsTyped
<1>2. ASSUME NEW k \in Clusters, add_cluster(k)
      PROVE  Edited(db')
  <2> DEFINE X == [c \in DOMAIN W \cup {k} |-> IF c = k THEN {} ELSE W[c]]
  <2>1. db' = [db EXCEPT !.workloads = X] /\ UNCHANGED <<now, tx, plan>> /\ tx = None
    BY <1>2 DEF add_cluster
  <2>2. X \in [DOMAIN X -> SUBSET RawRef] /\ DOMAIN X \subseteq Clusters
    BY <1>1
  <2> HIDE DEF X
  <2>3. PICK e : e = [db EXCEPT !.workloads = X]
    OBVIOUS
  <2>4. /\ e = [images |-> e.images, scans |-> e.scans, containers |-> e.containers,
                workloads |-> e.workloads, snaps |-> e.snaps]
        /\ e.images = db.images /\ e.scans = db.scans /\ e.snaps = db.snaps
        /\ e.containers = C /\ e.workloads = X
    BY <1>1, <2>3
  <2>5. IsDatabase(e)
    BY <1>1, <2>2, <2>4 DEF IsDatabase, TablesTyped, ImagesTyped, PlacementsTyped
  <2> QED BY <2>1, <2>3, <2>4, <2>5
<1>3. ASSUME NEW k \in Clusters, delete_cluster(k)
      PROVE  Edited(db')
  <2> DEFINE X == [c \in DOMAIN W \ {k} |-> W[c]]
  <2>1. db' = [db EXCEPT !.workloads = X] /\ UNCHANGED <<now, tx, plan>> /\ tx = None
    BY <1>3 DEF delete_cluster
  <2>2. X \in [DOMAIN X -> SUBSET RawRef] /\ DOMAIN X \subseteq Clusters
    BY <1>1
  <2> HIDE DEF X
  <2>3. PICK e : e = [db EXCEPT !.workloads = X]
    OBVIOUS
  <2>4. /\ e = [images |-> e.images, scans |-> e.scans, containers |-> e.containers,
                workloads |-> e.workloads, snaps |-> e.snaps]
        /\ e.images = db.images /\ e.scans = db.scans /\ e.snaps = db.snaps
        /\ e.containers = C /\ e.workloads = X
    BY <1>1, <2>3
  <2>5. IsDatabase(e)
    BY <1>1, <2>2, <2>4 DEF IsDatabase, TablesTyped, ImagesTyped, PlacementsTyped
  <2> QED BY <2>1, <2>3, <2>4, <2>5
<1>4. ASSUME NEW h \in Hosts, delete_host(h)
      PROVE  Edited(db')
  <2> DEFINE X == [g \in DOMAIN C \ {h} |-> C[g]]
  <2>1. db' = [db EXCEPT !.containers = X] /\ UNCHANGED <<now, tx, plan>> /\ tx = None
    BY <1>4 DEF delete_host
  <2>2. X \in [DOMAIN X -> SUBSET ContainerRow] /\ DOMAIN X \subseteq Hosts
    BY <1>1
  <2> HIDE DEF X
  <2>3. PICK e : e = [db EXCEPT !.containers = X]
    OBVIOUS
  <2>4. /\ e = [images |-> e.images, scans |-> e.scans, containers |-> e.containers,
                workloads |-> e.workloads, snaps |-> e.snaps]
        /\ e.images = db.images /\ e.scans = db.scans /\ e.snaps = db.snaps
        /\ e.containers = X /\ e.workloads = W
    BY <1>1, <2>3
  <2>5. IsDatabase(e)
    BY <1>1, <2>2, <2>4 DEF IsDatabase, TablesTyped, ImagesTyped, PlacementsTyped
  <2> QED BY <2>1, <2>3, <2>4, <2>5
<1> QED BY <1>2, <1>3, <1>4 DEF ByHand

\* A reconstruction adds rows to days, well typed ones, and changes none.
LEMMA Reconstruction ==
  ASSUME TypeOK, NEW c \in Clients, backfill_write(c)
  PROVE  /\ tx = None /\ tx' = None /\ now' = now
         /\ IsDatabase(db')
         /\ db'.images = db.images /\ db'.scans = db.scans
         /\ db'.containers = db.containers /\ db'.workloads = db.workloads
         /\ db' = [db EXCEPT !.snaps = db'.snaps]
         /\ \A day \in Days :
              /\ DOMAIN db.snaps[day] \subseteq DOMAIN db'.snaps[day]
              /\ \A r \in DOMAIN db.snaps[day] : db'.snaps[day][r] = db.snaps[day][r]
              /\ \A r \in DOMAIN db'.snaps[day] \ DOMAIN db.snaps[day] :
                    /\ r \in DOMAIN plan[c].rows[day]
                    /\ db'.snaps[day][r] = plan[c].rows[day][r]
<1> DEFINE X == [day \in Days |->
                   [r \in DOMAIN db.snaps[day] \cup DOMAIN plan[c].rows[day] |->
                       IF r \in DOMAIN db.snaps[day] THEN db.snaps[day][r]
                       ELSE plan[c].rows[day][r]]]
<1>1. tx = None /\ tx' = None /\ now' = now
  BY DEF backfill_write
<1>2. /\ db = [images |-> db.images, scans |-> db.scans, containers |-> db.containers,
               workloads |-> db.workloads, snaps |-> db.snaps]
      /\ TablesTyped(db) /\ PlacementsTyped(db) /\ IsCalendar(db.snaps)
  BY DEF TypeOK, IsDatabase
<1>3. IsCalendar(plan[c].rows)
  BY DEF backfill_write, TypeOK, PlanTyped, DeletePlan, IsBackfillPlan
<1>4. CASE collides(plan[c].rows)
  <2>1. db' = db
    BY <1>4 DEF backfill_write
  <2>2. db = [db EXCEPT !.snaps = db.snaps]
    BY <1>2
  <2> QED BY <1>1, <1>2, <2>1, <2>2 DEF TypeOK
<1>5. CASE ~ collides(plan[c].rows)
  <2>1. db' = [db EXCEPT !.snaps = X]
    BY <1>5 DEF backfill_write
  <2>2. IsCalendar(X)
    BY <1>2, <1>3 DEF IsCalendar, IsDayRows
  <2>3. \A day \in Days :
          /\ DOMAIN db.snaps[day] \subseteq DOMAIN X[day]
          /\ \A r \in DOMAIN db.snaps[day] : X[day][r] = db.snaps[day][r]
          /\ \A r \in DOMAIN X[day] \ DOMAIN db.snaps[day] :
                r \in DOMAIN plan[c].rows[day] /\ X[day][r] = plan[c].rows[day][r]
    OBVIOUS
  <2> HIDE DEF X
  <2>4. PICK e : e = [db EXCEPT !.snaps = X]
    OBVIOUS
  <2>5. /\ e = [images |-> e.images, scans |-> e.scans, containers |-> e.containers,
                workloads |-> e.workloads, snaps |-> e.snaps]
        /\ e.images = db.images /\ e.scans = db.scans /\ e.snaps = X
        /\ e.containers = db.containers /\ e.workloads = db.workloads
    BY <1>2, <2>4
  <2>6. IsDatabase(e)
    BY <1>2, <2>2, <2>5 DEF IsDatabase, TablesTyped, ImagesTyped, PlacementsTyped
  <2> QED BY <1>1, <2>1, <2>3, <2>4, <2>5, <2>6
<1> QED BY <1>4, <1>5

\* A plan that one client drops or replaces leaves the others typed.
LEMMA PlanStep ==
  ASSUME TypeOK, NEW c \in Clients, NEW p, PlanTyped(p),
         plan' = [plan EXCEPT ![c] = p]
  PROVE  plan' = [x \in Clients |-> plan'[x]] /\ \A x \in Clients : PlanTyped(plan'[x])
BY DEF TypeOK

\* What backfill_snapshots plans to insert is well typed.
LEMMA BackfillRowsTyped ==
  ASSUME TablesTyped(db), NEW day \in Days
  PROVE  IsDayRows(backfill_rows(day))
<1> DEFINE Named == {q \in DOMAIN db.images : scans_until(q, day) # {}}
<1>1. ASSUME NEW r \in Named
      PROVE  r \in ImageRef /\ frozen(db, r, last_listed(scans_until(r, day))) \in SnapRow
  <2>1. r \in DOMAIN db.images /\ scans_until(r, day) # {} /\ scans_until(r, day) \subseteq ScanRow
    BY DEF scans_until, ScansOf, TablesTyped
  <2>2. last_listed(scans_until(r, day)) \in ScanRow
    BY <2>1, LastListedIsMember
  <2> QED BY <2>1, <2>2, FrozenTyped DEF TablesTyped, ImagesTyped
<1>2. IsDayRows([r \in Named |-> frozen(db, r, last_listed(scans_until(r, day)))])
  BY <1>1 DEF IsDayRows
<1>3. IsDayRows(NoRows)
  BY DEF IsDayRows, NoRows
<1> QED BY <1>2, <1>3 DEF backfill_rows

\* Plans stay typed in every step.
LEMMA PlansTyped ==
  ASSUME TypeOK, [Next]_vars
  PROVE  plan' = [x \in Clients |-> plan'[x]] /\ \A x \in Clients : PlanTyped(plan'[x])
<1> DEFINE Typed == plan' = [x \in Clients |-> plan'[x]] /\ \A x \in Clients : PlanTyped(plan'[x])
<1>0. PlanTyped(None)
  BY DEF PlanTyped
<1>1. ASSUME NEW c \in Clients, plan' = [plan EXCEPT ![c] = None]
      PROVE  Typed
  BY <1>0, <1>1, PlanStep
<1>2. ASSUME NEW c \in Clients, NEW r \in ImageRef, delete_read(c, r)
      PROVE  Typed
  <2> DEFINE p == [op |-> "delete", image_id |-> db.images[r].id,
                   scan_ids |-> {s.id : s \in ScansOf(db, r)}]
  <2>1. db.images[r].id \in RowIds /\ {s.id : s \in ScansOf(db, r)} \in SUBSET RowIds
    BY <1>2 DEF delete_read, TypeOK, IsDatabase, TablesTyped, ImagesTyped, ImageRowType,
                ScansOf, ScanRow
  <2>2. PlanTyped(p)
    BY <2>1 DEF PlanTyped, DeletePlan
  <2>3. plan' = [plan EXCEPT ![c] = p]
    BY <1>2 DEF delete_read
  <2> HIDE DEF p
  <2> QED BY <2>2, <2>3, PlanStep
<1>3. ASSUME NEW c \in Clients, backfill_read(c)
      PROVE  Typed
  <2> DEFINE rows == [day \in Days |-> backfill_rows(day)]
             p == [op |-> "backfill", rows |-> rows]
  <2>1. IsCalendar(rows)
    BY BackfillRowsTyped DEF IsCalendar, TypeOK, IsDatabase
  <2>2. PlanTyped(p)
    BY <2>1 DEF PlanTyped, IsBackfillPlan
  <2>3. plan' = [plan EXCEPT ![c] = p]
    BY <1>3 DEF backfill_read
  <2> HIDE DEF p
  <2> QED BY <2>2, <2>3, PlanStep
<1>4. CASE plan' = plan
  BY <1>4 DEF TypeOK
<1>5. CASE Rewrite
  BY <1>1, <1>4, <1>5 DEF Rewrite, log_docker, log_rest, import_log, set_noisy, delete_write
<1>6. CASE ByHand
  BY <1>4, <1>6, HandEdits
<1>7. CASE PlanOnly
  BY <1>1, <1>2, <1>3, <1>4, <1>7 DEF PlanOnly, abandon, vars
<1> QED
  BY <1>1, <1>4, <1>5, <1>6, <1>7, StepShapes, UnchangedByRecord
     DEF commit, rollback, backfill_write, tick

\* Every state of the inventory is well typed: no import, whole or broken off,
\* no edit, delete or reconstruction, however they interleave, puts a malformed
\* row in a table or in the trend (images.py, vuln_snapshots.py, the import
\* services).
THEOREM TypeCorrect == Spec => []TypeOK
\* No step takes a variable out of its type.
<1>TypeStep. TypeOK /\ [Next]_vars => TypeOK'
  <2> SUFFICES ASSUME TypeOK, [Next]_vars PROVE TypeOK'
    OBVIOUS
  <2>0. plan' = [x \in Clients |-> plan'[x]] /\ \A x \in Clients : PlanTyped(plan'[x])
    BY PlansTyped
  <2>1. ASSUME now' = now, IsDatabase(db'), tx' # None => IsTransaction(tx')
        PROVE  TypeOK'
    BY <2>0, <2>1 DEF TypeOK
  <2>2. CASE ImportRecord
    BY <2>1, <2>2, RecordStep, WorkAlone DEF TypeOK
  <2>3. CASE Rewrite
    BY <2>1, <2>3, RewriteStep, WorkAlone DEF TypeOK
  <2>4. CASE commit
    BY <2>1, <2>4 DEF commit, TypeOK, IsTransaction
  <2>5. CASE rollback
    BY <2>1, <2>5 DEF rollback, TypeOK
  <2>6. CASE ByHand
    BY <2>1, <2>6, HandEdits
  <2>7. ASSUME NEW c \in Clients, backfill_write(c)
        PROVE  TypeOK'
    BY <2>1, <2>7, Reconstruction
  <2>8. CASE PlanOnly
    <3>1. now' = now /\ db' = db /\ tx' = tx
      BY <2>8 DEF PlanOnly, delete_read, backfill_read, abandon, vars
    <3> QED BY <2>1, <3>1 DEF TypeOK
  <2>9. CASE tick
    BY <2>0, <2>9, InventoryAssumption DEF tick, TypeOK, Times
  <2> QED BY <2>2, <2>3, <2>4, <2>5, <2>6, <2>7, <2>8, <2>9, StepShapes
\* The inventory starts well typed.
<1>TypeInit. Init => TypeOK
  <2> SUFFICES ASSUME Init PROVE TypeOK
    OBVIOUS
  <2>1. IsCalendar([day \in Days |-> NoRows])
    BY DEF IsCalendar, IsDayRows, NoRows
  <2>2. IsDatabase(db)
    BY <2>1 DEF Init, IsDatabase, TablesTyped, ImagesTyped, PlacementsTyped
  <2> QED BY <2>2, InventoryAssumption DEF Init, TypeOK, PlanTyped, Times
<1>1. Init => TypeOK
  BY <1>TypeInit
<1>2. TypeOK /\ [Next]_vars => TypeOK'
  BY <1>TypeStep
<1> QED BY <1>1, <1>2, PTL DEF Spec

------------------------------------------------------------------------------
(* The snapshots implement TrendHistory.                                    *)

\* The daily snapshots are history: whatever is imported, edited, deleted or
\* reconstructed, and however the clients interleave, a row of a day that is
\* over changes or goes only in the commit of the one transaction that held
\* that day when midnight came (write_daily_snapshot, backfill_snapshots,
\* get_session).
THEOREM HistoryIsKept == Spec => HistoryKept
\* A step in the transaction holds at most today in addition.
<1>HoldsToday. ASSUME TypeOK, now' = now, db' = db,
                      \A day \in Days \ {Today} : tx'.file.snaps[day] = Work.file.snaps[day]
               PROVE  Held' \subseteq Held \cup {Today}
  <2> SUFFICES ASSUME NEW day \in Held', day # Today PROVE day \in Held
    OBVIOUS
  <2>1. /\ day \in Days /\ tx'.file.snaps[day] # db.snaps[day]
        /\ tx'.file.snaps[day] = Work.file.snaps[day]
    BY <1>HoldsToday DEF Held
  <2>2. tx # None
    BY <1>HoldsToday, <2>1, WorkTyped
  <2> QED BY <1>HoldsToday, <2>1, <2>2, WorkTyped DEF Held
\* The next instant is of the same day or of the next.
<1>NextInstant. ASSUME NEW t \in Nat
                PROVE  Day(t + 1) = Day(t) \/ Day(t + 1) = Day(t) + 1
  <2> USE <1>NextInstant
  <2> DEFINE k == TicksPerDay
             q == t \div k
  <2>1. k \in Nat /\ k > 0
    BY InventoryAssumption
  <2>2. q \in Nat /\ k * q =< t /\ t < k * (q + 1)
    BY <2>1
  <2>3. CASE t + 1 < k * (q + 1)
    <3>1. (t + 1) \div k = q
      BY <2>1, <2>2, <2>3
    <3> QED BY <3>1 DEF Day
  <2>4. CASE t + 1 = k * (q + 1)
    <3>1. (t + 1) \div k = q + 1
      BY <2>1, <2>2, <2>4
    <3> QED BY <3>1 DEF Day
  <2>5. k * (q + 1) \in Nat
    BY <2>1, <2>2
  <2> QED BY <2>2, <2>3, <2>4, <2>5
\* Every step is one of the history's, or leaves it alone.
<1>TrendStep. TypeOK /\ [Next]_vars => [Trend!Next]_<<Today, db.snaps, Held>>
  <2> SUFFICES ASSUME TypeOK, [Next]_vars PROVE [Trend!Next]_<<Today, db.snaps, Held>>
    OBVIOUS
  <2>0. now' = now => Today' = Today
    BY DEF Today
  <2>1. ASSUME now' = now, db' = db,
               \A day \in Days \ {Today} : tx'.file.snaps[day] = Work.file.snaps[day]
        PROVE  Trend!Refresh
    BY <2>0, <2>1, <1>HoldsToday DEF Trend!Refresh
  <2>2. CASE ImportRecord
    BY <2>1, <2>2, RecordStep, WorkAlone DEF Trend!Next
  <2>3. CASE Rewrite
    BY <2>1, <2>3, RewriteStep, WorkAlone DEF Trend!Next
  <2>4. CASE commit
    <3>1. Held' = {} /\ Today' = Today
      BY <2>0, <2>4 DEF commit, Held
    <3>2. \A day \in Days \ Held : db'.snaps[day] = db.snaps[day]
      BY <2>4 DEF commit, Held
    <3> QED BY <3>1, <3>2 DEF Trend!Next, Trend!Publish
  <2>5. CASE rollback
    <3>1. Held' = {} /\ Today' = Today /\ db' = db
      BY <2>0, <2>5 DEF rollback, Held
    <3> QED BY <3>1 DEF Trend!Next, Trend!Publish
  <2>6. CASE ByHand
    BY <2>0, <2>6, HandEdits DEF Held
  <2>7. ASSUME NEW c \in Clients, backfill_write(c)
        PROVE  Trend!Backfill
    BY <2>0, <2>7, Reconstruction DEF Held, Trend!Backfill, Trend!Extends
  <2>8. CASE PlanOnly
    <3>1. now' = now /\ db' = db /\ tx' = tx
      BY <2>8 DEF PlanOnly, delete_read, backfill_read, abandon, vars
    <3> QED BY <2>0, <3>1 DEF Held
  <2>9. CASE tick
    <3>1. now \in Nat
      BY DEF TypeOK, Times
    <3>2. Today' = Today \/ Today' = Today + 1
      BY <2>9, <3>1, <1>NextInstant DEF tick, Today
    <3>3. Held' = Held /\ db' = db
      BY <2>9 DEF tick, Held
    <3> QED BY <3>2, <3>3 DEF Trend!Next, Trend!Midnight
  <2> QED BY <2>2, <2>3, <2>4, <2>5, <2>6, <2>7, <2>8, <2>9, StepShapes DEF Trend!Next
<1>1. Init => Trend!Init
  <2>1. Init => Today = 0
    BY InventoryAssumption DEF Init, Today, Day
  <2> QED BY <2>1 DEF Init, Trend!Init, Held
<1>2. TypeOK /\ [Next]_vars => [Trend!Next]_<<Today, db.snaps, Held>>
  BY <1>TrendStep
<1> QED BY <1>1, <1>2, TypeCorrect, PTL DEF Spec, HistoryKept, Trend!Spec

------------------------------------------------------------------------------
(* When today's rows part from the live view.                               *)

\* What the open transaction will publish: before its first import of
\* placements only new, empty hosts; after a rewrite that saw every row, the
\* rows of its tables, on the day of the rewrite.
OnlyNewHosts(d, e) ==
  /\ e.images = d.images /\ e.scans = d.scans
  /\ e.workloads = d.workloads /\ e.snaps = d.snaps
  /\ DOMAIN d.containers \subseteq DOMAIN e.containers
  /\ \A h \in DOMAIN e.containers :
        e.containers[h] = IF h \in DOMAIN d.containers THEN d.containers[h] ELSE {}
TxFaithful ==
  tx # None =>
    /\ tx.stage \in {"start", "hosts"} => OnlyNewHosts(db, tx.file)
    /\ tx.stage \in {"logged", "end"} =>
         /\ tx.refreshed \in Days
         /\ ~ tx.missed => tx.file.snaps[tx.refreshed] = SnapshotRows(tx.file)

\* A new host runs nothing, so no row changes.
LEMMA EmptyHostRows ==
  ASSUME NEW d, NEW e, OnlyNewHosts(d, e)
  PROVE  SnapshotRows(e) = SnapshotRows(d)
<1>1. \A r : container_placements(e, r) = container_placements(d, r)
  BY DEF OnlyNewHosts, container_placements, container_key
<1>2. \A r : is_running(e, r) = is_running(d, r)
  BY <1>1 DEF OnlyNewHosts, is_running, k8s_placements, workload_key
<1>3. \A r, s : frozen(e, r, s) = frozen(d, r, s)
  BY <1>2 DEF frozen, OnlyNewHosts
<1>4. ScannedImages(e) = ScannedImages(d) /\ \A r : ScansOf(e, r) = ScansOf(d, r)
  BY DEF OnlyNewHosts, ScannedImages, never_scanned, ScansOf
<1> QED BY <1>3, <1>4 DEF SnapshotRows

\* Nor does a cluster added by hand.
LEMMA EmptyClusterRows ==
  ASSUME TypeOK, NEW k, add_cluster(k)
  PROVE  SnapshotRows(db') = SnapshotRows(db)
<1> DEFINE X == [c \in DOMAIN db.workloads \cup {k} |-> IF c = k THEN {} ELSE db.workloads[c]]
<1>0. db' = [db EXCEPT !.workloads = X] /\ k \notin DOMAIN db.workloads
  BY DEF add_cluster
<1> HIDE DEF X
<1>1. /\ db'.images = db.images /\ db'.scans = db.scans
      /\ db'.containers = db.containers /\ db'.workloads = X
  BY <1>0 DEF TypeOK, IsDatabase
<1>2. \A r : k8s_placements(db', r) = k8s_placements(db, r)
  <2>1. \A w : workload_key(db', w) = workload_key(db, w)
    BY <1>1 DEF workload_key
  <2>2. /\ DOMAIN X = DOMAIN db.workloads \cup {k} /\ X[k] = {}
        /\ \A c \in DOMAIN db.workloads : X[c] = db.workloads[c]
    BY <1>0 DEF X
  <2> QED BY <1>1, <2>1, <2>2 DEF k8s_placements
<1>3. \A r : is_running(db', r) = is_running(db, r)
  BY <1>1, <1>2 DEF is_running, container_placements, container_key
<1>4. \A r, s : frozen(db', r, s) = frozen(db, r, s)
  BY <1>1, <1>3 DEF frozen
<1>5. ScannedImages(db') = ScannedImages(db) /\ \A r : ScansOf(db', r) = ScansOf(db, r)
  BY <1>1 DEF ScannedImages, never_scanned, ScansOf
<1> QED BY <1>4, <1>5 DEF SnapshotRows

\* No step makes the open transaction unfaithful.
LEMMA TxStep ==
  ASSUME TypeOK, TxFaithful, [Next]_vars
  PROVE  TxFaithful'
<1>1. ASSUME NEW h \in Hosts, import_host(h)
      PROVE  TxFaithful'
  <2>1. Work.stage \in {"start", "hosts"}
    BY <1>1 DEF import_host, Reached
  <2>2. OnlyNewHosts(db, Work.file)
    <3>1. CASE tx = None
      BY <3>1, WorkTyped DEF OnlyNewHosts
    <3>2. CASE tx # None
      BY <2>1, <3>2, WorkTyped DEF TxFaithful
    <3> QED BY <3>1, <3>2
  <2>3. h \notin DOMAIN Work.file.containers /\ db' = db
    BY <1>1 DEF import_host
  <2>4. OnlyNewHosts(db, tx'.file) /\ tx'.stage = "hosts"
    <3> DEFINE C == Work.file.containers
               D == [g \in DOMAIN C \cup {h} |-> IF g = h THEN {} ELSE C[g]]
    <3>1. /\ DOMAIN D = DOMAIN C \cup {h} /\ D[h] = {}
          /\ \A g \in DOMAIN C : D[g] = C[g]
      BY <2>3
    <3> HIDE DEF D
    <3>2. /\ tx'.stage = "hosts" /\ tx'.file.containers = D
          /\ tx'.file.images = Work.file.images /\ tx'.file.scans = Work.file.scans
          /\ tx'.file.workloads = Work.file.workloads /\ tx'.file.snaps = Work.file.snaps
      BY <1>1, HostImported DEF D
    <3>3. h \notin DOMAIN db.containers
      BY <2>2, <2>3 DEF OnlyNewHosts
    <3> QED BY <2>2, <3>1, <3>2, <3>3 DEF OnlyNewHosts
  <2> QED BY <2>3, <2>4 DEF TxFaithful
<1>2. ASSUME ImportRecord, tx'.stage # "hosts"
      PROVE  TxFaithful'
  BY <1>2, RecordStep DEF TxFaithful
<1>3. CASE ImportRecord
  <2>1. ASSUME NEW rep \in Reports, NEW at \in Times, NEW src \in Sources,
               import_trivy(rep, at, src)
        PROVE  TxFaithful'
    BY <1>2, <1>3, <2>1, ReportIngested
  <2>2. ASSUME NEW h \in Hosts, NEW listing \in DockerListings, NEW breaks \in BOOLEAN,
               import_docker(h, listing, breaks)
        PROVE  TxFaithful'
    BY <1>2, <1>3, <2>2, DockerImported
  <2>3. ASSUME NEW k \in Clusters, NEW pods \in PodListings \cup {None},
               NEW flushes \in BOOLEAN, NEW breaks \in BOOLEAN,
               import_k8s(k, pods, flushes, breaks)
        PROVE  TxFaithful'
    BY <1>2, <1>3, <2>3, K8sImported
  <2> QED BY <1>1, <1>3, <2>1, <2>2, <2>3 DEF ImportRecord
<1>4. CASE Rewrite
  <2>1. Today \in Days /\ Today' = Today
    BY <1>4, DayInCalendar, WorkAlone DEF TypeOK, Today
  <2> QED BY <1>4, <2>1, RewriteStep DEF TxFaithful
<1>5. CASE commit \/ rollback \/ ByHand \/ \E c \in Clients : backfill_write(c)
  <2>1. tx' = None
    BY <1>5, HandEdits, Reconstruction DEF commit, rollback
  <2> QED BY <2>1 DEF TxFaithful
<1>6. CASE PlanOnly \/ tick
  <2>1. tx' = tx /\ db' = db
    BY <1>6 DEF PlanOnly, delete_read, backfill_read, abandon, vars, tick
  <2> QED BY <2>1 DEF TxFaithful
<1> QED BY <1>3, <1>4, <1>5, <1>6, StepShapes

\* Once today's rows are what the list page shows, only midnight, the removal
\* of a host or cluster, a reconstruction that lands on today, a commit on a
\* later day than the rewrite or a record that broke off leaves them out of
\* date (the hooks on the import services, set_noisy and delete_image).
THEOREM DriftsOnlyByRemoval == Spec => DriftOnlyByRemoval
<1>1. TypeOK /\ TxFaithful /\ [Next]_vars => [DriftStep]_vars
  <2> SUFFICES ASSUME TypeOK, TxFaithful, [Next]_vars, TodayAgrees, ~ TodayAgrees'
               PROVE  \/ Today' # Today
                      \/ tx = None /\ (RemovedPlacement \/ ReconstructedToday)
                      \/ LateCommit \/ BrokenOff
    BY DEF DriftStep
  <2>0. ~ (db' = db /\ now' = now)
    BY DEF TodayAgrees, Today
  <2>1. CASE commit
    <3>1. tx # None /\ db' = tx.file /\ now' = now /\ tx.stage \in {"hosts", "logged", "end"}
      BY <2>1 DEF commit
    <3>2. CASE tx.stage = "hosts"
      <4>1. OnlyNewHosts(db, db')
        BY <3>1, <3>2 DEF TxFaithful
      <4>2. SnapshotRows(db') = SnapshotRows(db) /\ db'.snaps = db.snaps
        BY <4>1, EmptyHostRows DEF OnlyNewHosts
      <4> QED BY <3>1, <4>2 DEF TodayAgrees, Today
    <3>3. CASE tx.stage \in {"logged", "end"}
      <4>1. tx.refreshed \in Days
            /\ (~ tx.missed => db'.snaps[tx.refreshed] = SnapshotRows(db'))
        BY <3>1, <3>3 DEF TxFaithful
      <4>2. Today' = Today /\ db'.snaps[Today] # SnapshotRows(db')
        BY <3>1 DEF TodayAgrees, Today
      <4>3. CASE tx.missed
        BY <3>1, <4>3 DEF BrokenOff
      <4>4. CASE ~ tx.missed
        <5>1. tx.refreshed # Today
          BY <4>1, <4>2, <4>4
        <5>2. tx.refreshed # None
          BY <4>1, InventoryAssumption
        <5> QED BY <3>1, <5>1, <5>2 DEF LateCommit
      <4> QED BY <4>3, <4>4
    <3> QED BY <3>1, <3>2, <3>3
  <2>2. ASSUME NEW h \in Hosts, delete_host(h)
        PROVE  tx = None /\ RemovedPlacement
    <3>1. h \in DOMAIN db.containers /\ tx = None
      BY <2>2 DEF delete_host
    <3>2. DOMAIN db'.containers = DOMAIN db.containers \ {h}
      BY <2>2 DEF delete_host, TypeOK, IsDatabase
    <3> QED BY <3>1, <3>2 DEF RemovedPlacement
  <2>3. ASSUME NEW k \in Clusters, delete_cluster(k)
        PROVE  tx = None /\ RemovedPlacement
    <3>1. k \in DOMAIN db.workloads /\ tx = None
      BY <2>3 DEF delete_cluster
    <3>2. DOMAIN db'.workloads = DOMAIN db.workloads \ {k}
      BY <2>3 DEF delete_cluster, TypeOK, IsDatabase
    <3> QED BY <3>1, <3>2 DEF RemovedPlacement
  <2>4. ASSUME NEW k \in Clusters, add_cluster(k)
        PROVE  FALSE
    <3>1. SnapshotRows(db') = SnapshotRows(db)
      BY <2>4, EmptyClusterRows
    <3>2. db'.snaps = db.snaps /\ now' = now
      BY <2>4, HandEdits DEF ByHand
    <3> QED BY <3>1, <3>2 DEF TodayAgrees, Today
  <2>5. ASSUME NEW c \in Clients, backfill_write(c)
        PROVE  tx = None /\ ReconstructedToday
    BY <2>5, Reconstruction DEF ReconstructedToday
  <2>6. CASE tick
    BY <2>6 DEF tick, TodayAgrees
  <2>7. CASE rollback \/ PlanOnly
    BY <2>0, <2>7 DEF rollback, PlanOnly, delete_read, backfill_read, abandon, vars
  <2>8. CASE ImportRecord \/ Rewrite
    BY <2>0, <2>8, WorkAlone
  <2> QED BY <2>1, <2>2, <2>3, <2>4, <2>5, <2>6, <2>7, <2>8, StepShapes DEF ByHand
<1>2. Init => TxFaithful
  BY DEF Init, TxFaithful
<1>3. TypeOK /\ TxFaithful /\ [Next]_vars => TxFaithful'
  BY TxStep
<1> QED BY <1>1, <1>2, <1>3, TypeCorrect, PTL DEF Spec, DriftOnlyByRemoval

------------------------------------------------------------------------------
(* The trend and the summary card.                                          *)

\* In every state the two surfaces of the dashboard agree on the running total
\* whenever today's rows are current.
THEOREM CardAgreesWithTrend == Spec => []CardMatchesTrend
\* Both add up the same images, those that run and are not noisy, and take the
\* same scan of each: while today's rows are current the trend's point is the
\* card's running total (snapshot_trend, vuln_summary).
<1>CardStep. TypeOK => CardMatchesTrend
  <2> SUFFICES ASSUME TypeOK, TodayAgrees
               PROVE  trend_total(Today) = vuln_summary(db, "running")
    BY DEF CardMatchesTrend
  <2> DEFINE Shows(r) == /\ ~ db.images[r].noisy
                         /\ image_overview(db)[r].status = "running"
                         /\ image_overview(db)[r].scan # None
             OnCard == {r \in DOMAIN db.images : Shows(r)}
  <2>1. db.snaps[Today] = SnapshotRows(db)
    BY DEF TodayAgrees
  <2>2. ASSUME NEW r \in ScannedImages(db)
        PROVE  last_listed(ScansOf(db, r)) # None
    <3>1. ScansOf(db, r) # {} /\ ScansOf(db, r) \subseteq ScanRow
      BY DEF ScannedImages, never_scanned, ScansOf, TypeOK, IsDatabase, TablesTyped
    <3>2. last_listed(ScansOf(db, r)) \in ScanRow
      BY <3>1, LastListedIsMember
    <3> QED BY <3>2, InventoryAssumption
  <2>3. ASSUME NEW r \in DOMAIN db.images
        PROVE  r \in ScannedImages(db) <=> image_overview(db)[r].scan # None
    BY <2>2 DEF image_overview, overview_row, never_scanned, ScannedImages
  <2>4. ASSUME NEW r \in DOMAIN db.images
        PROVE  is_running(db, r) <=> image_overview(db)[r].status = "running"
    BY DEF image_overview, overview_row, never_scanned
  <2>5. Counted(Today) = {r \in ScannedImages(db) : is_running(db, r) /\ ~ db.images[r].noisy}
    BY <2>1 DEF Counted, SnapshotRows, frozen
  <2>6. Counted(Today) = OnCard
    BY <2>3, <2>4, <2>5 DEF ScannedImages, never_scanned
  <2>7. ASSUME NEW r \in OnCard
        PROVE  db.snaps[Today][r].total = image_overview(db)[r].scan.total
    <3>1. r \in ScannedImages(db) /\ ScansOf(db, r) # {} /\ r \in DOMAIN db.images
      BY <2>3 DEF ScannedImages, never_scanned
    <3> QED BY <2>1, <3>1 DEF SnapshotRows, frozen, image_overview, overview_row, never_scanned
  <2>8. [r \in Counted(Today) |-> db.snaps[Today][r].total]
          = [r \in OnCard |-> image_overview(db)[r].scan.total]
    BY <2>6, <2>7
  <2> QED BY <2>8 DEF trend_total, vuln_summary
<1> QED BY <1>CardStep, TypeCorrect, PTL

------------------------------------------------------------------------------
(* Reconstructions look only backward.                                      *)

\* What makes NoForeknowledge inductive: a reconstruction already computed,
\* but not yet written, holds no scan later than the day it is for, whatever
\* other clients do in between.
PlansKnowThePast ==
  \A c \in Clients : plan[c] # None /\ plan[c].op = "backfill" =>
    \A d \in Days : \A r \in DOMAIN plan[c].rows[d] :
      Day(plan[c].rows[d][r].scanned_at) =< d

\* A row written for a past day never holds a scan made after that day, even
\* when the reconstruction waited while new scans came in
\* (backfill_snapshots); the one exception is a day the open transaction had
\* rewritten before midnight.
THEOREM NoForeknowledgeHolds == Spec => NoForeknowledge
\* The rows computed for a day hold no later scan.
<1>RowsKnowThePast. ASSUME TablesTyped(db), NEW d \in Days, NEW r \in DOMAIN backfill_rows(d)
                    PROVE  Day(backfill_rows(d)[r].scanned_at) =< d
  <2> USE <1>RowsKnowThePast
  <2>1. r \in DOMAIN db.images /\ scans_until(r, d) # {}
        /\ backfill_rows(d)[r] = frozen(db, r, last_listed(scans_until(r, d)))
    BY DEF backfill_rows, NoRows
  <2>2. scans_until(r, d) \subseteq ScanRow
    BY DEF scans_until, ScansOf, TablesTyped
  <2>3. last_listed(scans_until(r, d)) \in scans_until(r, d)
    BY <2>1, <2>2, LastListedIsMember
  <2>4. Day(last_listed(scans_until(r, d)).at) =< d
    BY <2>3 DEF scans_until
  <2> QED BY <2>1, <2>4 DEF frozen
\* No step lets a plan learn of the future.
<1>PastStep. TypeOK /\ PlansKnowThePast /\ [Next]_vars => PlansKnowThePast'
  <2> SUFFICES ASSUME TypeOK, PlansKnowThePast, [Next]_vars PROVE PlansKnowThePast'
    OBVIOUS
  <2>1. DOMAIN plan = Clients
    BY DEF TypeOK
  <2>2. ASSUME plan' = plan PROVE PlansKnowThePast'
    BY <2>2 DEF PlansKnowThePast
  <2>3. ASSUME NEW c \in Clients, plan' = [plan EXCEPT ![c] = None]
        PROVE  PlansKnowThePast'
    BY <2>1, <2>3 DEF PlansKnowThePast
  <2>4. ASSUME NEW c \in Clients, NEW r \in ImageRef, delete_read(c, r)
        PROVE  PlansKnowThePast'
    <3>1. plan'[c].op = "delete"
      BY <2>1, <2>4 DEF delete_read
    <3>2. \A x \in Clients : x # c => plan'[x] = plan[x]
      BY <2>1, <2>4 DEF delete_read
    <3> QED BY <3>1, <3>2 DEF PlansKnowThePast
  <2>5. ASSUME NEW c \in Clients, backfill_read(c)
        PROVE  PlansKnowThePast'
    <3>1. \A d \in Days : plan'[c].rows[d] = backfill_rows(d)
      BY <2>1, <2>5 DEF backfill_read
    <3>2. \A x \in Clients : x # c => plan'[x] = plan[x]
      BY <2>1, <2>5 DEF backfill_read
    <3>3. \A d \in Days : \A r \in DOMAIN plan'[c].rows[d] :
            Day(plan'[c].rows[d][r].scanned_at) =< d
      BY <3>1, <1>RowsKnowThePast DEF TypeOK, IsDatabase
    <3> QED BY <3>2, <3>3 DEF PlansKnowThePast
  <2>6. CASE Rewrite
    BY <2>2, <2>3, <2>6
       DEF Rewrite, log_docker, log_rest, import_log, set_noisy, delete_write
  <2>7. CASE PlanOnly
    BY <2>2, <2>3, <2>4, <2>5, <2>7 DEF PlanOnly, abandon, vars
  <2>8. ASSUME NEW c \in Clients, backfill_write(c)
        PROVE  PlansKnowThePast'
    BY <2>3, <2>8 DEF backfill_write
  <2> QED
    BY <2>2, <2>6, <2>7, <2>8, StepShapes, UnchangedByRecord, HandEdits
       DEF commit, rollback, tick
\* The rows a step adds, outside the days that are held, come from a plan.
<1>RowsAdded. ASSUME TypeOK, PlansKnowThePast, [Next]_vars,
                     NEW d \in Days \ Held, NEW r \in DOMAIN db'.snaps[d] \ DOMAIN db.snaps[d]
              PROVE  Day(db'.snaps[d][r].scanned_at) =< d
  <2> USE <1>RowsAdded
  <2>1. ASSUME db'.snaps[d] = db.snaps[d] PROVE FALSE
    BY <2>1
  <2>2. ASSUME NEW c \in Clients, backfill_write(c)
        PROVE  Day(db'.snaps[d][r].scanned_at) =< d
    <3>1. r \in DOMAIN plan[c].rows[d] /\ db'.snaps[d][r] = plan[c].rows[d][r]
      BY <2>2, Reconstruction
    <3>2. plan[c] # None /\ plan[c].op = "backfill"
      BY <2>2 DEF backfill_write
    <3> QED BY <3>1, <3>2 DEF PlansKnowThePast
  <2>3. CASE commit
    BY <2>1, <2>3 DEF commit, Held
  <2>4. CASE ImportRecord \/ Rewrite
    BY <2>1, <2>4, WorkAlone
  <2>5. CASE ByHand
    BY <2>1, <2>5, HandEdits
  <2>6. CASE rollback \/ PlanOnly \/ tick
    BY <2>1, <2>6 DEF rollback, PlanOnly, delete_read, backfill_read, abandon, vars, tick
  <2> QED BY <2>2, <2>3, <2>4, <2>5, <2>6, StepShapes
<1>1. Init => PlansKnowThePast
  BY DEF Init, PlansKnowThePast
<1>2. TypeOK /\ PlansKnowThePast /\ [Next]_vars => PlansKnowThePast'
  BY <1>PastStep
<1>3. TypeOK /\ PlansKnowThePast /\ [Next]_vars => [ForeknowledgeStep]_vars
  BY <1>RowsAdded DEF ForeknowledgeStep
<1> QED BY <1>1, <1>2, <1>3, TypeCorrect, PTL DEF Spec, NoForeknowledge

------------------------------------------------------------------------------
(* The join by digest.                                                      *)

\* Rowids are numbers and no key of the images table is None.
LEMMA ImageRowsTyped ==
  ASSUME TypeOK
  PROVE  /\ \A r \in DOMAIN db.images : db.images[r].id \in Nat
         /\ \A r \in DOMAIN db.images : r # None
<1>1. \A r \in DOMAIN db.images : db.images[r].id \in Nat
  BY DEF TypeOK, IsDatabase, TablesTyped, ImagesTyped, ImageRowType, RowIds
<1>2. \A r \in DOMAIN db.images : r # None
  BY RefsAssumption DEF TypeOK, IsDatabase, TablesTyped, ImagesTyped, ImageRef
<1> QED BY <1>1, <1>2

\* A pinned reference resolves to a row that carries its digest if there is
\* one, and is left to its spelling if there is none.
LEMMA PinnedHits ==
  ASSUME TypeOK, NEW w, is_tagless_digest_ref(w), NEW canonical
  PROVE  /\ Carriers(db.images, w.digest) # {} =>
              resolve_image_ref(w, canonical, db.images) \in Carriers(db.images, w.digest)
         /\ Carriers(db.images, w.digest) = {} =>
              digest_hit(db.images, w) = None
<1>1. w.digest # None
  BY DEF is_tagless_digest_ref
<1>2. ASSUME Carriers(db.images, w.digest) # {}
      PROVE  resolve_image_ref(w, canonical, db.images) \in Carriers(db.images, w.digest)
  <2>1. digest_index(db.images, w.digest) \in Carriers(db.images, w.digest)
    BY <1>2, ImageRowsTyped, DigestIndexCarries
  <2>2. digest_hit(db.images, w) = digest_index(db.images, w.digest)
    BY <1>1 DEF digest_hit
  <2>3. digest_hit(db.images, w) # None
    BY <2>1, <2>2, ImageRowsTyped DEF Carriers
  <2> QED BY <2>1, <2>2, <2>3 DEF resolve_image_ref
<1>3. ASSUME Carriers(db.images, w.digest) = {}
      PROVE  digest_hit(db.images, w) = None
  BY <1>3 DEF digest_hit, digest_index
<1> QED BY <1>2, <1>3

\* A deployment pinned by digest is shown on a row with that content, however
\* the tags moved between scans (resolve_image_ref, _canonical_or_none).
THEOREM PinnedDeploymentsJoinContent == Spec => []PinnedJoinsContent
\* The stored key of a pinned pod is None, so a pod without a carrier of its
\* digest is shown on no row.
<1>PodKey. ASSUME TypeOK, NEW w, is_tagless_digest_ref(w)
           PROVE  workload_key(db, w) \in Carriers(db.images, w.digest) \cup {None}
  <2> USE <1>PodKey
  <2>1. CASE Carriers(db.images, w.digest) # {}
    BY <2>1, PinnedHits DEF workload_key
  <2>2. CASE Carriers(db.images, w.digest) = {}
    BY <2>2, PinnedHits DEF workload_key, resolve_image_ref, canonical_or_none
  <2> QED BY <2>1, <2>2
<1>1. TypeOK => PinnedJoinsContent
  BY PinnedHits, <1>PodKey DEF PinnedJoinsContent
<1> QED BY <1>1, TypeCorrect, PTL

------------------------------------------------------------------------------
(* Staleness.                                                               *)

\* The newest scan time of a source is one of its scan times, and the largest.
LEMMA NewestIsMax ==
  ASSUME NEW S, S \subseteq ScanRow, NEW src \in SourcesOf(S)
  PROVE  /\ NewestOf(S, src) \in Times
         /\ \E s \in S : s.source = src /\ s.at = NewestOf(S, src)
         /\ \A s \in S : s.source = src => s.at =< NewestOf(S, src)
<1> DEFINE A == {s.at : s \in {t \in S : t.source = src}}
           Ages == {MaxTime - a : a \in A}
<1>0. MaxTime \in Nat
  BY InventoryAssumption
<1>1. A \subseteq Times /\ A # {}
  BY DEF ScanRow, SourcesOf
<1>2. Ages \subseteq Nat /\ Ages # {}
  BY <1>0, <1>1 DEF Times
<1>3. PICK age \in Ages : \A g \in Ages : age =< g
  BY <1>2, LeastNatural
<1>4. PICK m \in A : age = MaxTime - m
  OBVIOUS
<1>5. \A a \in A : a \in Int /\ a =< m
  <2> SUFFICES ASSUME NEW a \in A PROVE a \in Int /\ a =< m
    OBVIOUS
  <2>1. age =< MaxTime - a
    BY <1>3
  <2> QED BY <1>0, <1>1, <1>4, <2>1 DEF Times
<1> HIDE DEF A
<1>6. m \in Int
  BY <1>5
<1>7. Max(A) \in A /\ \A a \in A : Max(A) >= a
  BY <1>5, <1>6 DEF Max
<1>8. NewestOf(S, src) = Max(A)
  BY DEF NewestOf, A
<1>9. Max(A) \in Times /\ \A a \in A : a =< Max(A)
  BY <1>1, <1>7 DEF Times
<1> QED BY <1>7, <1>8, <1>9 DEF A

\* What the open transaction does to the rowids: an image it keeps has the one
\* it is committed with, and only the transaction of an edit, which ends with
\* it, drops an image (so none is dropped and entered again).
IdsKept ==
  tx # None =>
    /\ \A r \in DOMAIN db.images \cap DOMAIN tx.file.images :
          tx.file.images[r].id = db.images[r].id
    /\ tx.stage # "end" => DOMAIN db.images \subseteq DOMAIN tx.file.images

\* No step disturbs that, and so an image that outlives a step keeps its rowid.
LEMMA IdStep ==
  ASSUME TypeOK, IdsKept, [Next]_vars
  PROVE  /\ IdsKept'
         /\ \A r \in DOMAIN db.images \cap DOMAIN db'.images :
               db'.images[r].id = db.images[r].id
<1>1. /\ \A r \in DOMAIN db.images \cap DOMAIN Work.file.images :
             Work.file.images[r].id = db.images[r].id
      /\ Work.stage # "end" => DOMAIN db.images \subseteq DOMAIN Work.file.images
  BY WorkTyped DEF IdsKept
<1>2. CASE ImportRecord
  <2>1. Work.stage # "end" /\ db' = db
    BY <1>2, UnchangedByRecord
  <2> QED BY <1>1, <1>2, <2>1, RecordStep DEF IdsKept
<1>3. CASE Rewrite
  <2>1. db' = db
    BY <1>3, WorkAlone
  <2>2. \A r \in DOMAIN db.images \cap DOMAIN tx'.file.images :
           tx'.file.images[r].id = db.images[r].id
    BY <1>1, <1>3, RewriteStep
  <2>3. tx'.stage # "end" => DOMAIN db.images \subseteq DOMAIN tx'.file.images
    BY <1>1, <1>3, RewriteStep
  <2> QED BY <2>1, <2>2, <2>3 DEF IdsKept
<1>4. CASE commit
  BY <1>4 DEF commit, IdsKept
<1>5. CASE rollback
  BY <1>5 DEF rollback, IdsKept
<1>6. CASE ByHand
  BY <1>6, HandEdits DEF IdsKept
<1>7. ASSUME NEW c \in Clients, backfill_write(c)
      PROVE  IdsKept' /\ db'.images = db.images
  BY <1>7, Reconstruction DEF IdsKept
<1>8. CASE PlanOnly \/ tick
  <2>1. tx' = tx /\ db' = db
    BY <1>8 DEF PlanOnly, delete_read, backfill_read, abandon, vars, tick
  <2> QED BY <2>1 DEF IdsKept
<1> QED BY <1>2, <1>3, <1>4, <1>5, <1>6, <1>7, <1>8, StepShapes

\* An image that keeps its scans turns stale only when a newer scan of another
\* image arrives from a source that used to see it; concurrent deletes,
\* imports of its own and placements never make it stale (is_stale).
THEOREM StaleOnlyByAMissedRun == Spec => StaleOnlyByMissedRun
\* The watermark comparison, spelled out for the state a step leads to.
<1>StaleNext. ASSUME NEW r, is_stale(db, r)', NEW src \in SourcesOf(ScansOf(db', r))
              PROVE  NewestOf(ScansOf(db', r), src) < NewestOf(db'.scans, src)
  BY <1>StaleNext DEF is_stale, source_watermarks, SourcesOf, ScansOf
\* Why an image turned stale: the source that had been up to date is not any
\* more, and the scan that moved its watermark is new and of another image.
<1>TurnsStale. ASSUME TypeOK, TypeOK', IdsKept, [Next]_vars,
                      NEW r \in DOMAIN db.images \cap DOMAIN db'.images,
                      ScansOf(db, r) # {}, ScansOf(db, r) \subseteq db'.scans,
                      ~ is_stale(db, r), is_stale(db, r)'
               PROVE  \E s \in db'.scans \ db.scans : MissedRun(r, s)
  <2> USE <1>TurnsStale
  <2> DEFINE S == ScansOf(db, r)
             S2 == ScansOf(db', r)
  <2>1. db.scans \subseteq ScanRow /\ db'.scans \subseteq ScanRow
    BY DEF TypeOK, IsDatabase, TablesTyped
  <2>2. S \subseteq db.scans /\ S2 \subseteq db'.scans /\ S \subseteq S2
    BY IdStep DEF ScansOf
  <2>3. PICK src \in SourcesOf(S) : ~ (NewestOf(S, src) < NewestOf(db.scans, src))
    BY <2>2 DEF is_stale, source_watermarks, SourcesOf
  <2>4. src \in SourcesOf(db.scans) /\ src \in SourcesOf(S2) /\ src \in SourcesOf(db'.scans)
    BY <2>2, <2>3 DEF SourcesOf
  <2>5. NewestOf(S2, src) < NewestOf(db'.scans, src)
    BY <2>4, <1>StaleNext
  <2> HIDE DEF S, S2
  <2>6. S \subseteq ScanRow /\ S2 \subseteq ScanRow
    BY <2>1, <2>2
  <2>7. /\ NewestOf(S, src) \in Int /\ NewestOf(S2, src) \in Int
        /\ NewestOf(db.scans, src) \in Int /\ NewestOf(db'.scans, src) \in Int
    BY <2>1, <2>3, <2>4, <2>6, NewestIsMax DEF Times
  <2>8. PICK s \in db'.scans : s.source = src /\ s.at = NewestOf(db'.scans, src)
    BY <2>1, <2>4, NewestIsMax
  <2>9. NewestOf(S, src) =< NewestOf(S2, src)
    <3>1. PICK t \in S : t.source = src /\ t.at = NewestOf(S, src)
      BY <2>3, <2>6, NewestIsMax
    <3> QED BY <2>2, <2>4, <2>6, <3>1, NewestIsMax
  <2>10. s \notin db.scans
    <3>1. s \in db.scans => s.at =< NewestOf(db.scans, src)
      BY <2>1, <2>4, <2>8, NewestIsMax
    <3> QED BY <2>3, <2>5, <2>7, <2>8, <2>9, <3>1
  <2>11. s.image_id # db.images[r].id
    <3>1. s \in S2 => s.at =< NewestOf(S2, src)
      BY <2>4, <2>6, <2>8, NewestIsMax
    <3>2. s \notin S2
      BY <2>5, <2>7, <2>8, <3>1
    <3> QED BY <3>2, IdStep DEF S2, ScansOf
  <2>12. NewestOf(S, src) < s.at
    BY <2>5, <2>7, <2>8, <2>9
  <2>13. MissedRun(r, s)
    BY <2>3, <2>8, <2>11, <2>12 DEF MissedRun, S
  <2> QED BY <2>10, <2>13
<1>1. TypeOK /\ TypeOK' /\ IdsKept /\ [Next]_vars => [StaleStep]_vars
  BY <1>TurnsStale DEF StaleStep
<1>2. Init => IdsKept
  BY DEF Init, IdsKept
<1>3. TypeOK /\ IdsKept /\ [Next]_vars => IdsKept'
  BY IdStep
<1> QED BY <1>1, <1>2, <1>3, TypeCorrect, PTL DEF Spec, StaleOnlyByMissedRun

=============================================================================
