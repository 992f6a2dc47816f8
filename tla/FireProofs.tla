----------------------------- MODULE FireProofs -----------------------------
(***************************************************************************)
(* Proofs about what is collected of fires: HotspotFeed, for every window  *)
(* of days, every sequence of revisions with files of any size, every      *)
(* limit and number of faults; FireDanger, for any number of dates, grids, *)
(* analyses, collectors and faults; FireEvents, for every set of           *)
(* detections, wherever and whenever they are, and every match envelope.   *)
(***************************************************************************)
EXTENDS HotspotFeed, FireDanger, FireEvents, ExtremaLemmas

-----------------------------------------------------------------------------
(***************************************************************************)
(* HotspotFeed                                                             *)
(***************************************************************************)

USE HotspotAssumption

\* A batch has a day, and once latest.geojson is copied it holds the newest of
\* them, which latest.json will name.
BatchInv ==
    /\ batchStage # "idle" => BatchDays # {}
    /\ batchStage = "copied" => latestGeojson.day = Newest

HotspotInv == HotspotTypeOK /\ BatchInv /\ PointerNotAhead

-----------------------------------------------------------------------------
(* Facts about the data.                                                   *)

\* The newest day of a batch is one of its days.
LEMMA NewestIsDay == BatchDays # {} => Newest \in Days /\ Newest \in Nat
<1>1. BatchDays \in SUBSET Nat /\ IsFiniteSet(BatchDays) /\ BatchDays \subseteq Days
  BY FS_Subset DEF BatchDays
<1> QED BY <1>1, FiniteHasGreatest DEF Newest

\* A request has the etag of a revision.
LEMMA RequestType ==
    ASSUME HotspotTypeOK, NEW d \in Days, NEW S
    PROVE  Request(d, S) \in [etag : MaybeVersion, replace : BOOLEAN]
<1>1. (csv[d] # 0) \in BOOLEAN
  OBVIOUS
<1>2. cwfis[d] \in MaybeVersion /\ 0 \in MaybeVersion
  BY DEF HotspotTypeOK, MaybeVersion
<1>3. CASE d \in S
  <2> DEFINE b == csv[d] # 0
  <2>1. b \in BOOLEAN
    OBVIOUS
  <2>2. Request(d, S) = [etag |-> cwfis[d], replace |-> b]
    BY <1>3 DEF Request
  <2> HIDE DEF b
  <2> QED BY <2>1, <2>2, <1>2
<1>4. CASE d \notin S
  BY <1>2, <1>4 DEF Request, NoRequest
<1> QED BY <1>3, <1>4

\* The newest wanted day is among the days of a new batch.
LEMMA SomeDayIsChosen ==
    WantedDays # {} =>
        \E d \in WantedDays : Cardinality({e \in WantedDays : e > d}) < DaysPerRun
<1> SUFFICES ASSUME WantedDays # {}
             PROVE \E d \in WantedDays :
                        Cardinality({e \in WantedDays : e > d}) < DaysPerRun
  OBVIOUS
<1>1. WantedDays \in SUBSET Nat /\ IsFiniteSet(WantedDays)
  BY FS_Subset DEF WantedDays
<1>2. Max(WantedDays) \in WantedDays /\ \A e \in WantedDays : Max(WantedDays) >= e
  BY <1>1, FiniteHasGreatest
<1>3. {e \in WantedDays : e > Max(WantedDays)} = {}
  <2> SUFFICES ASSUME NEW e \in WantedDays, e > Max(WantedDays) PROVE FALSE
    OBVIOUS
  <2>1. e \in Nat /\ Max(WantedDays) \in Nat
    BY <1>1, <1>2
  <2> QED BY <2>1, <1>2
<1>4. Cardinality({e \in WantedDays : e > Max(WantedDays)}) = 0
  BY <1>3, FS_EmptySet
<1>5. 0 < DaysPerRun
  OBVIOUS
<1> QED BY <1>2, <1>4, <1>5

-----------------------------------------------------------------------------
(* The parts of a step.                                                    *)

\* A failed attempt leaves the days of the batch what they are.
LEMMA FailureKeepsBatch ==
    ASSUME HotspotTypeOK, NEW d \in Days, ingest[d] # "none", IngestFails(d)
    PROVE  /\ ingest' \in [Days -> {"none", "todo", "fetched", "normalized", "done", "failed"}]
           /\ ingestTries' \in [Days -> 0..IngestRetries]
           /\ BatchDays' = BatchDays
<1> USE DEF HotspotTypeOK, IngestFails, GoOn, BatchDays
<1>1. CASE ingestTries[d] < IngestRetries
  <2>1. ingestTries[d] + 1 \in 0..IngestRetries
    BY <1>1
  <2>2. /\ ingest' = [ingest EXCEPT ![d] = "todo"]
        /\ ingestTries' = [ingestTries EXCEPT ![d] = ingestTries[d] + 1]
    BY <1>1
  <2>3. ingestTries' \in [Days -> 0..IngestRetries]
    BY <2>1, <2>2
  <2>4. BatchDays' = BatchDays
    BY <2>2
  <2> QED BY <2>2, <2>3, <2>4
<1>2. CASE ~(ingestTries[d] < IngestRetries)
  BY <1>2
<1> QED BY <1>1, <1>2

\* So does a task that goes on.
LEMMA ProgressKeepsBatch ==
    ASSUME HotspotTypeOK, NEW d \in Days, ingest[d] # "none",
           NEW to \in {"fetched", "normalized", "done"}, GoOn(d, to)
    PROVE  /\ ingest' \in [Days -> {"none", "todo", "fetched", "normalized", "done", "failed"}]
           /\ ingestTries' \in [Days -> 0..IngestRetries]
           /\ BatchDays' = BatchDays
BY DEF HotspotTypeOK, GoOn, BatchDays

\* A step that keeps the days of the batch and what is latest keeps what they
\* owe each other.
LEMMA SameBatch ==
    ASSUME BatchInv, PointerNotAhead, BatchDays' = BatchDays,
           UNCHANGED <<batchStage, latestFiles>>
    PROVE  BatchInv' /\ PointerNotAhead'
BY DEF BatchInv, PointerNotAhead, latestFiles, Newest

\* The end of a batch keeps the types.
LEMMA EndTypes ==
    ASSUME HotspotTypeOK, BatchEnds
    PROVE  /\ batchStage' \in {"idle", "ingest", "publish", "copied"}
           /\ request' \in [Days -> [etag : MaybeVersion, replace : BOOLEAN]]
           /\ ingest' \in [Days -> {"none", "todo", "fetched", "normalized", "done", "failed"}]
           /\ ingestTries' \in [Days -> 0..IngestRetries]
<1>1. NoRequest \in [etag : MaybeVersion, replace : BOOLEAN]
  BY DEF NoRequest, MaybeVersion
<1> QED BY <1>1 DEF BatchEnds

-----------------------------------------------------------------------------
(* The invariant.                                                          *)

\* It holds in the first state.
LEMMA HotspotInitInv == HotspotInit => HotspotInv
<1> SUFFICES ASSUME HotspotInit PROVE HotspotInv
  OBVIOUS
<1> USE DEF HotspotInit
<1>1. NoRequest \in [etag : MaybeVersion, replace : BOOLEAN]
  BY DEF NoRequest, MaybeVersion
<1>2. NoManifest \in [etag : MaybeVersion, csv : MaybeVersion, geojson : MaybeVersion]
  BY DEF NoManifest, MaybeVersion
<1>3. HotspotTypeOK
  BY <1>1, <1>2 DEF HotspotTypeOK, MaybeVersion
<1>4. BatchInv /\ PointerNotAhead
  BY DEF BatchInv, PointerNotAhead
<1> QED BY <1>3, <1>4 DEF HotspotInv

\* Every step keeps it.
LEMMA HotspotStepInv == HotspotInv /\ [HotspotNext]_hotspotVars => HotspotInv'
<1> SUFFICES ASSUME HotspotInv, [HotspotNext]_hotspotVars PROVE HotspotInv'
  OBVIOUS
<1> USE DEF HotspotInv
<1>1. ASSUME NEW d \in Days, NEW v \in Versions, Revise(d, v) PROVE HotspotInv'
  <2>1. HotspotTypeOK'
    BY <1>1 DEF Revise, HotspotTypeOK, MaybeVersion, dayFiles, latestFiles
  <2>2. BatchDays' = BatchDays
    BY <1>1 DEF Revise, BatchDays
  <2> QED BY <1>1, <2>1, <2>2, SameBatch DEF Revise
<1>2. CASE DiscoverDays
  <2> DEFINE chosen == {d \in WantedDays :
                            Cardinality({e \in WantedDays : e > d}) < DaysPerRun}
  <2>1. /\ request' = [d \in Days |-> Request(d, chosen)]
        /\ ingest' = [d \in Days |-> IF d \in chosen THEN "todo" ELSE "none"]
        /\ WantedDays # {} /\ batchStage' = "ingest"
        /\ UNCHANGED <<cwfis, dayFiles, ingestTries, latestFiles, hotspotFaults>>
    BY <1>2 DEF DiscoverDays
  <2>2. request' \in [Days -> [etag : MaybeVersion, replace : BOOLEAN]]
    <3> HIDE DEF chosen
    <3> QED BY <2>1, RequestType
  <2>3. chosen # {} /\ chosen \subseteq Days
    BY <2>1, SomeDayIsChosen DEF WantedDays
  <2>4. HotspotTypeOK'
    BY <2>1, <2>2 DEF HotspotTypeOK, dayFiles, latestFiles
  <2>5. BatchDays' # {}
    <3> HIDE DEF chosen
    <3> QED BY <2>1, <2>3 DEF BatchDays
  <2>6. BatchInv' /\ PointerNotAhead'
    BY <2>1, <2>5 DEF BatchInv, PointerNotAhead, latestFiles
  <2> QED BY <2>4, <2>6
<1>3. ASSUME NEW d \in Days, FetchDay(d) PROVE HotspotInv'
  <2>1. ingest[d] # "none" /\ (GoOn(d, "fetched") \/ IngestFails(d))
    BY <1>3 DEF FetchDay
  <2>2. csv' \in [Days -> MaybeVersion]
    <3>1. csv[d] \in MaybeVersion /\ cwfis[d] \in MaybeVersion
      BY DEF HotspotTypeOK
    <3> QED BY <1>3, <3>1 DEF FetchDay, HotspotTypeOK
  <2>3. /\ ingest' \in [Days -> {"none", "todo", "fetched", "normalized", "done", "failed"}]
        /\ ingestTries' \in [Days -> 0..IngestRetries]
        /\ BatchDays' = BatchDays
    BY <2>1, FailureKeepsBatch, ProgressKeepsBatch
  <2>4. UNCHANGED <<cwfis, batchStage, request, latestFiles, geojson, dayManifest,
                    hotspotFaults>>
    BY <1>3 DEF FetchDay, LeavesBatch
  <2>5. HotspotTypeOK'
    BY <2>2, <2>3, <2>4 DEF HotspotTypeOK, latestFiles
  <2> QED BY <2>3, <2>4, <2>5, SameBatch
<1>4. ASSUME NEW d \in Days, NormalizeDay(d) PROVE HotspotInv'
  <2>1. ingest[d] # "none" /\ (GoOn(d, "normalized") \/ IngestFails(d))
    BY <1>4 DEF NormalizeDay
  <2>2. geojson' \in [Days -> MaybeVersion]
    <3>1. csv[d] \in MaybeVersion
      BY DEF HotspotTypeOK
    <3> QED BY <1>4, <3>1 DEF NormalizeDay, HotspotTypeOK
  <2>3. /\ ingest' \in [Days -> {"none", "todo", "fetched", "normalized", "done", "failed"}]
        /\ ingestTries' \in [Days -> 0..IngestRetries]
        /\ BatchDays' = BatchDays
    BY <2>1, FailureKeepsBatch, ProgressKeepsBatch
  <2>4. UNCHANGED <<cwfis, batchStage, request, latestFiles, csv, dayManifest,
                    hotspotFaults>>
    BY <1>4 DEF NormalizeDay, LeavesBatch
  <2>5. HotspotTypeOK'
    BY <2>2, <2>3, <2>4 DEF HotspotTypeOK, latestFiles
  <2> QED BY <2>3, <2>4, <2>5, SameBatch
<1>5. ASSUME NEW d \in Days, WriteDayManifest(d) PROVE HotspotInv'
  <2>1. ingest[d] # "none" /\ GoOn(d, "done")
    BY <1>5 DEF WriteDayManifest
  <2>2. dayManifest' \in [Days -> [etag : MaybeVersion, csv : MaybeVersion,
                                   geojson : MaybeVersion]]
    <3>1. csv[d] \in MaybeVersion /\ geojson[d] \in MaybeVersion
          /\ request[d] \in [etag : MaybeVersion, replace : BOOLEAN]
      BY DEF HotspotTypeOK
    <3> QED BY <1>5, <3>1 DEF WriteDayManifest, HotspotTypeOK
  <2>3. /\ ingest' \in [Days -> {"none", "todo", "fetched", "normalized", "done", "failed"}]
        /\ ingestTries' \in [Days -> 0..IngestRetries]
        /\ BatchDays' = BatchDays
    BY <2>1, ProgressKeepsBatch
  <2>4. UNCHANGED <<cwfis, batchStage, request, latestFiles, csv, geojson, hotspotFaults>>
    BY <1>5 DEF WriteDayManifest, LeavesBatch
  <2>5. HotspotTypeOK'
    BY <2>2, <2>3, <2>4 DEF HotspotTypeOK, latestFiles
  <2> QED BY <2>3, <2>4, <2>5, SameBatch
<1>6. ASSUME NEW d \in Days, BreakIngest(d) PROVE HotspotInv'
  <2>1. ingest[d] # "none" /\ IngestFails(d)
    BY <1>6 DEF BreakIngest
  <2>2. hotspotFaults' \in 0..MaxHotspotFaults
    BY <1>6 DEF BreakIngest, HotspotTypeOK
  <2>3. /\ ingest' \in [Days -> {"none", "todo", "fetched", "normalized", "done", "failed"}]
        /\ ingestTries' \in [Days -> 0..IngestRetries]
        /\ BatchDays' = BatchDays
    BY <2>1, FailureKeepsBatch
  <2>4. UNCHANGED <<cwfis, batchStage, request, latestFiles, dayFiles>>
    BY <1>6 DEF BreakIngest, LeavesBatch
  <2>5. HotspotTypeOK'
    BY <2>2, <2>3, <2>4 DEF HotspotTypeOK, latestFiles, dayFiles
  <2> QED BY <2>3, <2>4, <2>5, SameBatch
<1>7. CASE EndIngest
  <2>1. CASE BatchEnds
    <3>1. HotspotTypeOK'
      BY <1>7, <2>1, EndTypes DEF EndIngest, HotspotTypeOK, dayFiles, latestFiles
    <3> QED BY <1>7, <2>1, <3>1
            DEF EndIngest, BatchEnds, BatchInv, PointerNotAhead, latestFiles
  <2>2. CASE batchStage' = "publish" /\ UNCHANGED <<request, ingest, ingestTries>>
    <3>1. HotspotTypeOK'
      BY <1>7, <2>2 DEF EndIngest, HotspotTypeOK, dayFiles, latestFiles
    <3>2. BatchDays' # {}
      BY <1>7, <2>2 DEF EndIngest, BatchInv, BatchDays
    <3> QED BY <1>7, <2>2, <3>1, <3>2
            DEF EndIngest, BatchInv, PointerNotAhead, latestFiles
  <2> QED BY <1>7, <2>1, <2>2 DEF EndIngest
<1>8. CASE CopyLatest
  <2>1. Newest \in Days /\ Newest \in Nat /\ BatchDays # {}
    BY <1>8, NewestIsDay DEF CopyLatest, BatchInv
  <2>2. CASE Newest >= latestDay
    <3>1. geojson[Newest] \in MaybeVersion
      BY <2>1 DEF HotspotTypeOK
    <3>2. latestGeojson' \in [day : Days \cup {0}, version : MaybeVersion]
          /\ latestGeojson'.day = Newest
      BY <1>8, <2>1, <2>2, <3>1 DEF CopyLatest
    <3>3. HotspotTypeOK'
      BY <1>8, <2>2, <3>2 DEF CopyLatest, HotspotTypeOK, dayFiles
    <3>4. BatchDays' = BatchDays
      BY <1>8, <2>2 DEF CopyLatest, BatchDays
    <3>5. BatchInv' /\ PointerNotAhead'
      BY <1>8, <2>1, <2>2, <3>2, <3>4 DEF CopyLatest, BatchInv, PointerNotAhead, Newest
    <3> QED BY <3>3, <3>5
  <2>3. CASE ~(Newest >= latestDay)
    <3>1. HotspotTypeOK'
      BY <1>8, <2>3, EndTypes DEF CopyLatest, HotspotTypeOK, dayFiles
    <3> QED BY <1>8, <2>3, <3>1 DEF CopyLatest, BatchEnds, BatchInv, PointerNotAhead
  <2> QED BY <2>2, <2>3
<1>9. CASE PointLatest
  <2>1. Newest \in Days /\ Newest \in Nat /\ latestGeojson.day = Newest
    BY <1>9, NewestIsDay DEF PointLatest, BatchInv
  <2>2. HotspotTypeOK'
    BY <1>9, <2>1, EndTypes DEF PointLatest, HotspotTypeOK, dayFiles
  <2>3. BatchInv' /\ PointerNotAhead'
    BY <1>9, <2>1 DEF PointLatest, BatchEnds, BatchInv, PointerNotAhead
  <2> QED BY <2>2, <2>3
<1>10. CASE KillPublish
  <2>1. HotspotTypeOK'
    BY <1>10, EndTypes DEF KillPublish, HotspotTypeOK, dayFiles, latestFiles
  <2>2. BatchInv' /\ PointerNotAhead'
    BY <1>10 DEF KillPublish, BatchEnds, BatchInv, PointerNotAhead, latestFiles
  <2> QED BY <2>1, <2>2
<1>11. CASE UNCHANGED hotspotVars
  <2>1. HotspotTypeOK'
    BY <1>11 DEF hotspotVars, HotspotTypeOK
  <2>2. BatchDays' = BatchDays
    BY <1>11 DEF hotspotVars, BatchDays
  <2> QED BY <1>11, <2>1, <2>2, SameBatch DEF hotspotVars, latestFiles
<1> QED BY <1>1, <1>2, <1>3, <1>4, <1>5, <1>6, <1>7, <1>8, <1>9, <1>10, <1>11
        DEF HotspotNext, HotspotDagStep, IngestStep

-----------------------------------------------------------------------------
(* Theorems.                                                               *)

\* The invariant of the hotspot collection holds in every reachable state.
THEOREM HotspotInvariant == HotspotSpec => []HotspotInv
BY HotspotInitInv, HotspotStepInv, PTL DEF HotspotSpec

\* The files and tasks of the hotspot collection keep their types, whatever
\* breaks or is killed.
THEOREM HotspotTypeCorrect == HotspotSpec => []HotspotTypeOK
<1>1. HotspotInv => HotspotTypeOK
  BY DEF HotspotInv
<1> QED BY <1>1, HotspotInvariant, PTL

\* latest.json never names a day that latest.geojson has not reached, wherever
\* publish_latest_snapshot dies: the copy comes before the pointer, and the
\* batch keeps its newest day in between.
THEOREM PointerFollowsFile == HotspotSpec => []PointerNotAhead
<1>1. HotspotInv => PointerNotAhead
  BY DEF HotspotInv
<1> QED BY <1>1, HotspotInvariant, PTL

HIDE HotspotAssumption

-----------------------------------------------------------------------------
(***************************************************************************)
(* FireDanger                                                              *)
(***************************************************************************)

USE DangerAssumption

\* The manifest of a date is there with the checksum of every grid, or not.
TripletsWhole ==
    \A d \in DangerDates : triplet[d] = NoSums \/ triplet[d] \in [1..Grids -> Analyses]

\* What a collector knows: its step, grid, analysis, checksums and dates.
WorkerRecord ==
    [step : Steps, slot : GridSlots \cup {<<0, 0>>}, analysis : Analyses \cup {0},
     sums : [1..Grids -> Analyses \cup {0}], left : SUBSET DangerDates]

\* The grids of the date a collector has replaced by now.
Replaced(w) ==
    {g \in 1..Grids : \/ g < w.slot[2]
                      \/ g = w.slot[2] /\ w.step = "replaced"
                      \/ w.step = "manifest"}

\* A collector at a grid has the checksums of those before it.
WorkerInv(w) ==
    w.step \notin {"idle", "date"} =>
        /\ w.slot \in GridSlots
        /\ \A g \in Replaced(w) : w.sums[g] \in Analyses
        /\ w.step \in {"write", "written", "valid"} => w.analysis \in Analyses

\* The invariant of the fire danger grids.
DangerInv == DangerTypeOK /\ TripletsWhole /\ \A k \in GridCollectors : WorkerInv(worker[k])

-----------------------------------------------------------------------------
(* Facts about the data.                                                   *)

\* A slot is a date and the number of a grid.
LEMMA SlotParts == \A s \in GridSlots : /\ s[1] \in DangerDates /\ s[2] \in 1..Grids
                                        /\ s = <<s[1], s[2]>>
BY DEF GridSlots

\* A collector that ends up in order leaves all of them in order.
LEMMA OneWorker ==
    ASSUME DangerInv, NEW k \in GridCollectors, NEW w \in WorkerRecord, WorkerInv(w),
           worker' = [worker EXCEPT ![k] = w]
    PROVE  /\ worker' \in [GridCollectors -> WorkerRecord]
           /\ \A c \in GridCollectors : WorkerInv(worker'[c])
<1>1. worker \in [GridCollectors -> WorkerRecord]
  BY DEF DangerInv, DangerTypeOK, WorkerRecord
<1> QED BY <1>1 DEF DangerInv

\* A collector at rest is in order.
LEMMA RestingOK == Resting \in WorkerRecord /\ WorkerInv(Resting)
BY DEF Resting, WorkerRecord, WorkerInv, NoSums, Steps

\* What a path may name: nothing, a closed file or one that is being written.
LEMMA InodeFacts ==
    /\ Nothing \in GridInode
    /\ \A a \in Analyses \cup {0} : ClosedGrid(a) \in GridInode
    /\ \A k \in GridCollectors : OpenGrid(k) \in GridInode
    /\ \A i \in GridInode : i.analysis \in Analyses \cup {0}
<1>1. Nothing \in GridInode /\ Nothing.analysis = 0
  BY DEF GridInode, Nothing
<1>2. \A a \in Analyses \cup {0} : ClosedGrid(a) \in GridInode /\ ClosedGrid(a).analysis = a
  BY DEF GridInode, ClosedGrid
<1>3. \A k \in GridCollectors : OpenGrid(k) \in GridInode /\ OpenGrid(k).analysis = 0
  BY DEF GridInode, OpenGrid
<1>4. \A i \in GridInode :
         \/ i = Nothing
         \/ \E a \in Analyses \cup {0} : i = ClosedGrid(a)
         \/ \E k \in GridCollectors : i = OpenGrid(k)
  BY DEF GridInode
<1> QED BY <1>1, <1>2, <1>3, <1>4

\* A file holds an analysis, or what is not one.
LEMMA ContentType ==
    ASSUME DangerTypeOK, NEW i \in GridInode
    PROVE  Content(i) \in Analyses \cup {0}
BY InodeFacts DEF Content, DangerTypeOK

\* Closing a file leaves a file.
LEMMA CloseType ==
    ASSUME DangerTypeOK, NEW i \in GridInode, NEW k
    PROVE  CloseGrid(i, k) \in GridInode
BY InodeFacts, ContentType DEF CloseGrid

-----------------------------------------------------------------------------
(* The parts of a step.                                                    *)

\* An attempt that raises leaves its collector at rest and closes its file.
LEMMA FailsOK ==
    ASSUME DangerInv, NEW k \in GridCollectors, worker[k].step \notin {"idle", "date"},
           GridFails(k)
    PROVE  /\ worker' \in [GridCollectors -> WorkerRecord]
           /\ \A c \in GridCollectors : WorkerInv(worker'[c])
           /\ danger' \in [GridSlots -> GridInode]
           /\ dangerPart' \in [GridSlots -> GridInode]
<1>1. Slot(k) \in GridSlots
  BY DEF DangerInv, WorkerInv, Slot
<1>2. danger[Slot(k)] \in GridInode
  BY <1>1 DEF DangerInv, DangerTypeOK
<1>3. CloseGrid(danger[Slot(k)], k) \in GridInode
  BY <1>2, CloseType DEF DangerInv
<1>4. danger' \in [GridSlots -> GridInode] /\ dangerPart' \in [GridSlots -> GridInode]
  BY <1>1, <1>3, InodeFacts DEF GridFails, DangerInv, DangerTypeOK
<1>5. worker' = [worker EXCEPT ![k] = Resting]
  BY DEF GridFails
<1> QED BY <1>4, <1>5, RestingOK, OneWorker

\* The invariant holds in the first state.
LEMMA DangerInitInv == DangerInit => DangerInv
<1> SUFFICES ASSUME DangerInit PROVE DangerInv
  OBVIOUS
<1>1. worker \in [GridCollectors -> WorkerRecord]
      /\ \A k \in GridCollectors : WorkerInv(worker[k])
  BY RestingOK DEF DangerInit
<1>2. DangerTypeOK
  BY <1>1, InodeFacts DEF DangerInit, DangerTypeOK, WorkerRecord, NoSums
<1> QED BY <1>1, <1>2 DEF DangerInit, DangerInv, TripletsWhole

\* A collector that goes one step further, its record otherwise unchanged, is in
\* order.
LEMMA StepOK ==
    ASSUME DangerInv, NEW k \in GridCollectors, NEW to \in Steps \ {"replaced", "manifest"},
           worker[k].step \notin {"idle", "date"},
           to \in {"write", "written", "valid"} => worker[k].step \in {"write", "written", "valid"},
           Step(k, to)
    PROVE  /\ worker' \in [GridCollectors -> WorkerRecord]
           /\ \A c \in GridCollectors : WorkerInv(worker'[c])
<1> DEFINE w == [worker[k] EXCEPT !.step = to]
<1>1. worker[k] \in WorkerRecord /\ WorkerInv(worker[k])
  BY DEF DangerInv, DangerTypeOK, WorkerRecord
<1>2. w \in WorkerRecord
  BY <1>1 DEF WorkerRecord
<1>3. WorkerInv(w)
  BY <1>1 DEF WorkerInv, Replaced, WorkerRecord
<1>4. worker' = [worker EXCEPT ![k] = w]
  BY DEF Step
<1> QED BY <1>2, <1>3, <1>4, OneWorker

\* So is a collector that goes back to its dates.
LEMMA AtDate ==
    ASSUME DangerInv, NEW k \in GridCollectors, NEW L \in SUBSET DangerDates
    PROVE  LET w == [worker[k] EXCEPT !.step = "date", !.left = L]
           IN  w \in WorkerRecord /\ WorkerInv(w)
<1> DEFINE w == [worker[k] EXCEPT !.step = "date", !.left = L]
<1>1. worker[k] \in WorkerRecord
  BY DEF DangerInv, DangerTypeOK, WorkerRecord
<1>2. w \in WorkerRecord
  BY <1>1 DEF WorkerRecord, Steps
<1>3. w.step = "date"
  BY <1>1 DEF WorkerRecord
<1> QED BY <1>2, <1>3 DEF WorkerInv

\* The date to start is one of those left.
LEMMA NextDateIsLeft ==
    ASSUME DangerInv, NEW k \in GridCollectors, worker[k].left # {}
    PROVE  NextDate(k) \in DangerDates
<1> DEFINE S == worker[k].left
<1>1. S \subseteq DangerDates
  BY DEF DangerInv, DangerTypeOK
<1>2. S \in SUBSET Nat /\ IsFiniteSet(S) /\ S # {}
  BY <1>1, FS_Subset
<1> HIDE DEF S
<1>3. Min(S) \in S /\ Max(S) \in S
  BY <1>2, FiniteHasLeast, FiniteHasGreatest
<1> QED BY <1>1, <1>3 DEF NextDate, S

-----------------------------------------------------------------------------
(* The invariant.                                                          *)

\* Every step keeps it.
LEMMA DangerStepInv == DangerInv /\ [DangerNext]_dangerVars => DangerInv'
<1> SUFFICES ASSUME DangerInv, [DangerNext]_dangerVars PROVE DangerInv'
  OBVIOUS
<1> DEFINE Workers == /\ worker' \in [GridCollectors -> WorkerRecord]
                      /\ \A c \in GridCollectors : WorkerInv(worker'[c])
           Files == /\ danger' \in [GridSlots -> GridInode]
                    /\ dangerPart' \in [GridSlots -> GridInode]
<1>0. \A k \in GridCollectors :
         /\ worker[k] \in WorkerRecord /\ WorkerInv(worker[k])
         /\ worker[k].step \notin {"idle", "date"} =>
               /\ Slot(k) \in GridSlots /\ Day(k) \in DangerDates
               /\ danger[Slot(k)] \in GridInode /\ dangerPart[Slot(k)] \in GridInode
  BY SlotParts DEF DangerInv, DangerTypeOK, WorkerRecord, WorkerInv, Slot, Day
<1>1. ASSUME Workers, Files, ByGrid, dangerFaults' \in 0..MaxDangerFaults PROVE DangerInv'
  BY <1>1 DEF DangerInv, DangerTypeOK, TripletsWhole, ByGrid, WorkerRecord, NoSums
<1>2. ASSUME NEW d \in DangerDates, NEW a \in Analyses, Serve(d, a) PROVE DangerInv'
  BY <1>2 DEF Serve, DangerInv, DangerTypeOK, TripletsWhole, NoSums
<1>3. CASE CollectRecent
  <2> DEFINE w == [worker[DangerDag] EXCEPT !.step = "date", !.left = NewestDates]
  <2>1. w \in WorkerRecord /\ WorkerInv(w)
    BY AtDate DEF NewestDates
  <2>2. worker' = [worker EXCEPT ![DangerDag] = w]
    BY <1>3 DEF CollectRecent
  <2> HIDE DEF w
  <2>3. Workers
    BY <2>1, <2>2, OneWorker
  <2>4. ByGrid /\ Files /\ dangerFaults' \in 0..MaxDangerFaults
    BY <1>3 DEF CollectRecent, ByGrid, DangerInv, DangerTypeOK
  <2> QED BY <1>1, <2>3, <2>4
<1>4. ASSUME NEW k \in GridCollectors, BackfillGrids(k) PROVE DangerInv'
  <2> DEFINE w == [worker[k] EXCEPT !.step = "date", !.left = DangerDates]
  <2>1. w \in WorkerRecord /\ WorkerInv(w)
    BY AtDate
  <2>2. worker' = [worker EXCEPT ![k] = w]
    BY <1>4 DEF BackfillGrids
  <2> HIDE DEF w
  <2>3. Workers
    BY <2>1, <2>2, OneWorker
  <2>4. backfills' \in 0..MaxBackfills
    BY <1>4 DEF BackfillGrids, DangerInv, DangerTypeOK
  <2>5. UNCHANGED <<mosaic, danger, dangerPart, triplet, dangerFaults>>
    BY <1>4 DEF BackfillGrids
  <2>6. DangerTypeOK'
    BY <2>3, <2>4, <2>5 DEF DangerInv, DangerTypeOK, WorkerRecord
  <2>7. TripletsWhole'
    BY <2>5 DEF DangerInv, TripletsWhole, NoSums
  <2> QED BY <2>3, <2>6, <2>7 DEF DangerInv
<1>5. ASSUME NEW k \in GridCollectors, StartDate(k) PROVE DangerInv'
  <2> DEFINE done == {d \in DangerDates : Verified(d)}
             next == NextDate(k)
             v == [worker[k] EXCEPT !.left = worker[k].left \ {next}]
             u == [worker[k] EXCEPT !.step = "clear", !.slot = <<next, 1>>, !.sums = NoSums]
  <2>1. /\ worker[k].step = "date"
        /\ worker[k].left = {} => worker' = [worker EXCEPT ![k] = Resting]
        /\ worker[k].left # {} /\ next \in done => worker' = [worker EXCEPT ![k] = v]
        /\ worker[k].left # {} /\ next \notin done => worker' = [worker EXCEPT ![k] = u]
    <3>1. At(k, "date")
      BY <1>5 DEF StartDate, TakeDate
    <3>2. worker' = [worker EXCEPT ![k] =
                        IF worker[k].left = {} THEN Resting
                        ELSE IF next \in done THEN v ELSE u]
      BY <1>5 DEF StartDate, TakeDate
    <3> QED BY <3>1, <3>2 DEF At
  <2>2. Workers
    <3>1. CASE worker[k].left = {}
      BY <2>1, <3>1, RestingOK, OneWorker
    <3>2. CASE worker[k].left # {} /\ next \in done
      <4>1. v \in WorkerRecord
        BY <1>0 DEF WorkerRecord
      <4>2. v.step = "date"
        BY <1>0, <2>1 DEF WorkerRecord
      <4>3. WorkerInv(v)
        BY <4>2 DEF WorkerInv
      <4> HIDE DEF v, next, done
      <4> QED BY <2>1, <3>2, <4>1, <4>3, OneWorker
    <3>3. CASE worker[k].left # {} /\ next \notin done
      <4>1. next \in DangerDates
        BY <3>3, NextDateIsLeft
      <4> HIDE DEF next, done
      <4>2. <<next, 1>> \in GridSlots /\ <<next, 1>>[2] = 1
        BY <4>1 DEF GridSlots
      <4>3. NoSums \in [1..Grids -> Analyses \cup {0}]
        BY DEF NoSums
      <4>4. u \in WorkerRecord
        <5> DEFINE s == <<next, 1>>
        <5>1. "clear" \in Steps /\ s \in GridSlots
          BY <4>2 DEF Steps
        <5> HIDE DEF s
        <5>2. [worker[k] EXCEPT !.step = "clear", !.slot = s, !.sums = NoSums] \in WorkerRecord
          BY <1>0, <4>3, <5>1 DEF WorkerRecord
        <5> QED BY <5>2 DEF s
      <4>5. u.step = "clear" /\ u.slot = <<next, 1>>
        BY <1>0 DEF WorkerRecord
      <4>6. Replaced(u) = {}
        BY <4>2, <4>5 DEF Replaced
      <4>7. WorkerInv(u)
        BY <4>2, <4>5, <4>6 DEF WorkerInv
      <4> HIDE DEF u
      <4> QED BY <2>1, <3>3, <4>4, <4>7, OneWorker
    <3> QED BY <3>1, <3>2, <3>3
  <2> QED BY <1>1, <1>5, <2>2 DEF StartDate, TakeDate, DangerInv, DangerTypeOK
<1>6. ASSUME NEW k \in GridCollectors, ClearPart(k) PROVE DangerInv'
  <2>1. worker[k].step = "clear" /\ Step(k, "get")
    BY <1>6 DEF ClearPart, At
  <2>2. Workers
    BY <2>1, StepOK DEF Steps
  <2>3. Files
    BY <1>0, <1>6, <2>1, InodeFacts DEF ClearPart, DangerInv, DangerTypeOK
  <2> QED BY <1>1, <1>6, <2>2, <2>3 DEF ClearPart, DangerInv, DangerTypeOK
<1>7. ASSUME NEW k \in GridCollectors, OpenGridPart(k) PROVE DangerInv'
  <2>1. worker[k].step = "get" /\ ByGrid /\ UNCHANGED dangerFaults
    BY <1>7 DEF OpenGridPart, At
  <2>2. CASE /\ worker' = [worker EXCEPT ![k].step = "date", ![k].left = @ \ {Day(k)}]
             /\ dangerPart' = [dangerPart EXCEPT ![Slot(k)] = Nothing]
             /\ UNCHANGED danger
    <3> DEFINE w == [worker[k] EXCEPT !.step = "date", !.left = worker[k].left \ {Day(k)}]
    <3>1. w \in WorkerRecord /\ WorkerInv(w)
      <4>1. worker[k].left \ {Day(k)} \in SUBSET DangerDates
        BY <1>0 DEF WorkerRecord
      <4> QED BY <4>1, AtDate
    <3>2. worker' = [worker EXCEPT ![k] = w]
      BY <2>2
    <3> HIDE DEF w
    <3>3. Workers
      BY <3>1, <3>2, OneWorker
    <3>4. Files
      BY <1>0, <2>1, <2>2, InodeFacts DEF DangerInv, DangerTypeOK
    <3> QED BY <1>1, <2>1, <3>3, <3>4 DEF DangerInv, DangerTypeOK
  <2>3. CASE /\ mosaic[Day(k)] # 0
             /\ worker' = [worker EXCEPT ![k].step = "write", ![k].analysis = mosaic[Day(k)]]
             /\ dangerPart' = [dangerPart EXCEPT ![Slot(k)] = OpenGrid(k)]
             /\ UNCHANGED danger
    <3> DEFINE w == [worker[k] EXCEPT !.step = "write", !.analysis = mosaic[Day(k)]]
    <3>0. mosaic[Day(k)] \in Analyses
      BY <1>0, <2>1, <2>3 DEF DangerInv, DangerTypeOK
    <3>1. w \in WorkerRecord
      BY <1>0, <3>0 DEF WorkerRecord, Steps
    <3>2. WorkerInv(w)
      BY <1>0, <2>1, <3>0 DEF WorkerRecord, WorkerInv, Replaced
    <3>3. worker' = [worker EXCEPT ![k] = w]
      BY <2>3
    <3> HIDE DEF w
    <3>4. Workers
      BY <3>1, <3>2, <3>3, OneWorker
    <3>5. Files
      BY <1>0, <2>1, <2>3, InodeFacts DEF DangerInv, DangerTypeOK
    <3> QED BY <1>1, <2>1, <3>4, <3>5 DEF DangerInv, DangerTypeOK
  <2>4. CASE GridFails(k)
    <3>1. Workers /\ Files
      BY <2>1, <2>4, FailsOK
    <3> QED BY <1>1, <2>1, <3>1 DEF DangerInv, DangerTypeOK
  <2> QED BY <1>7, <2>2, <2>3, <2>4 DEF OpenGridPart
<1>8. ASSUME NEW k \in GridCollectors, ReceiveGrid(k) PROVE DangerInv'
  <2>1. worker[k].step = "write" /\ Step(k, "written")
    BY <1>8 DEF ReceiveGrid, At
  <2>2. Workers
    BY <2>1, StepOK DEF Steps
  <2> QED BY <1>1, <1>8, <2>2 DEF ReceiveGrid, DangerInv, DangerTypeOK
<1>9. ASSUME NEW k \in GridCollectors, ValidatePart(k) PROVE DangerInv'
  <2>1. worker[k].step = "written" /\ ByGrid /\ UNCHANGED dangerFaults
    BY <1>9 DEF ValidatePart, At
  <2>2. CASE Step(k, "valid") /\ UNCHANGED <<danger, dangerPart>>
    <3>1. Workers
      BY <2>1, <2>2, StepOK DEF Steps
    <3> QED BY <1>1, <2>1, <2>2, <3>1 DEF DangerInv, DangerTypeOK
  <2>3. CASE GridFails(k)
    <3>1. Workers /\ Files
      BY <2>1, <2>3, FailsOK
    <3> QED BY <1>1, <2>1, <3>1 DEF DangerInv, DangerTypeOK
  <2> QED BY <1>9, <2>2, <2>3 DEF ValidatePart
<1>10. ASSUME NEW k \in GridCollectors, ReplaceGrid(k) PROVE DangerInv'
  <2>1. worker[k].step = "valid" /\ ByGrid /\ UNCHANGED dangerFaults
    BY <1>10 DEF ReplaceGrid, At
  <2>2. CASE GridFails(k)
    <3>1. Workers /\ Files
      BY <2>1, <2>2, FailsOK
    <3> QED BY <1>1, <2>1, <3>1 DEF DangerInv, DangerTypeOK
  <2>3. CASE /\ danger' = [danger EXCEPT ![Slot(k)] = CloseGrid(dangerPart[Slot(k)], k)]
             /\ dangerPart' = [dangerPart EXCEPT ![Slot(k)] = Nothing]
             /\ worker' = [worker EXCEPT ![k].step = "replaced",
                               ![k].sums[Slot(k)[2]] = worker[k].analysis]
    <3> DEFINE g == Slot(k)[2]
               a == worker[k].analysis
               s == [worker[k].sums EXCEPT ![g] = a]
               w == [worker[k] EXCEPT !.step = "replaced", !.sums = s]
    <3>1. worker' = [worker EXCEPT ![k] = w]
      BY <2>3
    <3>2. a \in Analyses /\ g \in 1..Grids /\ worker[k].slot[2] = g
      BY <1>0, <2>1, SlotParts DEF WorkerInv, Slot
    <3>3. worker[k].sums \in [1..Grids -> Analyses \cup {0}]
      BY <1>0 DEF WorkerRecord
    <3>4. \A h \in 1..Grids : h < g => worker[k].sums[h] \in Analyses
      BY <1>0, <2>1, <3>2 DEF WorkerInv, Replaced
    <3> HIDE DEF g, a
    <3>5. s \in [1..Grids -> Analyses \cup {0}] /\ \A h \in 1..Grids : h <= g => s[h] \in Analyses
      BY <3>2, <3>3, <3>4
    <3> HIDE DEF s
    <3>6. w \in WorkerRecord
      BY <1>0, <3>5 DEF WorkerRecord, Steps
    <3>7. w.step = "replaced" /\ w.sums = s /\ w.slot = worker[k].slot
      BY <1>0 DEF WorkerRecord
    <3> HIDE DEF w
    <3>8. WorkerInv(w)
      <4>1. w.slot \in GridSlots
        BY <1>0, <2>1, <3>7 DEF WorkerInv
      <4>2. \A h \in Replaced(w) : w.sums[h] \in Analyses
        BY <3>2, <3>5, <3>7 DEF Replaced
      <4> QED BY <3>7, <4>1, <4>2 DEF WorkerInv
    <3>9. Workers
      BY <3>1, <3>6, <3>8, OneWorker
    <3>10. Files
      <4>1. CloseGrid(dangerPart[Slot(k)], k) \in GridInode /\ Slot(k) \in GridSlots
        BY <1>0, <2>1, CloseType DEF DangerInv
      <4> QED BY <2>3, <4>1, InodeFacts DEF DangerInv, DangerTypeOK
    <3> QED BY <1>1, <2>1, <3>9, <3>10 DEF DangerInv, DangerTypeOK
  <2> QED BY <1>10, <2>2, <2>3 DEF ReplaceGrid
<1>11. ASSUME NEW k \in GridCollectors, CleanPart(k) PROVE DangerInv'
  <2> DEFINE g == worker[k].slot[2]
             d == worker[k].slot[1]
             u == [worker[k] EXCEPT !.step = "clear", !.slot[2] = g + 1]
             w == IF g < Grids THEN u ELSE [worker[k] EXCEPT !.step = "manifest"]
  <2>1. worker[k].step = "replaced" /\ worker' = [worker EXCEPT ![k] = w]
    <3>1. worker' = [worker EXCEPT ![k] = w]
      BY <1>11 DEF CleanPart
    <3> QED BY <1>11, <3>1 DEF CleanPart, At
  <2>2. worker[k].slot \in GridSlots /\ worker[k].slot = <<d, g>> /\ d \in DangerDates
        /\ g \in 1..Grids
    BY <1>0, <2>1, SlotParts DEF WorkerInv
  <2>3. \A h \in 1..Grids : h <= g => worker[k].sums[h] \in Analyses
    BY <1>0, <2>1, <2>2 DEF WorkerInv, Replaced
  <2> HIDE DEF g, d
  <2>4. w \in WorkerRecord /\ WorkerInv(w)
    <3>1. CASE g < Grids
      <4>1. w = [worker[k] EXCEPT !.step = "clear", !.slot = <<d, g + 1>>]
        <5>1. [worker[k].slot EXCEPT ![2] = g + 1] = <<d, g + 1>>
          BY <2>2
        <5>2. w = [worker[k] EXCEPT !.step = "clear",
                                    !.slot = [worker[k].slot EXCEPT ![2] = g + 1]]
          BY <3>1
        <5> QED BY <5>1, <5>2
      <4>2. <<d, g + 1>> \in GridSlots /\ <<d, g + 1>>[2] = g + 1
        BY <2>2, <3>1 DEF GridSlots
      <4> HIDE DEF w
      <4>3. w \in WorkerRecord
        BY <1>0, <4>1, <4>2 DEF WorkerRecord, Steps
      <4>4. w.step = "clear" /\ w.slot = <<d, g + 1>> /\ w.sums = worker[k].sums
        BY <1>0, <4>1 DEF WorkerRecord
      <4>5. \A h \in Replaced(w) : h <= g
        BY <2>2, <4>2, <4>4 DEF Replaced
      <4>6. \A h \in Replaced(w) : w.sums[h] \in Analyses
        BY <2>3, <4>4, <4>5 DEF Replaced
      <4> QED BY <4>2, <4>3, <4>4, <4>6 DEF WorkerInv
    <3>2. CASE ~(g < Grids)
      <4>1. w = [worker[k] EXCEPT !.step = "manifest"]
        BY <3>2
      <4> HIDE DEF w
      <4>3. w \in WorkerRecord
        BY <1>0, <4>1 DEF WorkerRecord, Steps
      <4>4. w.step = "manifest" /\ w.slot = worker[k].slot /\ w.sums = worker[k].sums
        BY <1>0, <4>1 DEF WorkerRecord
      <4>5. \A h \in 1..Grids : w.sums[h] \in Analyses
        BY <2>2, <2>3, <3>2, <4>4
      <4> QED BY <2>2, <4>3, <4>4, <4>5 DEF WorkerInv, Replaced
    <3> QED BY <3>1, <3>2
  <2> HIDE DEF w
  <2>5. Workers
    BY <2>1, <2>4, OneWorker
  <2>6. Files
    BY <1>0, <1>11, <2>1, InodeFacts DEF CleanPart, DangerInv, DangerTypeOK
  <2> QED BY <1>1, <1>11, <2>5, <2>6 DEF CleanPart, DangerInv, DangerTypeOK
<1>12. ASSUME NEW k \in GridCollectors, WriteTriplet(k) PROVE DangerInv'
  <2>1. worker[k].step = "manifest" /\ triplet' = [triplet EXCEPT ![Day(k)] = worker[k].sums]
    BY <1>12 DEF WriteTriplet, At
  <2>2. worker[k].sums \in [1..Grids -> Analyses]
    BY <1>0, <2>1 DEF WorkerInv, Replaced, WorkerRecord
  <2>3. triplet' \in [DangerDates -> [1..Grids -> Analyses \cup {0}]]
    BY <1>0, <2>1, <2>2 DEF DangerInv, DangerTypeOK
  <2>4. TripletsWhole'
    BY <1>0, <2>1, <2>2 DEF DangerInv, DangerTypeOK, TripletsWhole, NoSums
  <2> DEFINE w == [worker[k] EXCEPT !.step = "date", !.left = worker[k].left \ {Day(k)}]
  <2>5. w \in WorkerRecord /\ WorkerInv(w)
    <3>1. worker[k].left \ {Day(k)} \in SUBSET DangerDates
      BY <1>0 DEF WorkerRecord
    <3> QED BY <3>1, AtDate
  <2>6. worker' = [worker EXCEPT ![k] = w]
    BY <1>12 DEF WriteTriplet
  <2> HIDE DEF w
  <2>7. Workers
    BY <2>5, <2>6, OneWorker
  <2> QED BY <1>12, <2>3, <2>4, <2>7 DEF WriteTriplet, DangerInv, DangerTypeOK, WorkerRecord
<1>13. ASSUME NEW k \in GridCollectors, BreakGrid(k) PROVE DangerInv'
  <2>1. worker[k].step \in {"get", "write"} /\ GridFails(k)
    BY <1>13 DEF BreakGrid
  <2>2. Workers /\ Files
    BY <2>1, FailsOK
  <2>3. dangerFaults' \in 0..MaxDangerFaults
    BY <1>13 DEF BreakGrid, DangerInv, DangerTypeOK
  <2> QED BY <1>1, <1>13, <2>2, <2>3 DEF BreakGrid
<1>14. ASSUME NEW k \in GridCollectors, KillCollector(k) PROVE DangerInv'
  <2>1. worker[k].step \notin {"idle", "date"}
    BY <1>14 DEF KillCollector
  <2>2. Workers
    BY <1>14, RestingOK, OneWorker DEF KillCollector
  <2>3. Files
    <3>1. /\ CloseGrid(danger[Slot(k)], k) \in GridInode
          /\ CloseGrid(dangerPart[Slot(k)], k) \in GridInode
          /\ Slot(k) \in GridSlots
      BY <1>0, <2>1, CloseType DEF DangerInv
    <3> QED BY <1>14, <3>1 DEF KillCollector, DangerInv, DangerTypeOK
  <2>4. dangerFaults' \in 0..MaxDangerFaults
    BY <1>14 DEF KillCollector, DangerInv, DangerTypeOK
  <2> QED BY <1>1, <1>14, <2>2, <2>3, <2>4 DEF KillCollector
<1>15. CASE UNCHANGED dangerVars
  BY <1>15 DEF dangerVars, DangerInv, DangerTypeOK, TripletsWhole, WorkerInv
<1> QED BY <1>2, <1>3, <1>4, <1>5, <1>6, <1>7, <1>8, <1>9, <1>10, <1>11, <1>12, <1>13,
           <1>14, <1>15 DEF DangerNext, CollectorStep

-----------------------------------------------------------------------------
(* Theorems.                                                               *)

\* The invariant of the fire danger grids holds in every reachable state.
THEOREM DangerInvariant == DangerSpec => []DangerInv
BY DangerInitInv, DangerStepInv, PTL DEF DangerSpec

\* The grids, their .part files, the collectors and the manifests keep their
\* types.
THEOREM DangerTypeCorrect == DangerSpec => []DangerTypeOK
<1>1. DangerInv => DangerTypeOK
  BY DEF DangerInv
<1> QED BY <1>1, DangerInvariant, PTL

\* A manifest is written with the checksum of an analysis for every grid of its
\* date, or not at all, whatever is interrupted, killed or downloaded twice.
THEOREM TripletsAreWhole == DangerSpec => []TripletsWhole
<1>1. DangerInv => TripletsWhole
  BY DEF DangerInv
<1> QED BY <1>1, DangerInvariant, PTL

HIDE DangerAssumption

-----------------------------------------------------------------------------
(***************************************************************************)
(* FireEvents                                                              *)
(***************************************************************************)

USE EventAssumption

\* The roots of a forest, by a function that follows its edges.
FollowsTo(p, R) ==
    /\ R \in [Detections -> Detections]
    /\ \A j \in Detections : R[j] = IF p[j] = j THEN j ELSE R[p[j]]

\* The root of a detection in a forest, found as in the code.
FindIn(p, i) ==
    LET find[j \in Detections] == IF p[j] = j THEN j ELSE find[p[j]]
    IN  find[i]

\* Only one function follows the edges of a forest whose parents are no larger
\* than their children: take the least detection where two of them differ.
LEMMA FollowsOneWay ==
    ASSUME NEW p \in [Detections -> Detections], \A j \in Detections : p[j] <= j,
           NEW R, FollowsTo(p, R), NEW Q, FollowsTo(p, Q)
    PROVE  R = Q
<1> DEFINE T == {j \in Detections : R[j] # Q[j]}
<1>1. SUFFICES ASSUME T # {} PROVE FALSE
  BY DEF FollowsTo
<1>2. T \in SUBSET Nat /\ IsFiniteSet(T)
  BY FS_Subset
<1>3. Min(T) \in T /\ \A y \in T : Min(T) <= y
  BY <1>1, <1>2, FiniteHasLeast
<1> DEFINE j == Min(T)
<1>4. j \in Detections /\ p[j] \in Detections /\ j \in Nat /\ p[j] \in Nat
  BY <1>3
<1>5. CASE p[j] = j
  BY <1>3, <1>4, <1>5 DEF FollowsTo
<1>6. CASE p[j] # j
  <2>1. p[j] < j
    BY <1>4, <1>6
  <2>2. p[j] \notin T
    BY <2>1, <1>3, <1>4
  <2> HIDE DEF j
  <2>3. R[j] = R[p[j]] /\ Q[j] = Q[p[j]]
    BY <1>4, <1>6 DEF FollowsTo
  <2>4. R[j] = Q[j]
    BY <2>2, <2>3, <1>4
  <2> QED BY <2>4, <1>3 DEF j
<1> QED BY <1>5, <1>6

\* What the recursion finds is what any function that follows the edges gives.
LEMMA FindsRoot ==
    ASSUME NEW p \in [Detections -> Detections], \A j \in Detections : p[j] <= j,
           NEW R, FollowsTo(p, R), NEW i \in Detections
    PROVE  FindIn(p, i) = R[i]
<1> DEFINE Is(f) == f = [j \in Detections |-> IF p[j] = j THEN j ELSE f[p[j]]]
           find == CHOOSE f : Is(f)
<1>1. Is(R)
  BY DEF FollowsTo
<1>2. Is(find)
  <2> HIDE DEF Is
  <2> QED BY <1>1
<1>3. FindIn(p, i) = find[i]
  BY DEF FindIn
<1>4. FollowsTo(p, find)
  <2> HIDE DEF find
  <2> DEFINE T == {j \in Detections : find[j] \notin Detections}
  <2>1. \A j \in Detections : find[j] = IF p[j] = j THEN j ELSE find[p[j]]
    BY <1>2
  <2>2. T = {}
    <3> SUFFICES ASSUME T # {} PROVE FALSE
      OBVIOUS
    <3>1. T \in SUBSET Nat /\ IsFiniteSet(T)
      BY FS_Subset
    <3>2. Min(T) \in T /\ \A y \in T : Min(T) <= y
      BY <3>1, FiniteHasLeast
    <3> DEFINE j == Min(T)
    <3>3. j \in Detections /\ p[j] \in Detections /\ j \in Nat /\ p[j] \in Nat
      BY <3>2
    <3>4. CASE p[j] = j
      BY <2>1, <3>2, <3>3, <3>4
    <3>5. CASE p[j] # j
      <4>1. p[j] < j
        BY <3>3, <3>5
      <4>2. p[j] \notin T
        BY <4>1, <3>2, <3>3
      <4> HIDE DEF j
      <4> QED BY <2>1, <3>2, <3>3, <3>5, <4>2 DEF j
    <3> QED BY <3>4, <3>5
  <2>3. find \in [Detections -> Detections]
    <3>1. find = [j \in Detections |-> find[j]]
      <4>1. find = [j \in Detections |-> IF p[j] = j THEN j ELSE find[p[j]]]
        BY <1>2
      <4> QED BY <4>1
    <3> QED BY <2>2, <3>1
  <2> QED BY <2>1, <2>3 DEF FollowsTo
<1>5. find = R
  <2> HIDE DEF find
  <2> QED BY <1>4, FollowsOneWay
<1> QED BY <1>3, <1>5

\* Two positions no further apart than a cell is wide are in the same cell or in
\* neighbouring ones.
LEMMA CellsNear ==
    ASSUME NEW a \in Nat, NEW b \in Nat, NEW c \in Nat \ {0}, a <= b, b <= a + c
    PROVE  (b \div c) - (a \div c) \in 0..1
OBVIOUS

\* The envelope grows with the time between two detections.
LEMMA Envelope ==
    ASSUME NEW a \in Nat, NEW b \in Nat, NEW c \in Nat, a <= b
    PROVE  a * c <= b * c
OBVIOUS

-----------------------------------------------------------------------------
(* The inductive invariant.                                                *)

\* What the two loops of Cluster keep: the detections gone through come before
\* the others, and those no longer in the buckets are too old for any of them.
OrderInv ==
    /\ \A i \in clustered, j \in Detections \ clustered : Earlier(i, j)
    /\ \A i \in clustered \ active : \E j \in clustered : time[i] + MaxGap < time[j]

\* What union keeps of the forest.
ForestInv ==
    /\ \A j \in Detections : parent[j] <= j
    /\ \A j \in Detections \ clustered : parent[j] = j
    /\ FollowsTo(parent, [j \in Detections |-> Root(j)])
    /\ \A j, r \in Detections : Root(j) = r => Root(r) = r
    /\ \A j \in clustered : Root(j) \in clustered

\* A set that holds every match of its members.
LinkClosed(S) == \A i \in S, j \in clustered : Linked(i, j) => j \in S

\* A component is closed under matches, and a closed set holds it whole.
ComponentInv ==
    /\ \A i, j \in clustered : Linked(i, j) => Root(i) = Root(j)
    /\ \A S \in SUBSET clustered : LinkClosed(S) =>
          \A i \in S, j \in clustered : Root(i) = Root(j) => j \in S

\* The invariant of the reconciliation.
EventInv == EventTypeOK /\ OrderInv /\ ForestInv /\ ComponentInv /\ NearestAreNearest

\* The matches of a detection among those before it.
Before(right) == {i \in clustered : Linked(i, right)}

-----------------------------------------------------------------------------
(* Facts about the matches.                                                *)

\* find of the code, in this state and in the next.
LEMMA RootIsFound == \A i : Root(i) = FindIn(parent, i)
BY DEF Root, FindIn

\* The same in the next state.
LEMMA RootIsFoundNext == \A i : Root(i)' = FindIn(parent', i)
BY DEF Root, FindIn

\* A match is one in both directions.
LEMMA LinkedBothWays ==
    ASSUME EventTypeOK, NEW i \in Detections, NEW j \in Detections
    PROVE  Linked(i, j) <=> Linked(j, i)
<1>1. place[i] \in Nat /\ place[j] \in Nat /\ time[i] \in Nat /\ time[j] \in Nat
  BY DEF EventTypeOK
<1>2. Distance(i, j) = Distance(j, i) /\ Gap(i, j) = Gap(j, i)
  BY <1>1 DEF Distance, Gap
<1> QED BY <1>2 DEF Linked, Within

\* The grid: a match lies in a neighbouring cell.
LEMMA LinkedIsNeighbouring ==
    ASSUME EventTypeOK, NEW i \in Detections, NEW j \in Detections, Linked(i, j)
    PROVE  Neighbouring(i, j)
<1>1. place[i] \in Nat /\ place[j] \in Nat /\ time[i] \in Nat /\ time[j] \in Nat
  BY DEF EventTypeOK
<1>2. Gap(i, j) \in Nat /\ Gap(i, j) <= MaxGap /\ Distance(i, j) \in Nat
  BY <1>1 DEF Gap, Distance, Linked
<1>3. Gap(i, j) * SpreadRate <= MaxGap * SpreadRate
  BY <1>2, Envelope
<1>4. /\ MaxGap * SpreadRate \in Nat /\ Gap(i, j) * SpreadRate \in Nat
      /\ CellSize \in Nat \ {0}
  BY <1>2 DEF CellSize
<1>5. Distance(i, j) <= CellSize
  BY <1>2, <1>3, <1>4 DEF CellSize, Linked, Within
<1> DEFINE a == place[i]
           b == place[j]
           c == CellSize
<1>6. a \in Nat /\ b \in Nat /\ c \in Nat \ {0} /\ (a > b => a <= b + c) /\ (~(a > b) => b <= a + c)
  BY <1>1, <1>4, <1>5 DEF Distance
<1>7. a \div c \in Int /\ b \div c \in Int
  BY <1>6
<1>8. (a \div c) - (b \div c) \in -1..1
  <2> HIDE DEF a, b, c
  <2>1. CASE a > b
    BY <1>6, <1>7, <2>1, CellsNear
  <2>2. CASE ~(a > b)
    <3>1. (b \div c) - (a \div c) \in 0..1
      BY <1>6, <2>2, CellsNear
    <3> QED BY <3>1, <1>7
  <2> QED BY <2>1, <2>2
<1> QED BY <1>8 DEF Neighbouring, Cell, Linked

\* The time window and the grid leave out no match.
LEMMA NothingPruned ==
    ASSUME EventTypeOK, OrderInv, NEW right \in Detections, right \notin clustered
    PROVE  {i \in {k \in active : Gap(k, right) <= MaxGap} :
               Neighbouring(i, right) /\ Within(i, right)} = Before(right)
<1>1. ASSUME NEW i \in clustered, Linked(i, right) PROVE i \in active
  <2> SUFFICES ASSUME i \notin active PROVE FALSE
    OBVIOUS
  <2>1. PICK j \in clustered : time[i] + MaxGap < time[j]
    BY <1>1 DEF OrderInv
  <2>2. Earlier(j, right)
    BY DEF OrderInv
  <2>3. time[i] \in Nat /\ time[j] \in Nat /\ time[right] \in Nat
    BY DEF EventTypeOK
  <2>4. time[j] <= time[right]
    BY <2>2, <2>3 DEF Earlier
  <2> QED BY <1>1, <2>1, <2>3, <2>4 DEF Linked, Gap
<1>2. \A i \in clustered : Linked(i, right) => Neighbouring(i, right)
  BY LinkedIsNeighbouring DEF EventTypeOK
<1>3. active \subseteq clustered
  BY DEF EventTypeOK
<1> QED BY <1>1, <1>2, <1>3 DEF Before, Linked, Neighbouring

\* The invariant holds before the first detection: each is its own root.
LEMMA EventInitInv == EventInit => EventInv
<1> SUFFICES ASSUME EventInit PROVE EventInv
  OBVIOUS
<1> USE DEF EventInit
<1>1. EventTypeOK
  BY DEF EventTypeOK
<1>2. OrderInv
  <2>1. \A i, j \in Detections : time[i] \in Nat
    OBVIOUS
  <2> QED BY DEF OrderInv
<1>3. ForestInv
  <2> DEFINE Id == [j \in Detections |-> j]
  <2>1. FollowsTo(parent, Id)
    BY DEF FollowsTo
  <2>2. \A j \in Detections : Root(j) = j
    <3> TAKE j \in Detections
    <3>1. \A i \in Detections : parent[i] <= i
      OBVIOUS
    <3> HIDE DEF Id
    <3>2. FindIn(parent, j) = Id[j]
      BY <2>1, <3>1, FindsRoot
    <3> QED BY <3>2, RootIsFound DEF Id
  <2>3. [j \in Detections |-> Root(j)] = Id
    BY <2>2
  <2>4. FollowsTo(parent, [j \in Detections |-> Root(j)])
    BY <2>1, <2>3
  <2>5. \A j, r \in Detections : Root(j) = r => Root(r) = r
    BY <2>2
  <2>6. \A j \in Detections : parent[j] <= j /\ parent[j] = j
    OBVIOUS
  <2> QED BY <2>4, <2>5, <2>6 DEF ForestInv
<1>4. ComponentInv /\ NearestAreNearest
  BY DEF ComponentInv, NearestAreNearest
<1> QED BY <1>1, <1>2, <1>3, <1>4 DEF EventInv

-----------------------------------------------------------------------------
(* A round of the loop.                                                    *)

\* The single union makes one tree of the trees it is given.
LEMMA UnionRoots ==
    ASSUME EventTypeOK, ForestInv, NEW right \in Detections, right \notin clustered,
           NEW E \in SUBSET clustered,
           parent' = UnionAll({Root(i) : i \in E}, right)
    PROVE  LET joined == {Root(i) : i \in E} \cup {right}
           IN  /\ Min(joined) \in joined
               /\ parent' \in [Detections -> Detections]
               /\ \A j \in Detections : parent'[j] <= j
               /\ \A j \in Detections \ (clustered \cup {right}) : parent'[j] = j
               /\ FollowsTo(parent', [j \in Detections |-> Root(j)'])
               /\ \A j \in Detections :
                     Root(j)' = IF Root(j) \in joined THEN Min(joined) ELSE Root(j)
<1> DEFINE joined == {Root(i) : i \in E} \cup {right}
           m == Min(joined)
           R == [j \in Detections |-> IF Root(j) \in joined THEN m ELSE Root(j)]
<1> USE DEF EventTypeOK
<1>1. \A j \in Detections : /\ Root(j) \in Detections
                            /\ Root(j) = IF parent[j] = j THEN j ELSE Root(parent[j])
  <2> DEFINE Q == [j \in Detections |-> Root(j)]
  <2>1. FollowsTo(parent, Q)
    BY DEF ForestInv
  <2>2. \A j \in Detections : Q[j] \in Detections /\ Q[j] = Root(j)
    BY <2>1 DEF FollowsTo
  <2>3. \A j \in Detections : Q[j] = IF parent[j] = j THEN j ELSE Q[parent[j]]
    BY <2>1 DEF FollowsTo
  <2>4. \A j \in Detections : parent[j] \in Detections
    OBVIOUS
  <2> QED BY <2>2, <2>3, <2>4
<1>2. joined \subseteq Detections
  BY <1>1
<1>3. m \in joined /\ \A y \in joined : m <= y
  <2>1. joined \in SUBSET Nat /\ IsFiniteSet(joined) /\ joined # {}
    BY <1>2, FS_Subset
  <2> HIDE DEF joined
  <2> QED BY <2>1, FiniteHasLeast
<1>4. Root(right) = right
  BY <1>1 DEF ForestInv
<1>5. \A r \in joined : Root(r) = r
  BY <1>4 DEF ForestInv
<1>6. \A j \in Detections : parent'[j] = IF j \in joined THEN m ELSE parent[j]
  BY DEF UnionAll
<1>7. parent' \in [Detections -> Detections]
  <2> HIDE DEF joined
  <2>1. parent' = [i \in Detections |-> IF i \in joined THEN m ELSE parent[i]]
    BY DEF UnionAll, joined
  <2>2. m \in Detections
    BY <1>2, <1>3
  <2> QED BY <2>1, <2>2
<1> HIDE DEF joined, m
<1>8. \A j \in Detections : parent'[j] <= j
  BY <1>3, <1>6 DEF ForestInv
<1>9. \A j \in Detections \ (clustered \cup {right}) : parent'[j] = j
  <2> TAKE j \in Detections \ (clustered \cup {right})
  <2>1. j \notin joined
    BY DEF joined, ForestInv
  <2> QED BY <1>6, <2>1 DEF ForestInv
<1>10. FollowsTo(parent', R)
  <2>1. R \in [Detections -> Detections]
    BY <1>1, <1>2, <1>3
  <2>2. ASSUME NEW j \in Detections
        PROVE  R[j] = IF parent'[j] = j THEN j ELSE R[parent'[j]]
    <3>1. CASE j \in joined
      BY <1>2, <1>3, <1>5, <1>6, <3>1
    <3>2. CASE j \notin joined
      <4>1. parent'[j] = parent[j] /\ parent[j] \in Detections
        BY <1>6, <3>2
      <4>2. CASE parent[j] = j
        BY <1>1, <3>2, <4>1, <4>2
      <4>3. CASE parent[j] # j
        BY <1>1, <4>1, <4>3
      <4> QED BY <4>2, <4>3
    <3> QED BY <3>1, <3>2
  <2> HIDE DEF R
  <2> QED BY <2>1, <2>2 DEF FollowsTo
<1>11. \A j \in Detections : Root(j)' = R[j]
  <2> HIDE DEF R
  <2> TAKE j \in Detections
  <2>1. FindIn(parent', j) = R[j]
    BY <1>7, <1>8, <1>10, FindsRoot
  <2> QED BY <2>1, RootIsFoundNext
<1>12. FollowsTo(parent', [j \in Detections |-> Root(j)'])
  <2>1. [j \in Detections |-> Root(j)'] = R
    BY <1>11
  <2> HIDE DEF R
  <2> QED BY <1>10, <2>1
<1>13. \A j \in Detections :
          Root(j)' = IF Root(j) \in joined THEN m ELSE Root(j)
  BY <1>11
<1> QED BY <1>3, <1>7, <1>8, <1>9, <1>12, <1>13 DEF joined, m

\* A detection joins the components it matches, and no others.
LEMMA ClusterJoins ==
    ASSUME EventInv, NEW right \in Detections, Cluster(right)
    PROVE  ForestInv' /\ ComponentInv'
<1> DEFINE E == Before(right)
           joined == {Root(i) : i \in E} \cup {right}
           m == Min(joined)
<1> USE DEF EventInv
<1>1. /\ right \notin clustered /\ E \in SUBSET clustered
      /\ parent' = UnionAll({Root(i) : i \in E}, right)
      /\ clustered' = clustered \cup {right}
      /\ clustered \in SUBSET Detections
  BY NothingPruned DEF Cluster, Before, EventTypeOK
<1>2. /\ m \in joined
      /\ parent' \in [Detections -> Detections]
      /\ \A j \in Detections : parent'[j] <= j
      /\ \A j \in Detections \ (clustered \cup {right}) : parent'[j] = j
      /\ FollowsTo(parent', [j \in Detections |-> Root(j)'])
      /\ \A j \in Detections : Root(j)' = IF Root(j) \in joined THEN m ELSE Root(j)
  <2> HIDE DEF E
  <2> QED BY <1>1, UnionRoots
<1>3. /\ \A j \in Detections : Root(j) \in Detections
      /\ Root(right) = right
  <2> DEFINE Q == [j \in Detections |-> Root(j)]
  <2>1. FollowsTo(parent, Q)
    BY DEF ForestInv
  <2>2. \A j \in Detections : /\ Q[j] \in Detections /\ Q[j] = Root(j)
                              /\ Q[j] = IF parent[j] = j THEN j ELSE Q[parent[j]]
    BY <2>1 DEF FollowsTo
  <2>3. parent[right] = right
    BY <1>1 DEF ForestInv
  <2> QED BY <2>2, <2>3
<1>4. \A x, y \in Detections : Linked(x, y)' <=> Linked(x, y)
  BY DEF Cluster, Linked, Gap, Within, Distance
<1>5. \A x, y \in Detections : Linked(x, y) <=> Linked(y, x)
  BY LinkedBothWays
<1>6. \A r \in joined : r \in Detections /\ Root(r) = r /\ r \in clustered \cup {right}
  BY <1>1, <1>3 DEF ForestInv
<1>7. \A x \in clustered : Root(x) \in clustered /\ Root(x) # right
  BY <1>1 DEF ForestInv
<1>8. \A x \in clustered : Root(x) \in joined <=> \E e \in E : Root(x) = Root(e)
  BY <1>7
<1>9. \A x \in E : Linked(x, right) /\ Root(x) \in joined
  BY DEF Before
<1>10. \A x \in clustered : Linked(x, right) => x \in E
  BY DEF Before
<1> HIDE DEF E, joined, m
<1>11. right \in joined
  BY DEF joined
<1>12. ForestInv'
  <2>1. \A j, r \in Detections : Root(j)' = r => Root(r)' = r
    <3> SUFFICES ASSUME NEW j \in Detections, NEW r \in Detections, Root(j)' = r
                 PROVE  Root(r)' = r
      OBVIOUS
    <3>1. CASE Root(j) \in joined
      <4>1. r = m /\ Root(m) = m
        BY <1>2, <1>6, <3>1
      <4> QED BY <4>1, <1>2
    <3>2. CASE Root(j) \notin joined
      <4>1. r = Root(j) /\ Root(r) = r
        BY <1>2, <3>2 DEF ForestInv
      <4> QED BY <1>2, <4>1, <3>2
    <3> QED BY <3>1, <3>2
  <2>2. \A j \in clustered \cup {right} : Root(j)' \in clustered \cup {right}
    BY <1>1, <1>2, <1>3, <1>6, <1>7
  <2> QED BY <1>1, <1>2, <2>1, <2>2 DEF ForestInv
<1>13. \A i, j \in clustered' : Linked(i, j)' => Root(i)' = Root(j)'
  <2>1. ASSUME NEW i \in clustered \cup {right}, Linked(i, right)
        PROVE  Root(i)' = m
    BY <2>1, <1>1, <1>2, <1>3, <1>9, <1>10, <1>11
  <2>2. Root(right)' = m
    BY <1>2, <1>3, <1>11
  <2>3. ASSUME NEW i \in clustered, NEW j \in clustered, Linked(i, j)
        PROVE  Root(i)' = Root(j)'
    <3>1. Root(i) = Root(j)
      BY <2>3 DEF ComponentInv
    <3> QED BY <3>1, <1>1, <1>2
  <2> QED BY <1>1, <1>4, <1>5, <2>1, <2>2, <2>3
<1>14. ASSUME NEW S \in SUBSET (clustered \cup {right}),
              \A i \in S, j \in clustered \cup {right} : Linked(i, j) => j \in S,
              NEW i \in S, NEW j \in clustered \cup {right}, Root(i)' = Root(j)'
       PROVE  j \in S
  <2> DEFINE T == S \ {right}
  <2>1. T \in SUBSET clustered /\ LinkClosed(T)
    BY <1>1, <1>14 DEF LinkClosed
  <2>2. \A x \in T, y \in clustered : Root(x) = Root(y) => y \in T
    BY <2>1 DEF ComponentInv
  <2>3. right \in S => \A x \in clustered : Root(x) \in joined => x \in S
    <3> SUFFICES ASSUME right \in S, NEW x \in clustered, Root(x) \in joined
                 PROVE x \in S
      OBVIOUS
    <3>1. PICK e \in E : Root(x) = Root(e)
      BY <1>8
    <3>2. e \in T
      BY <1>1, <1>5, <1>9, <1>14
    <3> QED BY <2>2, <3>1, <3>2
  <2>4. \A x \in T : Root(x) \in joined => right \in S
    <3> SUFFICES ASSUME NEW x \in T, Root(x) \in joined PROVE right \in S
      OBVIOUS
    <3>1. PICK e \in E : Root(x) = Root(e)
      BY <1>8, <2>1
    <3>2. e \in T
      BY <1>1, <2>2, <3>1
    <3> QED BY <1>9, <1>14, <3>2
  <2>5. CASE Root(i) \in joined
    <3>1. right \in S
      BY <2>4, <2>5, <1>14
    <3>2. Root(j) \in joined
      BY <1>1, <1>2, <1>6, <1>14, <2>5
    <3> QED BY <2>3, <3>1, <3>2, <1>14
  <2>6. CASE Root(i) \notin joined
    <3>1. i \in T /\ i \in Detections /\ j \in Detections
      BY <1>1, <1>3, <1>11, <2>6
    <3>2. Root(i)' = Root(i)
      BY <1>2, <2>6, <3>1
    <3>3. Root(j) \notin joined
      BY <1>2, <1>14, <2>6, <3>1, <3>2
    <3>4. Root(j) = Root(i) /\ j # right
      BY <1>2, <1>3, <1>11, <1>14, <3>1, <3>2, <3>3
    <3> QED BY <2>2, <3>1, <3>4, <1>14
  <2> QED BY <2>5, <2>6
<1>15. ComponentInv'
  BY <1>1, <1>4, <1>13, <1>14 DEF ComponentInv, LinkClosed
<1> QED BY <1>12, <1>15

\* The two nearest are found once, among all the matches before.
LEMMA ClusterFindsNearest ==
    ASSUME EventInv, NEW right \in Detections, Cluster(right)
    PROVE  NearestAreNearest'
<1> USE DEF EventInv
<1> DEFINE Matched(j, C) == {i \in C : Earlier(i, j) /\ Linked(i, j)}
<1>1. /\ right \notin clustered /\ clustered' = clustered \cup {right}
      /\ nearestPossible' = [nearestPossible EXCEPT ![right] = TwoNearest(Before(right), right)]
      /\ UNCHANGED <<place, time, fuel>>
      /\ \A i \in clustered : Earlier(i, right)
      /\ clustered \subseteq Detections
  BY NothingPruned DEF Cluster, OrderInv, EventTypeOK
<1>2. \A j \in clustered \cup {right} : ~ Earlier(right, j)
  <2>1. time[right] \in Nat /\ right \in Nat
        /\ \A j \in clustered : time[j] \in Nat /\ j \in Nat
    BY <1>1 DEF EventTypeOK
  <2> QED BY <1>1, <2>1 DEF Earlier
<1>3. \A j \in clustered \cup {right} :
         nearestPossible'[j] = TwoNearest(Matched(j, clustered \cup {right}), j)
  <2>1. ASSUME NEW j \in clustered
        PROVE  nearestPossible'[j] = TwoNearest(Matched(j, clustered \cup {right}), j)
    <3>1. nearestPossible'[j] = nearestPossible[j]
      BY <1>1 DEF EventTypeOK
    <3>2. nearestPossible[j] = TwoNearest(Matched(j, clustered), j)
      BY DEF NearestAreNearest
    <3>3. Matched(j, clustered) = Matched(j, clustered \cup {right})
      BY <1>2
    <3> QED BY <3>1, <3>2, <3>3
  <2>2. nearestPossible'[right] = TwoNearest(Matched(right, clustered \cup {right}), right)
    <3>1. Before(right) = Matched(right, clustered \cup {right})
      BY <1>1, <1>2 DEF Before
    <3>2. nearestPossible'[right] = TwoNearest(Before(right), right)
      BY <1>1 DEF EventTypeOK
    <3> QED BY <3>1, <3>2
  <2> QED BY <2>1, <2>2
<1>4. \A j \in clustered' :
        {i \in clustered : Earlier(i, j) /\ Linked(i, j)}' = Matched(j, clustered')
  BY <1>1 DEF Earlier, Linked, Gap, Within, Distance
<1>5. \A S, j : TwoNearest(S, j)' = TwoNearest(S, j)
  BY <1>1 DEF TwoNearest, Distance
<1> HIDE DEF Matched
<1> QED BY <1>1, <1>3, <1>4, <1>5 DEF NearestAreNearest

\* Every round of the loop keeps the invariant.
LEMMA EventStepInv == EventInv /\ [EventNext]_eventVars => EventInv'
<1> SUFFICES ASSUME EventInv, [EventNext]_eventVars PROVE EventInv'
  OBVIOUS
<1> USE DEF EventInv
<1>1. ASSUME NEW right \in Detections, Cluster(right) PROVE EventInv'
  <2>1. /\ right \notin clustered /\ clustered' = clustered \cup {right}
        /\ UNCHANGED <<place, time, fuel>>
        /\ active' = {i \in active : Gap(i, right) <= MaxGap} \cup {right}
        /\ \A i \in Detections \ clustered : i = right \/ Earlier(right, i)
    BY <1>1 DEF Cluster
  <2>2. parent' \in [Detections -> Detections]
    <3>1. Before(right) \in SUBSET clustered
      BY DEF Before
    <3>2. parent' = UnionAll({Root(i) : i \in Before(right)}, right)
      BY <1>1, NothingPruned DEF Cluster
    <3> QED BY <2>1, <3>1, <3>2, UnionRoots
  <2>3. nearestPossible' \in [Detections -> SUBSET Detections]
    <3>1. TwoNearest(Before(right), right) \in SUBSET Detections
      BY DEF TwoNearest, Before, EventTypeOK
    <3>2. nearestPossible' =
             [nearestPossible EXCEPT ![right] = TwoNearest(Before(right), right)]
      BY <1>1, NothingPruned DEF Cluster
    <3> QED BY <3>1, <3>2 DEF EventTypeOK
  <2>4. EventTypeOK'
    BY <2>1, <2>2, <2>3 DEF EventTypeOK
  <2>5. OrderInv'
    <3>1. \A i \in clustered', j \in Detections \ clustered' : Earlier(i, j)'
      BY <2>1 DEF OrderInv, Earlier
    <3>2. \A i \in clustered : time[i] \in Nat /\ time[i] <= time[right]
      <4>1. time[right] \in Nat /\ \A i \in clustered : time[i] \in Nat
        BY DEF EventTypeOK
      <4>2. \A i \in clustered : Earlier(i, right)
        BY <2>1 DEF OrderInv
      <4> QED BY <4>1, <4>2 DEF Earlier
    <3>3. \A i \in clustered' \ active' : \E j \in clustered' : time[i] + MaxGap < time[j]
      <4> SUFFICES ASSUME NEW i \in clustered, i \notin active'
                   PROVE  \E j \in clustered' : time[i] + MaxGap < time[j]
        BY <2>1
      <4>1. CASE i \in active
        <5>1. ~(Gap(i, right) <= MaxGap)
          BY <2>1, <4>1
        <5>2. time[i] \in Nat /\ time[right] \in Nat
          BY DEF EventTypeOK
        <5> QED BY <2>1, <3>2, <5>1, <5>2 DEF Gap
      <4>2. CASE i \notin active
        BY <2>1, <4>2 DEF OrderInv
      <4> QED BY <4>1, <4>2
    <3> QED BY <2>1, <3>1, <3>3 DEF OrderInv
  <2> QED BY <1>1, <2>4, <2>5, ClusterJoins, ClusterFindsNearest
<1>2. CASE UNCHANGED eventVars
  <2> USE <1>2 DEF eventVars
  <2>1. \A i, j : /\ Root(i)' = Root(i)
                  /\ Linked(i, j)' = Linked(i, j)
                  /\ Earlier(i, j)' = Earlier(i, j)
    BY DEF Root, Linked, Gap, Within, Distance, Earlier
  <2>2. \A S, j : TwoNearest(S, j)' = TwoNearest(S, j)
    BY DEF TwoNearest, Distance
  <2>3. EventTypeOK'
    BY DEF EventTypeOK
  <2>4. OrderInv'
    BY <2>1 DEF OrderInv
  <2>5. ForestInv'
    BY <2>1 DEF ForestInv, FollowsTo
  <2>6. ComponentInv'
    BY <2>1 DEF ComponentInv, LinkClosed
  <2>7. NearestAreNearest'
    BY <2>1, <2>2 DEF NearestAreNearest
  <2> QED BY <2>3, <2>4, <2>5, <2>6, <2>7
<1> QED BY <1>1, <1>2 DEF EventNext

-----------------------------------------------------------------------------
(* Theorems.                                                               *)

\* The invariant of the reconciliation holds in every reachable state.
THEOREM EventInvariant == EventSpec => []EventInv
BY EventInitInv, EventStepInv, PTL DEF EventSpec

\* An event is a connected component of the match relation, for every set of
\* detections and every configuration: the time window, the grid cells and the
\* single union per component lose no match, and join no others.
THEOREM EventsWhole == EventSpec => []EventsAreComponents
<1>1. EventInv => EventsAreComponents
  <2> SUFFICES ASSUME EventInv, NEW i \in clustered
               PROVE  LET event == {j \in clustered : Root(j) = Root(i)}
                      IN  /\ event \in SUBSET clustered /\ LinkClosed(event)
                          /\ \A S \in SUBSET clustered :
                                LinkClosed(S) /\ i \in S => event \subseteq S
    BY DEF EventsAreComponents, LinkClosed
  <2> QED BY DEF EventInv, ComponentInv, LinkClosed
<1> QED BY <1>1, EventInvariant, PTL

\* The two predecessors an ambiguity warning looks at are the two nearest of all
\* matches before, not only of those the window and the grid offered.
THEOREM NearestFound == EventSpec => []NearestAreNearest
<1>1. EventInv => NearestAreNearest
  BY DEF EventInv
<1> QED BY <1>1, EventInvariant, PTL

\* The detections, the window, the forest and the predecessors keep their types.
THEOREM EventTypeCorrect == EventSpec => []EventTypeOK
<1>1. EventInv => EventTypeOK
  BY DEF EventInv
<1> QED BY <1>1, EventInvariant, PTL
=============================================================================
