----------------------------- MODULE HotspotFeed -----------------------------
(***************************************************************************)
(* The DAG nrcan_cwfis_hotspots_ingest and cwfis_hotspots.py: one CSV file *)
(* a day, which the provider may revise, becomes a GeoJSON file with a     *)
(* manifest, and the newest day of a batch becomes the latest snapshot.    *)
(*                                                                         *)
(* max_active_runs=1: at most one batch exists; one mapped task per day.   *)
(***************************************************************************)
EXTENDS Naturals, FiniteSets, FiniteSetsExt

CONSTANTS
    Days,               \* the days of the lookback window
    Versions,           \* revisions of a file, later ones are larger
    SizeOf,             \* SizeOf[v]: size of the files of a revision
    Malformed,          \* revisions normalize_cwfis_csv refuses
    DaysPerRun,         \* settings.maximum_days_per_run
    IngestRetries,      \* retries of ingest_daily_file
    MaxHotspotFaults    \* bound: attempts that break or are killed

ASSUME HotspotAssumption ==
    /\ Days \subseteq Nat \ {0} /\ IsFiniteSet(Days)
    /\ Versions \subseteq Nat \ {0}
    /\ SizeOf \in [Versions -> Nat]
    /\ Malformed \subseteq Versions
    /\ DaysPerRun \in Nat \ {0}
    /\ IngestRetries \in Nat
    /\ MaxHotspotFaults \in Nat

VARIABLES
    cwfis,          \* the revision the provider serves, 0 when none
    csv, geojson,   \* the revision each file of a day holds
    dayManifest,    \* manifest.json: the etag and the files it was written for
    batchStage,
    request,        \* the requests of the batch
    ingest,         \* how far the task of a day is
    ingestTries,
    latestGeojson,  \* the day and revision latest.geojson holds
    latestDay,      \* latest.json: data_date, 0 when there is none
    hotspotFaults

hotspotVars == <<cwfis, csv, geojson, dayManifest, batchStage, request, ingest,
                 ingestTries, latestGeojson, latestDay, hotspotFaults>>

MaybeVersion == Versions \cup {0}
NoManifest == [etag |-> 0, csv |-> 0, geojson |-> 0]
NoRequest == [etag |-> 0, replace |-> FALSE]

HotspotTypeOK ==
    /\ cwfis \in [Days -> MaybeVersion]
    /\ csv \in [Days -> MaybeVersion]
    /\ geojson \in [Days -> MaybeVersion]
    /\ dayManifest \in [Days -> [etag : MaybeVersion, csv : MaybeVersion,
                                 geojson : MaybeVersion]]
    /\ batchStage \in {"idle", "ingest", "publish", "copied"}
    /\ request \in [Days -> [etag : MaybeVersion, replace : BOOLEAN]]
    /\ ingest \in [Days -> {"none", "todo", "fetched", "normalized", "done", "failed"}]
    /\ ingestTries \in [Days -> 0..IngestRetries]
    /\ latestGeojson \in [day : Days \cup {0}, version : MaybeVersion]
    /\ latestDay \in Days \cup {0}
    /\ hotspotFaults \in 0..MaxHotspotFaults

HotspotInit ==
    /\ cwfis = [d \in Days |-> 0]
    /\ csv = [d \in Days |-> 0]
    /\ geojson = [d \in Days |-> 0]
    /\ dayManifest = [d \in Days |-> NoManifest]
    /\ batchStage = "idle"
    /\ request = [d \in Days |-> NoRequest]
    /\ ingest = [d \in Days |-> "none"]
    /\ ingestTries = [d \in Days |-> 0]
    /\ latestGeojson = [day |-> 0, version |-> 0]
    /\ latestDay = 0
    /\ hotspotFaults = 0

dayFiles == <<csv, geojson, dayManifest>>
latestFiles == <<latestGeojson, latestDay>>

-----------------------------------------------------------------------------
(* The provider publishes or revises the file of a day.                    *)

Revise(d, v) ==
    /\ v > cwfis[d]
    /\ cwfis' = [cwfis EXCEPT ![d] = v]
    /\ UNCHANGED <<dayFiles, batchStage, request, ingest, ingestTries, latestFiles,
                   hotspotFaults>>

-----------------------------------------------------------------------------
(* discover_download_plan.                                                 *)

SameSize(v, w) == v # 0 /\ w # 0 /\ SizeOf[v] = SizeOf[w]

\* _complete_manifest: the files have the sizes the manifest gives.
DayComplete(d) ==
    LET man == dayManifest[d]
    IN  man # NoManifest /\ SameSize(csv[d], man.csv) /\ SameSize(geojson[d], man.geojson)

\* _remote_matches_manifest
Matches(d) ==
    SameSize(dayManifest[d].csv, cwfis[d]) /\ dayManifest[d].etag = cwfis[d]

WantedDays == {d \in Days : cwfis[d] # 0 /\ ~(DayComplete(d) /\ Matches(d))}

\* Mutant: a file that is there is never replaced.
RequestFor(d, S) ==
    IF d \in S THEN [etag |-> cwfis[d], replace |-> FALSE] ELSE NoRequest

Request(d, S) ==
    IF d \in S THEN [etag |-> cwfis[d], replace |-> csv[d] # 0] ELSE NoRequest

DiscoverDays ==
    /\ batchStage = "idle"
    /\ WantedDays # {}
    /\ LET chosen == {d \in WantedDays :
                        Cardinality({e \in WantedDays : e > d}) < DaysPerRun}
       IN  /\ request' = [d \in Days |-> Request(d, chosen)]
           /\ ingest' = [d \in Days |-> IF d \in chosen THEN "todo" ELSE "none"]
    /\ batchStage' = "ingest"
    /\ UNCHANGED <<cwfis, dayFiles, ingestTries, latestFiles, hotspotFaults>>

-----------------------------------------------------------------------------
(* ingest_request, one step per file it publishes.                         *)

GoOn(d, to) == ingest' = [ingest EXCEPT ![d] = to] /\ UNCHANGED ingestTries

\* Mutant: one retry too many.
IngestFailsOnce(d) ==
    IF ingestTries[d] <= IngestRetries
    THEN /\ ingest' = [ingest EXCEPT ![d] = "todo"]
         /\ ingestTries' = [ingestTries EXCEPT ![d] = @ + 1]
    ELSE GoOn(d, "failed")

IngestFails(d) ==
    IF ingestTries[d] < IngestRetries
    THEN /\ ingest' = [ingest EXCEPT ![d] = "todo"]
         /\ ingestTries' = [ingestTries EXCEPT ![d] = @ + 1]
    ELSE GoOn(d, "failed")

LeavesBatch == UNCHANGED <<cwfis, batchStage, request, latestFiles>>

\* StreamingDownloader.download: the file that is there, unless it is to be
\* replaced, else what the provider serves now; the size is all that binds
\* either to the request.
FetchDay(d) ==
    /\ ingest[d] = "todo"
    /\ LET reused == csv[d] # 0 /\ ~request[d].replace
           version == IF reused THEN csv[d] ELSE cwfis[d]
       IN  IF SameSize(version, request[d].etag)
           THEN csv' = [csv EXCEPT ![d] = version] /\ GoOn(d, "fetched")
           ELSE UNCHANGED csv /\ IngestFails(d)
    /\ LeavesBatch /\ UNCHANGED <<geojson, dayManifest, hotspotFaults>>

\* normalize_cwfis_csv
NormalizeDay(d) ==
    /\ ingest[d] = "fetched"
    /\ IF csv[d] \in Malformed
       THEN UNCHANGED geojson /\ IngestFails(d)
       ELSE geojson' = [geojson EXCEPT ![d] = csv[d]] /\ GoOn(d, "normalized")
    /\ LeavesBatch /\ UNCHANGED <<csv, dayManifest, hotspotFaults>>

WriteDayManifest(d) ==
    /\ ingest[d] = "normalized"
    /\ dayManifest' = [dayManifest EXCEPT ![d] =
            [etag |-> request[d].etag, csv |-> csv[d], geojson |-> geojson[d]]]
    /\ GoOn(d, "done")
    /\ LeavesBatch /\ UNCHANGED <<csv, geojson, hotspotFaults>>

\* The transfer breaks, or the process is killed between two files.
BreakIngest(d) ==
    /\ hotspotFaults < MaxHotspotFaults
    /\ ingest[d] \in {"todo", "fetched", "normalized"}
    /\ hotspotFaults' = hotspotFaults + 1
    /\ IngestFails(d)
    /\ LeavesBatch /\ UNCHANGED dayFiles

-----------------------------------------------------------------------------
(* publish_latest_snapshot, which has no retries.                          *)

BatchDays == {d \in Days : ingest[d] # "none"}
Newest == Max(BatchDays)

BatchEnds ==
    /\ batchStage' = "idle"
    /\ request' = [d \in Days |-> NoRequest]
    /\ ingest' = [d \in Days |-> "none"]
    /\ ingestTries' = [d \in Days |-> 0]

\* trigger_rule none_failed
EndIngest ==
    /\ batchStage = "ingest"
    /\ \A d \in BatchDays : ingest[d] \in {"done", "failed"}
    /\ IF \E d \in BatchDays : ingest[d] = "failed"
       THEN BatchEnds
       ELSE batchStage' = "publish" /\ UNCHANGED <<request, ingest, ingestTries>>
    /\ UNCHANGED <<cwfis, dayFiles, latestFiles, hotspotFaults>>

\* latest.json decides whether latest.geojson is replaced.
CopyLatest ==
    /\ batchStage = "publish"
    /\ IF Newest >= latestDay
       THEN /\ latestGeojson' = [day |-> Newest, version |-> geojson[Newest]]
            /\ batchStage' = "copied"
            /\ UNCHANGED <<request, ingest, ingestTries>>
       ELSE BatchEnds /\ UNCHANGED latestGeojson
    /\ UNCHANGED <<cwfis, dayFiles, latestDay, hotspotFaults>>

\* Mutant: the pointer goes first.
PointFirst ==
    /\ batchStage \in {"publish", "copied"}
    /\ latestDay' = Newest
    /\ BatchEnds
    /\ UNCHANGED <<cwfis, dayFiles, latestGeojson, hotspotFaults>>

PointLatest ==
    /\ batchStage = "copied"
    /\ latestDay' = Newest
    /\ BatchEnds
    /\ UNCHANGED <<cwfis, dayFiles, latestGeojson, hotspotFaults>>

KillPublish ==
    /\ hotspotFaults < MaxHotspotFaults
    /\ batchStage \in {"publish", "copied"}
    /\ hotspotFaults' = hotspotFaults + 1
    /\ BatchEnds
    /\ UNCHANGED <<cwfis, dayFiles, latestFiles>>

-----------------------------------------------------------------------------
IngestStep(d) == FetchDay(d) \/ NormalizeDay(d) \/ WriteDayManifest(d)

HotspotDagStep ==
    \/ DiscoverDays
    \/ \E d \in Days : IngestStep(d)
    \/ EndIngest \/ CopyLatest \/ PointLatest

HotspotNext ==
    \/ HotspotDagStep
    \/ \E d \in Days, v \in Versions : Revise(d, v)
    \/ \E d \in Days : BreakIngest(d)
    \/ KillPublish

HotspotSpec == HotspotInit /\ [][HotspotNext]_hotspotVars

-----------------------------------------------------------------------------
(* Properties.                                                             *)

\* latest.json never names a day newer than the one latest.geojson holds, in
\* whatever step publish_latest died before: the API would give old detections
\* the date of new ones.
PointerNotAhead == latestGeojson.day >= latestDay

\* A day whose file cannot be read, and never becomes complete, takes a place
\* in every batch.
Reached(d) == Cardinality({e \in Days : e > d /\ cwfis[e] \in Malformed}) < DaysPerRun

\* The revision a provider settles on, as it must with finite Versions, ends up
\* in the archive of its day, if it is well formed and newer days that are not
\* leave it a place in the batch: neither a file of the same size that was left
\* by an attempt that died, nor a revision during the download, keeps it out.
RevisionArrives ==
    <>[](\A d \in Days :
            cwfis[d] \in Versions \ Malformed /\ Reached(d) =>
                /\ csv[d] = cwfis[d] /\ geojson[d] = cwfis[d]
                /\ dayManifest[d].etag = cwfis[d])
=============================================================================
