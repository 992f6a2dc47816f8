---------------------------- MODULE GfsCollection ----------------------------
(***************************************************************************)
(* The GFS archive: the DAG noaa_gfs_ingest and the backfill of            *)
(* download_smoke_validation_inputs.py collect cycles into the same paths, *)
(* with the same StreamingDownloader and the same write_cycle_manifests.   *)
(*                                                                         *)
(* The .part protocol of the downloader is kept: a name of a file refers   *)
(* to an inode, and an inode that is unlinked or renamed is still written  *)
(* by the attempt that opened it.                                          *)
(***************************************************************************)
EXTENDS Naturals, FiniteSets, FiniteSetsExt

CONSTANTS
    Cycles,         \* initialization times, later ones are larger
    Hours,          \* settings.forecast_hours
    Collectors,     \* the DAG and the backfill script
    Dag,            \* the one of them that is the DAG
    CyclesPerRun,   \* settings.maximum_cycles_per_run
    MayBeUnfit,     \* objects that validate_gfs_file may refuse
    MaxGfsFaults    \* bound: broken transfers and killed processes

Slots == Cycles \X Hours

ASSUME GfsAssumption ==
    /\ Cycles \subseteq Nat \ {0} /\ IsFiniteSet(Cycles)
    /\ Hours # {}
    /\ Dag \in Collectors
    /\ {"none", "short", "whole"} \cap Collectors = {}
    /\ CyclesPerRun \in Nat \ {0}
    /\ MayBeUnfit \subseteq Slots
    /\ MaxGfsFaults \in Nat

VARIABLES
    offered,        \* objects the provider lists
    unfit,          \* objects that do not validate
    gridFile,       \* what the canonical path of a slot names
    gridPart,       \* what its .part path names
    fetch,          \* how far a collector is with a slot
    gfsStage, gfsPlan,
    cycleManifest,  \* the cycles with a manifest.json
    latestCycle,    \* latest.json, 0 when there is none
    seenCycle,      \* the latest.json a collector has read
    torn,           \* history: a publication was cut short, or read latest.json
                    \* while another had read it and not yet replaced it
    gfsFaults

gfsVars == <<offered, unfit, gridFile, gridPart, fetch, gfsStage, gfsPlan,
             cycleManifest, latestCycle, seenCycle, torn, gfsFaults>>

\* A path names nothing, a closed file, or the file a collector writes.
Inode == {"none", "short", "whole"} \cup Collectors
FetchState == {"idle", "todo", "get", "write", "written", "move", "placed", "valid", "failed"}
GfsStage == {"idle", "download", "manifest", "point"}

GfsTypeOK ==
    /\ offered \subseteq Slots
    /\ unfit \subseteq MayBeUnfit
    /\ gridFile \in [Slots -> Inode]
    /\ gridPart \in [Slots -> Inode]
    /\ fetch \in [Collectors -> [Slots -> FetchState]]
    /\ gfsStage \in [Collectors -> GfsStage]
    /\ gfsPlan \in [Collectors -> SUBSET Cycles]
    /\ cycleManifest \subseteq Cycles
    /\ latestCycle \in Cycles \cup {0}
    /\ seenCycle \in [Collectors -> Cycles \cup {0}]
    /\ torn \in BOOLEAN
    /\ gfsFaults \in 0..MaxGfsFaults

GfsInit ==
    /\ offered = {}
    /\ unfit \in SUBSET MayBeUnfit
    /\ gridFile = [s \in Slots |-> "none"]
    /\ gridPart = [s \in Slots |-> "none"]
    /\ fetch = [k \in Collectors |-> [s \in Slots |-> "idle"]]
    /\ gfsStage = [k \in Collectors |-> "idle"]
    /\ gfsPlan = [k \in Collectors |-> {}]
    /\ cycleManifest = {}
    /\ latestCycle = 0
    /\ seenCycle = [k \in Collectors |-> 0]
    /\ torn = FALSE
    /\ gfsFaults = 0

-----------------------------------------------------------------------------
(* Files.                                                                  *)

\* The file has the size the provider announced.
IsWhole(inode, s) ==
    \/ inode = "whole"
    \/ inode \in Collectors /\ fetch[inode][s] \in {"written", "move"}

\* What a name refers to once collector k has closed its file.
Closed(inode, k, s) ==
    IF inode = k THEN (IF IsWhole(k, s) THEN "whole" ELSE "short") ELSE inode

\* _manifest_is_complete, resolve_complete_cycle.
CycleComplete(c) ==
    /\ c \in cycleManifest
    /\ \A h \in Hours : IsWhole(gridFile[<<c, h>>], <<c, h>>)

PlannedSlots(k) == gfsPlan[k] \X Hours

-----------------------------------------------------------------------------
(* Discovery.                                                              *)

Offer(s) ==
    /\ s \notin offered
    /\ offered' = offered \cup {s}
    /\ UNCHANGED <<unfit, gridFile, gridPart, fetch, gfsStage, gfsPlan,
                   cycleManifest, latestCycle, seenCycle, torn, gfsFaults>>

Begin(k, cycles) ==
    /\ gfsPlan' = [gfsPlan EXCEPT ![k] = cycles]
    /\ gfsStage' = [gfsStage EXCEPT ![k] = "download"]
    /\ fetch' = [fetch EXCEPT ![k] =
            [s \in Slots |-> IF s[1] \in cycles THEN "todo" ELSE "idle"]]
    /\ UNCHANGED <<offered, unfit, gridFile, gridPart, cycleManifest, latestCycle,
                   seenCycle, torn, gfsFaults>>

Wanted(c) == ~CycleComplete(c) /\ {c} \X Hours \subseteq offered

\* discover_download_plan: the newest wanted cycles, as far back as the
\* lookback window reaches.
DiscoverCycles ==
    /\ gfsStage[Dag] = "idle"
    /\ \E oldest \in Cycles :
        LET wanted == {c \in Cycles : c >= oldest /\ Wanted(c)}
            newest == {c \in wanted :
                        Cardinality({d \in wanted : d > c}) < CyclesPerRun}
        IN  IF newest = {} THEN UNCHANGED gfsVars ELSE Begin(Dag, newest)

\* One round of the loop of download_gfs.
Backfill(k, c) ==
    /\ k # Dag
    /\ gfsStage[k] = "idle"
    /\ Wanted(c)
    /\ Begin(k, {c})

-----------------------------------------------------------------------------
(* One object: StreamingDownloader.download, then validate_gfs_file.       *)

Downloading(k, s, at) == gfsStage[k] = "download" /\ fetch[k][s] = at

Advance(k, s, to) == fetch' = [fetch EXCEPT ![k][s] = to]

\* An attempt ends with an exception: the handler unlinks the .part path,
\* whoever wrote it; the task is retried or given up.
AttemptFails(k, s) ==
    /\ \E to \in {"todo", "failed"} : Advance(k, s, to)
    /\ gridFile' = [gridFile EXCEPT ![s] = Closed(@, k, s)]
    /\ gridPart' = [gridPart EXCEPT ![s] = "none"]

\* The same before the handler is installed, or after the download returned.
AttemptRaises(k, s) ==
    /\ \E to \in {"todo", "failed"} : Advance(k, s, to)
    /\ UNCHANGED <<gridFile, gridPart>>

LeavesRest == UNCHANGED <<offered, unfit, gfsStage, gfsPlan, cycleManifest,
                          latestCycle, seenCycle, torn>>

\* An existing file is reused if its size fits, else refused.
StartFetch(k, s) ==
    /\ Downloading(k, s, "todo")
    /\ CASE gridFile[s] = "none" ->
              /\ Advance(k, s, "get")
              /\ gridPart' = [gridPart EXCEPT ![s] = "none"]
              /\ UNCHANGED gridFile
         [] IsWhole(gridFile[s], s) ->
              Advance(k, s, "placed") /\ UNCHANGED <<gridFile, gridPart>>
         [] OTHER -> AttemptRaises(k, s)
    /\ LeavesRest /\ UNCHANGED gfsFaults

\* The response has come; the .part file is opened exclusively.
OpenPart(k, s) ==
    /\ Downloading(k, s, "get")
    /\ IF gridPart[s] = "none"
       THEN /\ Advance(k, s, "write")
            /\ gridPart' = [gridPart EXCEPT ![s] = k]
            /\ UNCHANGED gridFile
       ELSE AttemptFails(k, s)
    /\ LeavesRest /\ UNCHANGED gfsFaults

ReceiveAll(k, s) ==
    /\ Downloading(k, s, "write")
    /\ Advance(k, s, "written")
    /\ LeavesRest /\ UNCHANGED <<gridFile, gridPart, gfsFaults>>

\* destination.exists() and the comparison with what is there.
CheckPlace(k, s) ==
    /\ Downloading(k, s, "written")
    /\ CASE gridFile[s] = "none" ->
              Advance(k, s, "move") /\ UNCHANGED <<gridFile, gridPart>>
         [] IsWhole(gridFile[s], s) /\ gridPart[s] # "none" ->
              /\ Advance(k, s, "placed")
              /\ gridPart' = [gridPart EXCEPT ![s] = "none"]
              /\ gridFile' = [gridFile EXCEPT ![s] = Closed(@, k, s)]
         [] OTHER -> AttemptFails(k, s)
    /\ LeavesRest /\ UNCHANGED gfsFaults

\* os.replace moves whatever the .part path names by now.
MovePart(k, s) ==
    /\ Downloading(k, s, "move")
    /\ IF gridPart[s] = "none"
       THEN AttemptFails(k, s)
       ELSE /\ gridFile' = [gridFile EXCEPT ![s] = Closed(gridPart[s], k, s)]
            /\ gridPart' = [gridPart EXCEPT ![s] = "none"]
            /\ Advance(k, s, "placed")
    /\ LeavesRest /\ UNCHANGED gfsFaults

\* Mutant: the size is all that is looked at.
ValidateSize(k, s) ==
    /\ Downloading(k, s, "placed")
    /\ IF IsWhole(gridFile[s], s)
       THEN Advance(k, s, "valid") /\ UNCHANGED <<gridFile, gridPart>>
       ELSE AttemptRaises(k, s)
    /\ LeavesRest /\ UNCHANGED gfsFaults

\* validate_gfs_file reads what the path names by now.
ValidateGrid(k, s) ==
    /\ Downloading(k, s, "placed")
    /\ IF IsWhole(gridFile[s], s) /\ s \notin unfit
       THEN Advance(k, s, "valid") /\ UNCHANGED <<gridFile, gridPart>>
       ELSE AttemptRaises(k, s)
    /\ LeavesRest /\ UNCHANGED gfsFaults

\* The connection breaks before all bytes have come.
BreakTransfer(k, s) ==
    /\ gfsFaults < MaxGfsFaults
    /\ \E at \in {"get", "write"} : Downloading(k, s, at)
    /\ AttemptFails(k, s)
    /\ gfsFaults' = gfsFaults + 1
    /\ LeavesRest

\* The process of an attempt is killed: no handler runs.
KillAttempt(k, s) ==
    /\ gfsFaults < MaxGfsFaults
    /\ \E at \in {"get", "write", "written", "move", "placed"} : Downloading(k, s, at)
    /\ \E to \in {"todo", "failed"} : Advance(k, s, to)
    /\ gridFile' = [gridFile EXCEPT ![s] = Closed(@, k, s)]
    /\ gridPart' = [gridPart EXCEPT ![s] = Closed(@, k, s)]
    /\ gfsFaults' = gfsFaults + 1
    /\ LeavesRest

-----------------------------------------------------------------------------
(* write_cycle_manifests, once every object of the plan is valid.          *)

Rest(k) ==
    /\ gfsStage' = [gfsStage EXCEPT ![k] = "idle"]
    /\ gfsPlan' = [gfsPlan EXCEPT ![k] = {}]
    /\ seenCycle' = [seenCycle EXCEPT ![k] = 0]
    /\ fetch' = [fetch EXCEPT ![k] = [s \in Slots |-> "idle"]]

LeavesFiles == UNCHANGED <<offered, unfit, gridFile, gridPart>>

\* All downloads have ended. One failure skips publish_manifests, and ends the
\* script.
EndDownloads(k) ==
    /\ gfsStage[k] = "download"
    /\ \A s \in PlannedSlots(k) : fetch[k][s] \in {"valid", "failed"}
    /\ IF \E s \in PlannedSlots(k) : fetch[k][s] = "failed"
       THEN Rest(k)
       ELSE /\ gfsStage' = [gfsStage EXCEPT ![k] = "manifest"]
            /\ UNCHANGED <<gfsPlan, seenCycle, fetch>>
    /\ LeavesFiles /\ UNCHANGED <<cycleManifest, latestCycle, torn, gfsFaults>>

Unlisted(k) == {c \in gfsPlan[k] : \E h \in Hours : fetch[k][<<c, h>>] = "valid"}

\* The manifest of the oldest cycle that has none yet; a file that lost its
\* size ends the task.
WriteManifest(k) ==
    /\ gfsStage[k] = "manifest"
    /\ Unlisted(k) # {}
    /\ LET c == Min(Unlisted(k)) IN
        IF \A h \in Hours : IsWhole(gridFile[<<c, h>>], <<c, h>>)
        THEN /\ cycleManifest' = cycleManifest \cup {c}
             /\ fetch' = [fetch EXCEPT ![k] =
                    [s \in Slots |-> IF s[1] = c THEN "idle" ELSE @[s]]]
             /\ UNCHANGED <<gfsStage, gfsPlan, seenCycle>>
        ELSE Rest(k) /\ UNCHANGED cycleManifest
    /\ LeavesFiles /\ UNCHANGED <<latestCycle, torn, gfsFaults>>

ReadLatest(k) ==
    /\ gfsStage[k] = "manifest"
    /\ Unlisted(k) = {}
    /\ seenCycle' = [seenCycle EXCEPT ![k] = latestCycle]
    /\ gfsStage' = [gfsStage EXCEPT ![k] = "point"]
    /\ torn' = (torn \/ \E j \in Collectors : gfsStage[j] = "point")
    /\ LeavesFiles /\ UNCHANGED <<fetch, gfsPlan, cycleManifest, latestCycle, gfsFaults>>

\* Mutant: latest.json always names the cycle just collected.
PointAnyway(k) ==
    /\ gfsStage[k] = "point"
    /\ latestCycle' = Max(gfsPlan[k])
    /\ Rest(k)
    /\ LeavesFiles /\ UNCHANGED <<cycleManifest, torn, gfsFaults>>

WriteLatest(k) ==
    /\ gfsStage[k] = "point"
    /\ latestCycle' = IF Max(gfsPlan[k]) >= seenCycle[k] THEN Max(gfsPlan[k]) ELSE latestCycle
    /\ Rest(k)
    /\ LeavesFiles /\ UNCHANGED <<cycleManifest, torn, gfsFaults>>

KillPublisher(k) ==
    /\ gfsFaults < MaxGfsFaults
    /\ gfsStage[k] \in {"manifest", "point"}
    /\ gfsFaults' = gfsFaults + 1
    /\ torn' = TRUE
    /\ Rest(k)
    /\ LeavesFiles /\ UNCHANGED <<cycleManifest, latestCycle>>

FetchStep(k, s) ==
    \/ StartFetch(k, s) \/ OpenPart(k, s) \/ ReceiveAll(k, s)
    \/ CheckPlace(k, s) \/ MovePart(k, s) \/ ValidateGrid(k, s)
    \/ BreakTransfer(k, s) \/ KillAttempt(k, s)

PublishStep(k) ==
    \/ EndDownloads(k) \/ WriteManifest(k) \/ ReadLatest(k)
    \/ WriteLatest(k) \/ KillPublisher(k)

GfsNext ==
    \/ \E s \in Slots : Offer(s)
    \/ DiscoverCycles
    \/ \E k \in Collectors, c \in Cycles : Backfill(k, c)
    \/ \E k \in Collectors, s \in Slots : FetchStep(k, s)
    \/ \E k \in Collectors : PublishStep(k)

GfsSpec == GfsInit /\ [][GfsNext]_gfsVars

-----------------------------------------------------------------------------
(* Properties.                                                             *)

\* A cycle with a manifest has every file whole and valid, although the two
\* collectors share the .part path of a file and one may unlink, rename or
\* overtake what the other is writing; latest.json names such a cycle.
PublishedCyclesAreWhole ==
    /\ \A s \in Slots : s[1] \in cycleManifest => IsWhole(gridFile[s], s) /\ s \notin unfit
    /\ latestCycle # 0 => latestCycle \in cycleManifest

\* latest.json names the newest cycle with a manifest whenever nobody publishes,
\* in whatever order the two collectors plan, download and publish their cycles;
\* unless a publication was killed before it replaced latest.json, or another
\* collector read latest.json between the read and the replacement of one.
LatestIsNewest ==
    ~torn /\ (\A k \in Collectors : gfsStage[k] \notin {"manifest", "point"}) =>
        /\ latestCycle \in cycleManifest \cup {0}
        /\ \A c \in cycleManifest : c <= latestCycle
=============================================================================
