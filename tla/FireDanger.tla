------------------------------ MODULE FireDanger ------------------------------
(***************************************************************************)
(* Fire danger grids (cwfis_cffdrs.py): a few grids and a manifest a day,  *)
(* collected by the DAG nrcan_cwfis_cffdrs_ingest and by the backfill of   *)
(* download_smoke_validation_inputs.py, which share the .part paths.       *)
(*                                                                         *)
(* The provider may serve another analysis of a day later; a grid is known *)
(* by the analysis it comes from, which is what its checksum tells apart.  *)
(***************************************************************************)
EXTENDS Naturals, FiniteSets, FiniteSetsExt

CONSTANTS
    DangerDates,        \* the lookback window, and the range of the backfill
    Grids,              \* Len(FIELDS): the grids of a day are 1..Grids
    Analyses,           \* analyses of a day, later ones are larger
    GridCollectors,     \* the DAG and the backfill script
    DangerDag,          \* the one of them that is the DAG
    DatesPerRun,        \* settings.maximum_days_per_run
    MaxBackfills,       \* bound: runs of the backfill script
    MaxDangerFaults     \* bound: broken transfers and killed processes

GridSlots == DangerDates \X (1..Grids)

ASSUME DangerAssumption ==
    /\ DangerDates \subseteq Nat \ {0} /\ IsFiniteSet(DangerDates)
    /\ Grids \in Nat \ {0}
    /\ Analyses \subseteq Nat \ {0}
    /\ DangerDag \in GridCollectors
    /\ GridCollectors \cap {"nowhere", "nobody"} = {}
    /\ DatesPerRun \in Nat \ {0}
    /\ MaxBackfills \in Nat
    /\ MaxDangerFaults \in Nat

VARIABLES
    mosaic,         \* the analysis the provider serves, 0 when none
    danger,         \* what the path of a grid names
    dangerPart,     \* what its .part path names
    triplet,        \* manifest.json: checksums of the grids, or NoSums
    worker,         \* where a collector is
    backfills, dangerFaults

dangerVars == <<mosaic, danger, dangerPart, triplet, worker, backfills, dangerFaults>>

\* A path names nothing, a file that is closed, or one a collector has open.
\* A file that is not whole has no analysis.
Nothing == [by |-> "nowhere", analysis |-> 0]
ClosedGrid(a) == [by |-> "nobody", analysis |-> a]
OpenGrid(k) == [by |-> k, analysis |-> 0]
GridInode == {Nothing} \cup {ClosedGrid(a) : a \in Analyses \cup {0}}
                \cup {OpenGrid(k) : k \in GridCollectors}

NoSums == [g \in 1..Grids |-> 0]
Resting == [step |-> "idle", slot |-> <<0, 0>>, analysis |-> 0, sums |-> NoSums, left |-> {}]

Steps == {"idle", "date", "clear", "get", "write", "written", "valid", "replaced", "manifest"}

DangerTypeOK ==
    /\ mosaic \in [DangerDates -> Analyses \cup {0}]
    /\ danger \in [GridSlots -> GridInode]
    /\ dangerPart \in [GridSlots -> GridInode]
    /\ triplet \in [DangerDates -> [1..Grids -> Analyses \cup {0}]]
    /\ worker \in [GridCollectors ->
            [step : Steps, slot : GridSlots \cup {<<0, 0>>}, analysis : Analyses \cup {0},
             sums : [1..Grids -> Analyses \cup {0}], left : SUBSET DangerDates]]
    /\ backfills \in 0..MaxBackfills
    /\ dangerFaults \in 0..MaxDangerFaults

DangerInit ==
    /\ mosaic = [d \in DangerDates |-> 0]
    /\ danger = [s \in GridSlots |-> Nothing]
    /\ dangerPart = [s \in GridSlots |-> Nothing]
    /\ triplet = [d \in DangerDates |-> NoSums]
    /\ worker = [k \in GridCollectors |-> Resting]
    /\ backfills = 0
    /\ dangerFaults = 0

-----------------------------------------------------------------------------
(* Files.                                                                  *)

\* What is in a file by now.
Content(inode) ==
    IF inode.by \notin GridCollectors THEN inode.analysis
    ELSE IF worker[inode.by].step \in {"written", "valid"} THEN worker[inode.by].analysis
    ELSE 0

\* Collector k closes its file, whatever names it.
CloseGrid(inode, k) ==
    IF inode.by = k THEN ClosedGrid(Content(inode)) ELSE inode

\* load_complete_manifest: every grid has the checksum the manifest gives.
Verified(d) ==
    /\ triplet[d] # NoSums
    /\ \A g \in 1..Grids : Content(danger[<<d, g>>]) = triplet[d][g]

At(k, step) == worker[k].step = step
Slot(k) == worker[k].slot
Day(k) == worker[k].slot[1]
Step(k, to) == worker' = [worker EXCEPT ![k].step = to]

\* An exception in _download_grid: `finally` unlinks the .part path, whoever
\* wrote it.  It ends the task of the DAG, which starts over, and the script.
GridFails(k) ==
    /\ worker' = [worker EXCEPT ![k] = Resting]
    /\ danger' = [danger EXCEPT ![Slot(k)] = CloseGrid(@, k)]
    /\ dangerPart' = [dangerPart EXCEPT ![Slot(k)] = Nothing]

ByGrid == UNCHANGED <<mosaic, triplet, backfills>>

-----------------------------------------------------------------------------
Serve(d, a) ==
    /\ a > mosaic[d]
    /\ mosaic' = [mosaic EXCEPT ![d] = a]
    /\ UNCHANGED <<danger, dangerPart, triplet, worker, backfills, dangerFaults>>

NewestDates == {d \in DangerDates :
                    Cardinality({e \in DangerDates : e > d}) < DatesPerRun}

\* ingest_recent
CollectRecent ==
    /\ At(DangerDag, "idle")
    /\ worker' = [worker EXCEPT ![DangerDag].step = "date", ![DangerDag].left = NewestDates]
    /\ UNCHANGED <<mosaic, danger, dangerPart, triplet, backfills, dangerFaults>>

\* download_cffdrs
BackfillGrids(k) ==
    /\ k # DangerDag
    /\ At(k, "idle")
    /\ backfills < MaxBackfills
    /\ backfills' = backfills + 1
    /\ worker' = [worker EXCEPT ![k].step = "date", ![k].left = DangerDates]
    /\ UNCHANGED <<mosaic, danger, dangerPart, triplet, dangerFaults>>

\* The DAG takes the newest date first, the script the oldest.
NextDate(k) == IF k = DangerDag THEN Max(worker[k].left) ELSE Min(worker[k].left)

TakeDate(k, complete) ==
    /\ At(k, "date")
    /\ LET w == worker[k]
       IN  worker' = [worker EXCEPT ![k] =
            IF w.left = {} THEN Resting
            ELSE IF NextDate(k) \in complete THEN [w EXCEPT !.left = w.left \ {NextDate(k)}]
            ELSE [w EXCEPT !.step = "clear", !.slot = <<NextDate(k), 1>>, !.sums = NoSums]]
    /\ ByGrid /\ UNCHANGED <<danger, dangerPart, dangerFaults>>

\* Mutant: a date with a manifest is complete, whatever its files hold by now.
StartUnlisted(k) == TakeDate(k, {d \in DangerDates : triplet[d] # NoSums})

\* ingest_date returns at once for a date that is complete.
StartDate(k) == TakeDate(k, {d \in DangerDates : Verified(d)})

-----------------------------------------------------------------------------
(* _download_grid                                                          *)

ClearPart(k) ==
    /\ At(k, "clear")
    /\ dangerPart' = [dangerPart EXCEPT ![Slot(k)] = Nothing]
    /\ Step(k, "get")
    /\ ByGrid /\ UNCHANGED <<danger, dangerFaults>>

\* The script goes on with the next date when the provider has none.
OpenGridPart(k) ==
    /\ At(k, "get")
    /\ CASE mosaic[Day(k)] = 0 /\ k # DangerDag ->
              /\ worker' = [worker EXCEPT ![k].step = "date", ![k].left = @ \ {Day(k)}]
              /\ dangerPart' = [dangerPart EXCEPT ![Slot(k)] = Nothing]
              /\ UNCHANGED danger
         [] mosaic[Day(k)] # 0 /\ dangerPart[Slot(k)] = Nothing ->
              /\ worker' = [worker EXCEPT ![k].step = "write", ![k].analysis = mosaic[Day(k)]]
              /\ dangerPart' = [dangerPart EXCEPT ![Slot(k)] = OpenGrid(k)]
              /\ UNCHANGED danger
         [] OTHER -> GridFails(k)
    /\ ByGrid /\ UNCHANGED dangerFaults

ReceiveGrid(k) ==
    /\ At(k, "write")
    /\ Step(k, "written")
    /\ ByGrid /\ UNCHANGED <<danger, dangerPart, dangerFaults>>

\* _validate_grid opens what the .part path names by now.
ValidatePart(k) ==
    /\ At(k, "written")
    /\ IF Content(dangerPart[Slot(k)]) \in Analyses
       THEN Step(k, "valid") /\ UNCHANGED <<danger, dangerPart>>
       ELSE GridFails(k)
    /\ ByGrid /\ UNCHANGED dangerFaults

\* os.replace moves what it names then; the checksum is that of the own bytes.
ReplaceGrid(k) ==
    /\ At(k, "valid")
    /\ IF dangerPart[Slot(k)] = Nothing
       THEN GridFails(k)
       ELSE /\ danger' = [danger EXCEPT ![Slot(k)] = CloseGrid(dangerPart[Slot(k)], k)]
            /\ dangerPart' = [dangerPart EXCEPT ![Slot(k)] = Nothing]
            /\ worker' = [worker EXCEPT ![k].step = "replaced",
                              ![k].sums[Slot(k)[2]] = worker[k].analysis]
    /\ ByGrid /\ UNCHANGED dangerFaults

\* `finally` again.
CleanPart(k) ==
    /\ At(k, "replaced")
    /\ dangerPart' = [dangerPart EXCEPT ![Slot(k)] = Nothing]
    /\ LET w == worker[k]
       IN  worker' = [worker EXCEPT ![k] =
            IF w.slot[2] < Grids
            THEN [w EXCEPT !.step = "clear", !.slot[2] = w.slot[2] + 1]
            ELSE [w EXCEPT !.step = "manifest"]]
    /\ ByGrid /\ UNCHANGED <<danger, dangerFaults>>

WriteTriplet(k) ==
    /\ At(k, "manifest")
    /\ triplet' = [triplet EXCEPT ![Day(k)] = worker[k].sums]
    /\ worker' = [worker EXCEPT ![k].step = "date", ![k].left = @ \ {Day(k)}]
    /\ UNCHANGED <<mosaic, danger, dangerPart, backfills, dangerFaults>>

BreakGrid(k) ==
    /\ dangerFaults < MaxDangerFaults
    /\ worker[k].step \in {"get", "write"}
    /\ dangerFaults' = dangerFaults + 1
    /\ GridFails(k)
    /\ ByGrid

\* The process is killed: no `finally`.
KillCollector(k) ==
    /\ dangerFaults < MaxDangerFaults
    /\ worker[k].step \notin {"idle", "date"}
    /\ dangerFaults' = dangerFaults + 1
    /\ worker' = [worker EXCEPT ![k] = Resting]
    /\ danger' = [danger EXCEPT ![Slot(k)] = CloseGrid(@, k)]
    /\ dangerPart' = [dangerPart EXCEPT ![Slot(k)] = CloseGrid(@, k)]
    /\ ByGrid

-----------------------------------------------------------------------------
CollectorStep(k) ==
    \/ StartDate(k) \/ ClearPart(k) \/ OpenGridPart(k) \/ ReceiveGrid(k)
    \/ ValidatePart(k) \/ ReplaceGrid(k) \/ CleanPart(k) \/ WriteTriplet(k)

DangerNext ==
    \/ CollectRecent
    \/ \E k \in GridCollectors :
        CollectorStep(k) \/ BackfillGrids(k) \/ BreakGrid(k) \/ KillCollector(k)
    \/ \E d \in DangerDates, a \in Analyses : Serve(d, a)

DangerSpec == DangerInit /\ [][DangerNext]_dangerVars

\* The scheduler starts the DAG every day; a collector that has started goes on.
DangerFairness ==
    /\ WF_dangerVars(CollectRecent)
    /\ \A k \in GridCollectors : WF_dangerVars(CollectorStep(k))

DangerFairSpec == DangerSpec /\ DangerFairness

-----------------------------------------------------------------------------
(* Properties.                                                             *)

\* Once the provider serves the newest dates of the window, those that one run
\* reaches, each of them ends up with a triplet that verifies and stays so: when
\* two collectors delete, move and mix each other's files, the checksums tell and
\* the next run repairs the date.  The runs count dates that are complete, so the
\* older dates of the window are never looked at, whatever happens to them.
TripletSettles ==
    <>[](\/ \E d \in NewestDates : mosaic[d] = 0
         \/ \A d \in NewestDates : Verified(d))
=============================================================================
