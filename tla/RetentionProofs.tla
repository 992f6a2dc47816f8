--------------------------- MODULE RetentionProofs ---------------------------
(***************************************************************************)
(* Proofs about Retention beside Ingestion, for every set of sources and   *)
(* runs, every number of retries and faults, and every number of sweeps.   *)
(***************************************************************************)
EXTENDS Retention, IngestionProofs

USE RetentionAssumption

-----------------------------------------------------------------------------
(* The inductive invariant.                                                *)

\* The sweep treats one candidate at a time.
SweepTypes ==
    /\ sweep \in {"idle", "sources", "next", "mark", "unlink", "finish"}
    /\ plan \subseteq Candidates
    /\ IF sweep \in {"mark", "unlink", "finish"}
       THEN \E c \in Candidates : target = {c}
       ELSE target = {}
    /\ listedKey \in [Sources -> 0..MaxKey]
    /\ sweeps \in 0..MaxSweeps

\* A source that is being fetched is out of reach of the sweep; one that the
\* sweep has unlinked and is about to call deleted has no file, unless the row
\* has been revived; and a deleted one has none.
Swept(s) ==
    /\ task[s] \in {"fetching", "fetched"} => source[s] = "downloading"
    /\ sweep = "finish" /\ <<"source", s>> \in target /\ source[s] = "pending_deletion"
            => ~raw[s]
    /\ source[s] = "deleted" => ~raw[s]

SweptInv == \A s \in Sources : Swept(s)

RetentionInv ==
    /\ TypeOK
    /\ SweepTypes
    /\ NoTaskYet
    /\ SweptInv

-----------------------------------------------------------------------------
(* The steps of the ingestion DAG.                                         *)

\* The task of a source fetches only what is being downloaded.
LEMMA TaskKeepsSwept ==
    ASSUME TypeOK, NEW s \in Sources, Swept(s), UNCHANGED <<sweep, target>>,
           TaskStep(s) \/ FailDownload(s) \/ KillTask(s)
    PROVE  Swept(s)'
<1> USE DEF TypeOK, CatalogueTypeOK, Goto, AttemptFails, catalogueVars, sourceRows,
            assetRows, runRows, files, batchVars, taskVars, providerVars
<1>1. CASE BeginDownload(s)
  BY <1>1 DEF BeginDownload, BeginSourceDownload, Swept
<1>2. CASE Fetch(s)
  <2>1. source' = source /\ source[s] = "downloading"
    BY <1>2 DEF Fetch, Swept
  <2> QED BY <2>1 DEF Swept
<1>3. CASE MarkDownloaded(s)
  BY <1>3 DEF MarkDownloaded, MarkSourceDownloaded, Swept
<1>4. CASE MarkFailed(s)
  BY <1>4 DEF MarkFailed, MarkSourceFailed, Swept
<1>5. CASE Validate(s)
  BY <1>5 DEF Validate, Swept
<1>6. CASE StartCog(s)
  BY <1>6 DEF StartCog, Swept
<1>7. CASE FinishCog(s)
  BY <1>7 DEF FinishCog, Swept
<1>8. CASE RegisterAsset(s)
  BY <1>8 DEF RegisterAsset, UpsertAsset, Swept
<1>9. CASE ConsumeInbox(s)
  BY <1>9 DEF ConsumeInbox, Swept
<1>10. CASE FailDownload(s)
  BY <1>10 DEF FailDownload, MarkSourceDownloaded, Swept
<1>11. CASE KillTask(s)
  BY <1>11 DEF KillTask, Swept
<1> QED BY <1>1, <1>2, <1>3, <1>4, <1>5, <1>6, <1>7, <1>8, <1>9, <1>10, <1>11 DEF TaskStep

\* So the steps of the tasks keep the invariant.
LEMMA TasksKeepSwept ==
    ASSUME RetentionInv, NEW s \in Sources, UNCHANGED <<sweep, target>>,
           TaskStep(s) \/ FailDownload(s) \/ KillTask(s)
    PROVE  NoTaskYet' /\ SweptInv'
<1>1. OnlyTouches(s) /\ UNCHANGED stage /\ task[s] # "none"
  BY TasksTouchOneSource DEF RetentionInv
<1>2. Swept(s)'
  BY TaskKeepsSwept DEF RetentionInv, SweptInv
<1>3. ASSUME NEW q \in Sources, q # s PROVE Swept(q)'
  BY <1>1, <1>3 DEF OnlyTouches, RetentionInv, SweptInv, Swept, Gone
<1>4. stage \notin {"idle", "looking", "registering"}
  BY <1>1 DEF RetentionInv, NoTaskYet
<1> QED BY <1>1, <1>2, <1>3, <1>4 DEF NoTaskYet, SweptInv

\* A step that leaves the source rows, raw files and tasks alone keeps it.
LEMMA OthersKeepSwept ==
    ASSUME RetentionInv, UNCHANGED <<sweep, target, source, raw, task>>,
           stage' \in {"idle", "looking", "registering"} =>
                stage \in {"idle", "looking", "registering"}
    PROVE  NoTaskYet' /\ SweptInv'
<1>1. ASSUME NEW q \in Sources PROVE Swept(q)'
  BY DEF RetentionInv, SweptInv, Swept, Gone
<1>2. NoTaskYet'
  BY DEF RetentionInv, NoTaskYet
<1> QED BY <1>1, <1>2 DEF SweptInv

\* The end of a batch keeps it.
LEMMA EndKeepsSwept ==
    ASSUME RetentionInv, UNCHANGED <<sweep, target>>, EndBatch
    PROVE  NoTaskYet' /\ SweptInv'
BY DEF RetentionInv, NoTaskYet, SweptInv, Swept, EndBatch, catalogueVars, sourceRows, files

\* So do the other steps of the batch.
LEMMA BatchKeepsSwept ==
    ASSUME RetentionInv, UNCHANGED <<sweep, target>>,
           \/ Recover \/ Look \/ Queue \/ FinishBatch
           \/ \E r \in Runs : Register(r) \/ Finalize(r)
           \/ \E from, to, where :
                /\ from \in {"downloading", "validating", "converting"}
                /\ to \notin {"idle", "looking", "registering"}
                /\ NextStage(from, where, to)
    PROVE  NoTaskYet' /\ SweptInv'
<1> USE DEF sourceRows, assetRows, files, batchVars, taskVars, providerVars
<1>1. ASSUME Recover PROVE NoTaskYet' /\ SweptInv'
  <2>1. \A s \in Sources : task'[s] = "none"
    BY <1>1 DEF Recover, RetentionInv, NoTaskYet
  <2>2. raw' = raw /\ \A s \in Sources : source'[s] = source[s] \/ source'[s] = "discovered"
    BY <1>1 DEF Recover, Revive
  <2>3. ASSUME NEW q \in Sources PROVE Swept(q)'
    BY <2>1, <2>2 DEF RetentionInv, SweptInv, Swept, Gone
  <2> QED BY <2>1, <2>3 DEF NoTaskYet, SweptInv
<1>2. ASSUME Look PROVE NoTaskYet' /\ SweptInv'
  BY <1>2, OthersKeepSwept DEF Look, catalogueVars
<1>3. ASSUME Queue PROVE NoTaskYet' /\ SweptInv'
  <2>1. \A s \in Sources : task'[s] \in {"ready", "none"}
    BY <1>3 DEF Queue
  <2>2. stage' = "downloading" /\ source' = source /\ raw' = raw
    BY <1>3 DEF Queue
  <2>3. ASSUME NEW q \in Sources PROVE Swept(q)'
    BY <2>1, <2>2 DEF RetentionInv, SweptInv, Swept, Gone
  <2> QED BY <2>2, <2>3 DEF NoTaskYet, SweptInv
<1>4. ASSUME FinishBatch PROVE NoTaskYet' /\ SweptInv'
  BY <1>4, EndKeepsSwept DEF FinishBatch
<1>5. ASSUME NEW r \in Runs, Register(r) PROVE NoTaskYet' /\ SweptInv'
  <2>1. \A s \in Sources : task'[s] = "none"
    BY <1>5 DEF Register, RetentionInv, NoTaskYet
  <2>2. raw' = raw /\ \A s \in Sources : source'[s] = source[s] \/ source'[s] = "discovered"
    BY <1>5 DEF Register, RegisterManifest
  <2>3. ASSUME NEW q \in Sources PROVE Swept(q)'
    BY <2>1, <2>2 DEF RetentionInv, SweptInv, Swept, Gone
  <2> QED BY <2>1, <2>3 DEF NoTaskYet, SweptInv
<1>6. ASSUME NEW r \in Runs, Finalize(r) PROVE NoTaskYet' /\ SweptInv'
  BY <1>6, OthersKeepSwept DEF Finalize
<1>7. ASSUME NEW from \in {"downloading", "validating", "converting"}, NEW where,
             NEW to, to \notin {"idle", "looking", "registering"},
             NextStage(from, where, to)
      PROVE  NoTaskYet' /\ SweptInv'
  <2>1. CASE SomeFailed
    BY <1>7, <2>1, EndKeepsSwept DEF NextStage
  <2>2. CASE ~SomeFailed
    BY <1>7, <2>2, OthersKeepSwept DEF NextStage, catalogueVars
  <2> QED BY <2>1, <2>2
<1> QED BY <1>1, <1>2, <1>3, <1>4, <1>5, <1>6, <1>7

\* Every step of the ingestion keeps the invariant of both.
LEMMA NextKeepsRetentionInv ==
    ASSUME RetentionInv, [Next]_vars, UNCHANGED sweepVars PROVE RetentionInv'
<1>0. TypeOK' /\ SweepTypes' /\ UNCHANGED <<sweep, target>>
  BY NextTypes DEF RetentionInv, SweepTypes, sweepVars
<1>1. CASE DagStep
  <2>1. CASE \E s \in Sources : TaskStep(s)
    BY <1>0, <2>1, TasksKeepSwept DEF RetentionInv
  <2>2. CASE \/ NextStage("downloading", {"downloaded"}, "validating")
             \/ NextStage("validating", {"valid"}, "converting")
             \/ NextStage("converting", {"published"}, "finalizing")
    <3>1. PICK from, to, where :
            /\ from \in {"downloading", "validating", "converting"}
            /\ to \notin {"idle", "looking", "registering"}
            /\ NextStage(from, where, to)
      BY <2>2
    <3> QED BY <1>0, <3>1, BatchKeepsSwept DEF RetentionInv
  <2>3. CASE \/ Recover \/ Look \/ Queue \/ FinishBatch
             \/ \E r \in Runs : Register(r) \/ Finalize(r)
    BY <1>0, <2>3, BatchKeepsSwept DEF RetentionInv
  <2> QED BY <1>1, <2>1, <2>2, <2>3 DEF DagStep
<1>2. CASE Faults
  <2>1. CASE LoseDiscovery \/ LoseFinalization
    BY <1>0, <2>1, EndKeepsSwept DEF LoseDiscovery, LoseFinalization, RetentionInv
  <2>2. CASE \E s \in Sources : FailDownload(s) \/ KillTask(s)
    BY <1>0, <2>2, TasksKeepSwept DEF RetentionInv
  <2> QED BY <1>2, <2>1, <2>2 DEF Faults
<1>3. CASE Environment \/ UNCHANGED vars
  <2>1. UNCHANGED <<source, raw, task, stage>>
    BY <1>3 DEF Environment, Deliver, ChangeConversion, vars, catalogueVars, sourceRows,
                assetRows, runRows, files, dagVars, taskVars
  <2> QED BY <1>0, <2>1, OthersKeepSwept DEF RetentionInv
<1> QED BY <1>0, <1>1, <1>2, <1>3 DEF Next, RetentionInv

-----------------------------------------------------------------------------
(* The steps of the sweep.                                                 *)

\* A step of the sweep that leaves the rows and files of the sources alone.
LEMMA SweepAlone ==
    ASSUME RetentionInv, UNCHANGED <<source, raw, task, stage>>,
           sweep' = "finish" => sweep = "finish" /\ target' = target
    PROVE  NoTaskYet' /\ SweptInv'
<1>1. ASSUME NEW q \in Sources PROVE Swept(q)'
  BY DEF RetentionInv, SweptInv, Swept
<1>2. NoTaskYet'
  BY DEF RetentionInv, NoTaskYet
<1> QED BY <1>1, <1>2 DEF SweptInv

\* Listing, the preflight and the end of the sweep write no row or file.
LEMMA ListingKeepsInv ==
    ASSUME RetentionInv,
           ListAssets \/ ListSources \/ EndSweep \/ \E c \in Candidates : Preflight(c)
    PROVE  RetentionInv'
<1> USE DEF vars, catalogueVars, sourceRows, assetRows, runRows, files, dagVars, batchVars,
            taskVars, providerVars
<1>1. TypeOK' /\ UNCHANGED <<source, raw, task, stage>>
  BY DEF RetentionInv, TypeOK, CatalogueTypeOK, ListAssets, ListSources, EndSweep, Preflight
<1>2. sweep' # "finish"
  BY DEF ListAssets, ListSources, EndSweep, Preflight, GiveUp
<1>3. SweepTypes'
  <2>1. CASE ListAssets
    <3>1. plan' \subseteq Candidates
      BY <2>1 DEF ListAssets, Candidates
    <3>2. listedKey' \in [Sources -> 0..MaxKey]
      BY <2>1 DEF ListAssets, RetentionInv, TypeOK, CatalogueTypeOK
    <3>3. sweeps' \in 0..MaxSweeps /\ sweep' = "sources" /\ target' = {}
      BY <2>1 DEF ListAssets, RetentionInv, SweepTypes
    <3> QED BY <3>1, <3>2, <3>3 DEF SweepTypes
  <2>2. CASE ListSources
    BY <2>2 DEF ListSources, Candidates, RetentionInv, SweepTypes
  <2>3. CASE EndSweep
    BY <2>3, CatalogueAssumption DEF EndSweep, RetentionInv, SweepTypes
  <2>4. ASSUME NEW c \in Candidates, Preflight(c) PROVE SweepTypes'
    BY <2>4 DEF Preflight, GiveUp, RetentionInv, SweepTypes
  <2> QED BY <2>1, <2>2, <2>3, <2>4
<1> QED BY <1>1, <1>2, <1>3, SweepAlone DEF RetentionInv

\* Marking takes no source that is being fetched.
LEMMA MarkKeepsInv ==
    ASSUME RetentionInv, NEW c \in Candidates, Mark(c[1], c[2]) PROVE RetentionInv'
<1> USE DEF sourceRows, assetRows, runRows, files, dagVars, batchVars, taskVars, providerVars,
            Mark, MarkAssetPending, MarkSourcePending
<1>0. c[2] \in Sources /\ c = <<c[1], c[2]>>
  BY DEF Candidates
<1>1. TypeOK'
  <2>1. source' \in [Sources -> SourceStates] /\ asset' \in [Sources -> AssetStates]
    BY <1>0 DEF RetentionInv, TypeOK, CatalogueTypeOK, SourceStates, AssetStates, Gone
  <2> QED BY <2>1 DEF RetentionInv, TypeOK, CatalogueTypeOK
<1>2. SweepTypes' /\ sweep' # "finish"
  BY DEF RetentionInv, SweepTypes, GiveUp
<1>3. NoTaskYet'
  BY DEF RetentionInv, NoTaskYet
<1>4. ASSUME NEW q \in Sources PROVE Swept(q)'
  <2>1. UNCHANGED <<raw, task>>
    OBVIOUS
  <2>2. \/ source'[q] = source[q]
        \/ source[q] \in {"downloaded", "failed", "pending_deletion"} /\ source'[q] = "pending_deletion"
    BY <1>0 DEF RetentionInv, TypeOK, CatalogueTypeOK
  <2> QED BY <1>2, <2>1, <2>2 DEF RetentionInv, SweptInv, Swept
<1> QED BY <1>1, <1>2, <1>3, <1>4 DEF RetentionInv, SweptInv

\* What is unlinked has no file any more.
LEMMA UnlinkKeepsInv ==
    ASSUME RetentionInv, NEW c \in Candidates, Unlink(c[1], c[2]) PROVE RetentionInv'
<1> USE DEF sourceRows, assetRows, runRows, files, dagVars, batchVars, taskVars, providerVars,
            Unlink
<1>0. c[2] \in Sources /\ c = <<c[1], c[2]>>
  BY DEF Candidates
<1>1. TypeOK'
  <2>1. raw' \in [Sources -> BOOLEAN]
    <3>1. CASE UNCHANGED raw
      BY <3>1 DEF RetentionInv, TypeOK, CatalogueTypeOK
    <3>2. CASE raw' = [raw EXCEPT ![c[2]] = FALSE]
      BY <3>2 DEF RetentionInv, TypeOK, CatalogueTypeOK
    <3> QED BY <3>1, <3>2
  <2>2. cog' \in [Sources -> 0..MaxKey]
    BY CatalogueAssumption DEF RetentionInv, TypeOK, CatalogueTypeOK
  <2> QED BY <2>1, <2>2 DEF RetentionInv, TypeOK, CatalogueTypeOK
<1>2. SweepTypes'
  BY DEF RetentionInv, SweepTypes, GiveUp
<1>3. NoTaskYet'
  BY DEF RetentionInv, NoTaskYet
<1>4. ASSUME NEW q \in Sources PROVE Swept(q)'
  <2>1. UNCHANGED <<source, task>>
    OBVIOUS
  <2>2. CASE q = c[2] /\ c[1] # "asset"
    <3>1. sweep' = "finish" \/ source[q] = "deleted" => ~raw'[q]
      BY <1>0, <2>2 DEF RetentionInv, SweptInv, Swept, TypeOK, CatalogueTypeOK, GiveUp
    <3> QED BY <2>1, <3>1 DEF RetentionInv, SweptInv, Swept
  <2>3. CASE q # c[2] \/ c[1] = "asset"
    <3>1. raw'[q] = raw[q]
      BY <1>0, <2>3 DEF RetentionInv, TypeOK, CatalogueTypeOK
    <3>2. sweep' = "finish" => <<"source", q>> \notin target'
      BY <1>0, <1>2, <2>3 DEF RetentionInv, SweepTypes, GiveUp
    <3> QED BY <2>1, <3>1, <3>2 DEF RetentionInv, SweptInv, Swept
  <2> QED BY <2>2, <2>3
<1> QED BY <1>1, <1>2, <1>3, <1>4 DEF RetentionInv, SweptInv

\* What is called deleted was unlinked, and not fetched again.
LEMMA FinishKeepsInv ==
    ASSUME RetentionInv, NEW c \in Candidates, Finish(c[1], c[2]) PROVE RetentionInv'
<1> USE DEF sourceRows, assetRows, runRows, files, dagVars, batchVars, taskVars, providerVars,
            Finish
<1>0. c[2] \in Sources /\ c = <<c[1], c[2]>>
  BY DEF Candidates
<1>1. TypeOK'
  <2>1. source' \in [Sources -> SourceStates] /\ asset' \in [Sources -> AssetStates]
    BY <1>0 DEF RetentionInv, TypeOK, CatalogueTypeOK, SourceStates, AssetStates, Gone
  <2> QED BY <2>1 DEF RetentionInv, TypeOK, CatalogueTypeOK
<1>2. SweepTypes' /\ sweep' # "finish"
  BY DEF RetentionInv, SweepTypes, GiveUp
<1>3. NoTaskYet'
  BY DEF RetentionInv, NoTaskYet
<1>4. ASSUME NEW q \in Sources PROVE Swept(q)'
  <2>1. UNCHANGED <<raw, task>>
    OBVIOUS
  <2>2. \/ source'[q] = source[q]
        \/ source[q] = "pending_deletion" /\ source'[q] = "deleted" /\ <<"source", q>> \in target
    BY <1>0 DEF RetentionInv, TypeOK, CatalogueTypeOK
  <2> QED BY <1>2, <2>1, <2>2 DEF RetentionInv, SweptInv, Swept
<1> QED BY <1>1, <1>2, <1>3, <1>4 DEF RetentionInv, SweptInv

-----------------------------------------------------------------------------
(* The theorems.                                                           *)

\* It holds initially.
LEMMA RetentionInitInv == RetentionInit => RetentionInv
<1> SUFFICES ASSUME RetentionInit PROVE RetentionInv
  OBVIOUS
<1>1. TypeOK
  BY InitTypes DEF RetentionInit
<1>2. SweepTypes
  BY CatalogueAssumption, RetentionAssumption DEF RetentionInit, SweepTypes
<1>3. NoTaskYet
  BY DEF RetentionInit, Init, NoTaskYet
<1>4. \A s \in Sources : task[s] = "none" /\ (source[s] = "deleted" => ~raw[s])
  BY DEF RetentionInit, Init, CatalogueInit
<1>5. SweptInv
  BY <1>4 DEF RetentionInit, SweptInv, Swept
<1> QED BY <1>1, <1>2, <1>3, <1>5 DEF RetentionInv

\* Every step keeps it.
LEMMA StepKeepsRetentionInv == RetentionInv /\ [RetentionNext]_archiveVars => RetentionInv'
<1> SUFFICES ASSUME RetentionInv, [RetentionNext]_archiveVars PROVE RetentionInv'
  OBVIOUS
<1>1. CASE Next /\ UNCHANGED sweepVars
  BY <1>1, NextKeepsRetentionInv
<1>2. CASE Sweep
  <2>1. CASE ListAssets \/ ListSources \/ EndSweep
    BY <2>1, ListingKeepsInv
  <2>2. ASSUME NEW c \in Candidates, Treat(c) PROVE RetentionInv'
    BY <2>2, ListingKeepsInv, MarkKeepsInv, UnlinkKeepsInv, FinishKeepsInv DEF Treat
  <2> QED BY <1>2, <2>1, <2>2 DEF Sweep
<1>3. CASE UNCHANGED archiveVars
  BY <1>3, NextKeepsRetentionInv DEF archiveVars
<1> QED BY <1>1, <1>2, <1>3 DEF RetentionNext

\* The invariant of the sweep beside the ingestion.
THEOREM RetentionInvariant == RetentionSpec => []RetentionInv
BY RetentionInitInv, StepKeepsRetentionInv, PTL DEF RetentionSpec

\* The rows and files keep their types with a sweep beside the DAG, and the
\* sweep treats one candidate at a time.
THEOREM RetentionTypeCorrect == RetentionSpec => []RetentionTypeOK
<1>1. RetentionInv => RetentionTypeOK
  <2> SUFFICES ASSUME RetentionInv PROVE RetentionTypeOK
    OBVIOUS
  <2>1. target \in SUBSET Candidates
    BY DEF RetentionInv, SweepTypes
  <2>2. Cardinality(target) = IF sweep \in {"mark", "unlink", "finish"} THEN 1 ELSE 0
    BY FS_EmptySet, FS_Singleton DEF RetentionInv, SweepTypes
  <2> QED BY <2>1, <2>2 DEF RetentionInv, SweepTypes, RetentionTypeOK
<1> QED BY <1>1, RetentionInvariant, PTL

\* A source whose row says deleted has no raw file, in whatever step of the
\* sweep the ingestion DAG revives the row and fetches the file again.
THEOREM DeletedHasNoFile == RetentionSpec => []DeletedSourceHasNoFile
<1>1. RetentionInv => DeletedSourceHasNoFile
  BY DEF RetentionInv, SweptInv, Swept, DeletedSourceHasNoFile
<1> QED BY <1>1, RetentionInvariant, PTL
=============================================================================
