--------------------------- MODULE IngestionProofs ---------------------------
(***************************************************************************)
(* Proofs about Ingestion, for every set of sources and runs, every limit, *)
(* number of retries and of faults, and every left-over of the retired     *)
(* retention policy.                                                       *)
(***************************************************************************)
EXTENDS IngestionInv, FiniteSetTheorems, TLAPS

USE CatalogueAssumption, IngestionAssumption

-----------------------------------------------------------------------------
(* Facts about the data.                                                   *)

\* Counts of sources are natural numbers.
LEMMA CountType == ASSUME NEW S \in SUBSET Sources PROVE Cardinality(S) \in Nat
BY FS_Subset, FS_CardinalityType

\* A larger set of sources counts more.
LEMMA CountGrows ==
    ASSUME NEW S \in SUBSET Sources, NEW T \in SUBSET Sources, S \subseteq T
    PROVE  Cardinality(S) <= Cardinality(T)
BY FS_Subset

\* What recovery takes is recoverable, and a source of the product.
LEMMA FirstIsPart == ASSUME NEW S \in SUBSET Sources, NEW n PROVE First(S, n) \subseteq S
BY DEF First

\* The initial status of a run is a status.
LEMMA LeftProcessingType ==
    ASSUME NEW r \in Runs
    PROVE  LeftProcessing(r) \in {"absent", "expired", "complete"}
<1>1. Leftover[r] \in {"nothing", "expired", "interrupted"}
  OBVIOUS
<1> QED BY <1>1 DEF LeftProcessing

-----------------------------------------------------------------------------
(* Type correctness.                                                       *)

\* Every initial state has the declared types.
LEMMA InitTypes == Init => TypeOK
<1> SUFFICES ASSUME Init PROVE TypeOK
  OBVIOUS
<1> USE DEF Init, CatalogueInit
<1>1. processingStatus \in [Runs -> RunStates] /\ sourceStatus \in [Runs -> RunStates]
  BY LeftProcessingType DEF RunStates
<1>2. /\ source \in [Sources -> SourceStates]
      /\ asset \in [Sources -> AssetStates]
      /\ raw \in [Sources -> BOOLEAN]
  OBVIOUS
<1>3. /\ held \in [Sources -> BOOLEAN]
      /\ gap \in [Sources -> BOOLEAN]
      /\ inbox \in [Sources -> BOOLEAN]
  BY Zenon
<1>4. visible \in [Runs -> BOOLEAN] /\ completed \in [Runs -> BOOLEAN]
  BY Zenon
<1>5. key \in [Sources -> 0..MaxKey] /\ cog \in [Sources -> 0..MaxKey] /\ confKey \in 1..MaxKey
  OBVIOUS
<1>6. expected \in [Runs -> Nat]
  OBVIOUS
<1>7. CatalogueTypeOK
  BY <1>1, <1>2, <1>3, <1>4, <1>5, <1>6 DEF CatalogueTypeOK
<1> QED BY <1>7 DEF TypeOK, Stages, Tasks

\* The statements of the mapped tasks keep the types of the source rows.
LEMMA SourceStatementTypes ==
    ASSUME CatalogueTypeOK, NEW s \in Sources,
           \/ BeginSourceDownload(s)
           \/ MarkSourceDownloaded(s)
           \/ \E unavailable \in BOOLEAN : MarkSourceFailed(s, unavailable)
           \/ UNCHANGED sourceRows
    PROVE  /\ source' \in [Sources -> SourceStates]
           /\ held' \in [Sources -> BOOLEAN]
           /\ gap' \in [Sources -> BOOLEAN]
BY DEF CatalogueTypeOK, BeginSourceDownload, MarkSourceDownloaded, MarkSourceFailed,
       sourceRows, SourceStates

\* Recovery keeps the types of the rows.
LEMMA ReviveTypes ==
    ASSUME CatalogueTypeOK, NEW S \in SUBSET Sources, Revive(S),
           UNCHANGED <<assetRows, files, confKey>>
    PROVE  CatalogueTypeOK'
<1> USE DEF CatalogueTypeOK, Revive, assetRows, files
<1>1. source' \in [Sources -> SourceStates]
  BY DEF SourceStates
<1>2. held' \in [Sources -> BOOLEAN] /\ completed' \in [Runs -> BOOLEAN]
  BY Zenon
<1>3. sourceStatus' \in [Runs -> RunStates] /\ processingStatus' \in [Runs -> RunStates]
  BY DEF RunStates
<1> QED BY <1>1, <1>2, <1>3

\* Registration keeps the types of the rows.
LEMMA RegisterTypes ==
    ASSUME CatalogueTypeOK, NEW r \in Runs, NEW S, RegisterManifest(r, S),
           UNCHANGED <<assetRows, files, confKey>>
    PROVE  CatalogueTypeOK'
<1> USE DEF CatalogueTypeOK, RegisterManifest, assetRows, files
<1>1. source' \in [Sources -> SourceStates]
  BY DEF SourceStates
<1>2. held' \in [Sources -> BOOLEAN] /\ gap' \in [Sources -> BOOLEAN]
  BY Zenon
<1>3. completed' \in [Runs -> BOOLEAN]
  BY Zenon
<1>4. sourceStatus' \in [Runs -> RunStates] /\ processingStatus' \in [Runs -> RunStates]
  BY DEF RunStates
<1>5. expected' \in [Runs -> Nat]
  OBVIOUS
<1> QED BY <1>1, <1>2, <1>3, <1>4, <1>5

\* Finalization keeps the types of the rows.
LEMMA FinalizeTypes ==
    ASSUME CatalogueTypeOK, NEW r \in Runs, FinalizeProductRun(r),
           UNCHANGED <<sourceRows, assetRows, files, confKey>>
    PROVE  CatalogueTypeOK'
<1> DEFINE registered == {s \in SourcesOf(r) : InUse(s)}
<1> USE DEF CatalogueTypeOK, sourceRows, assetRows, files
<1>1. Cardinality(registered) \in Nat
  BY CountType DEF SourcesOf
<1>2. expected' \in [Runs -> Nat]
  BY <1>1 DEF FinalizeProductRun
<1>3. sourceStatus' \in [Runs -> RunStates]
  <2>1. sourceStatus' = [sourceStatus EXCEPT ![r] = "complete"]
        \/ sourceStatus' = [sourceStatus EXCEPT ![r] = "partially_available"]
    BY DEF FinalizeProductRun
  <2> QED BY <2>1 DEF RunStates
<1>4. processingStatus' \in [Runs -> RunStates]
  <2>1. \E x \in {"failed", "partially_available", "complete_with_warnings", "complete"} :
            processingStatus' = [processingStatus EXCEPT ![r] = x]
    BY DEF FinalizeProductRun
  <2> QED BY <2>1 DEF RunStates
<1>5. visible' \in [Runs -> BOOLEAN]
  <2>1. Shows(r) \in BOOLEAN
    BY DEF Shows
  <2>2. visible' = [visible EXCEPT ![r] = Shows(r)]
    BY DEF FinalizeProductRun
  <2> QED BY <2>1, <2>2
<1>6. completed' \in [Runs -> BOOLEAN]
  <2>1. Ends(r) \in BOOLEAN
    BY DEF Ends
  <2>2. completed' = [completed EXCEPT ![r] = Ends(r)]
    BY DEF FinalizeProductRun
  <2> QED BY <2>1, <2>2
<1> QED BY <1>2, <1>3, <1>4, <1>5, <1>6

\* The provider, the clock and the operator keep every type.
LEMMA EnvironmentTypes == TypeOK /\ Environment => TypeOK'
<1> SUFFICES ASSUME TypeOK, Environment PROVE TypeOK'
  OBVIOUS
<1> USE DEF TypeOK, CatalogueTypeOK, catalogueVars, sourceRows, assetRows, runRows,
            files, dagVars, batchVars, taskVars, providerVars
<1>1. ASSUME NEW s \in Sources, Publish(s) \/ Withdraw(s),
             UNCHANGED <<catalogueVars, stage, batchVars, taskVars, faults>>
      PROVE  TypeOK'
  BY <1>1 DEF Publish, Withdraw
<1>2. ASSUME NEW r \in Runs, Age(r),
             UNCHANGED <<catalogueVars, stage, batchVars, taskVars, faults>>
      PROVE  TypeOK'
  BY <1>2 DEF Age
<1>3. ASSUME NEW s \in Sources, Deliver(s)
      PROVE  TypeOK'
  BY <1>3 DEF Deliver
<1>4. ASSUME ChangeConversion
      PROVE  TypeOK'
  BY <1>4 DEF ChangeConversion
<1> QED BY <1>1, <1>2, <1>3, <1>4 DEF Environment

\* An attempt that fails, or a task that goes on, keeps the types of the tasks.
LEMMA TaskTypes ==
    ASSUME task \in [Sources -> Tasks], tries \in [Sources -> Nat],
           NEW s \in Sources, NEW where \in Tasks, NEW retries,
           Goto(s, where) \/ AttemptFails(s, where, retries)
    PROVE  task' \in [Sources -> Tasks] /\ tries' \in [Sources -> Nat]
BY DEF Goto, AttemptFails, Tasks

\* The end of a batch keeps every type.
LEMMA EndBatchTypes == TypeOK /\ EndBatch /\ faults' \in 0..MaxFaults => TypeOK'
<1> SUFFICES ASSUME TypeOK, EndBatch, faults' \in 0..MaxFaults PROVE TypeOK'
  OBVIOUS
<1>1. CatalogueTypeOK'
  BY DEF TypeOK, CatalogueTypeOK, EndBatch, catalogueVars, sourceRows, assetRows,
         runRows, files
<1> QED BY <1>1 DEF TypeOK, EndBatch, providerVars, Stages, Tasks

\* The steps of discover_and_register and of finalize_run keep every type.
LEMMA BatchTypes ==
    ASSUME TypeOK,
           \/ Recover \/ Look \/ Queue \/ FinishBatch
           \/ \E r \in Runs : Register(r) \/ Finalize(r)
           \/ \E from, to \in Stages, where \in SUBSET Tasks : NextStage(from, where, to)
    PROVE  TypeOK'
<1> USE DEF TypeOK, dagVars, batchVars, taskVars, providerVars, Stages
<1>1. ASSUME Recover PROVE TypeOK'
  <2>1. recovered' \in SUBSET Sources
    BY <1>1, FirstIsPart DEF Recover, Recoverable
  <2>2. CatalogueTypeOK'
    BY <1>1, <2>1, ReviveTypes DEF Recover
  <2> QED BY <1>1, <2>1, <2>2 DEF Recover
<1>2. ASSUME Look PROVE TypeOK'
  <2>1. CatalogueTypeOK'
    BY <1>2 DEF Look, CatalogueTypeOK, catalogueVars, sourceRows, assetRows, runRows, files
  <2>2. found' \subseteq Sources /\ viaInbox' \subseteq Sources /\ todo' \subseteq Runs
    BY <1>2 DEF Look, Choose, Missing, Delivered
  <2> QED BY <1>2, <2>1, <2>2 DEF Look
<1>3. ASSUME Queue PROVE TypeOK'
  <2>1. CatalogueTypeOK'
    <3>1. inbox' \in [Sources -> BOOLEAN]
      BY <1>3, Zenon DEF Queue
    <3> QED BY <1>3, <3>1 DEF Queue, CatalogueTypeOK, sourceRows, assetRows, runRows
  <2>2. PICK S \in SUBSET Sources :
            /\ batch' = S
            /\ todo' = {RunOf[s] : s \in S}
            /\ task' = [s \in Sources |-> IF s \in S THEN "ready" ELSE "none"]
            /\ viaInbox' = viaInbox \cap S
    BY <1>3 DEF Queue, Choose
  <2>3. todo' \subseteq Runs
    BY <2>2
  <2> QED BY <1>3, <2>1, <2>2, <2>3 DEF Queue, Tasks
<1>4. ASSUME FinishBatch PROVE TypeOK'
  BY <1>4, EndBatchTypes DEF FinishBatch
<1>5. ASSUME NEW r \in Runs, Register(r) PROVE TypeOK'
  <2>1. CatalogueTypeOK'
    BY <1>5, RegisterTypes DEF Register
  <2> QED BY <1>5, <2>1 DEF Register
<1>6. ASSUME NEW r \in Runs, Finalize(r) PROVE TypeOK'
  <2>1. CatalogueTypeOK'
    BY <1>6, FinalizeTypes DEF Finalize
  <2> QED BY <1>6, <2>1 DEF Finalize
<1>7. ASSUME NEW from \in Stages, NEW to \in Stages, NEW where \in SUBSET Tasks,
             NextStage(from, where, to)
      PROVE  TypeOK'
  <2>1. CASE SomeFailed
    BY <1>7, <2>1, EndBatchTypes DEF NextStage
  <2>2. CASE ~SomeFailed
    <3>1. CatalogueTypeOK'
      BY <1>7, <2>2 DEF NextStage, CatalogueTypeOK, catalogueVars, sourceRows,
                        assetRows, runRows, files
    <3> QED BY <1>7, <2>2, <3>1 DEF NextStage
  <2> QED BY <2>1, <2>2
<1> QED BY <1>1, <1>2, <1>3, <1>4, <1>5, <1>6, <1>7

\* The steps of the mapped tasks keep every type.
LEMMA TaskStepTypes == ASSUME TypeOK, NEW s \in Sources, TaskStep(s) PROVE TypeOK'
<1> USE DEF TypeOK, CatalogueTypeOK, catalogueVars, sourceRows, assetRows, runRows,
            files, dagVars, batchVars, providerVars
<1>1. ASSUME BeginDownload(s) PROVE TypeOK'
  <2>1. task' \in [Sources -> Tasks] /\ tries' \in [Sources -> Nat]
    BY <1>1, TaskTypes DEF BeginDownload, Tasks
  <2>2. BeginSourceDownload(s) \/ UNCHANGED sourceRows
    BY <1>1 DEF BeginDownload
  <2> QED BY <1>1, <2>1, <2>2, SourceStatementTypes DEF BeginDownload
<1>2. ASSUME Fetch(s) PROVE TypeOK'
  <2>1. task' \in [Sources -> Tasks] /\ tries' \in [Sources -> Nat]
    BY <1>2, TaskTypes DEF Fetch, Tasks
  <2> QED BY <1>2, <2>1 DEF Fetch
<1>3. ASSUME MarkDownloaded(s) PROVE TypeOK'
  <2>1. task' \in [Sources -> Tasks] /\ tries' \in [Sources -> Nat]
    BY <1>3 DEF MarkDownloaded, Goto, Tasks
  <2>2. MarkSourceDownloaded(s) \/ UNCHANGED sourceRows
    BY <1>3 DEF MarkDownloaded
  <2> QED BY <1>3, <2>1, <2>2, SourceStatementTypes DEF MarkDownloaded
<1>4. ASSUME MarkFailed(s) PROVE TypeOK'
  <2>1. task' \in [Sources -> Tasks] /\ tries' \in [Sources -> Nat]
    BY <1>4, TaskTypes DEF MarkFailed, Tasks
  <2>2. MarkSourceFailed(s, task[s] = "refused") \/ UNCHANGED sourceRows
    BY <1>4 DEF MarkFailed
  <2>3. (task[s] = "refused") \in BOOLEAN
    OBVIOUS
  <2>4. \/ \E unavailable \in BOOLEAN : MarkSourceFailed(s, unavailable)
        \/ UNCHANGED sourceRows
    BY <2>2, <2>3, Zenon
  <2> QED BY <1>4, <2>1, <2>4, SourceStatementTypes DEF MarkFailed
<1>5. ASSUME Validate(s) PROVE TypeOK'
  <2>1. task' \in [Sources -> Tasks] /\ tries' \in [Sources -> Nat]
    BY <1>5 DEF Validate, Goto, Tasks
  <2> QED BY <1>5, <2>1 DEF Validate
<1>6. ASSUME StartCog(s) PROVE TypeOK'
  <2>1. task' \in [Sources -> Tasks] /\ tries' \in [Sources -> Nat]
    BY <1>6, TaskTypes DEF StartCog, Tasks
  <2> QED BY <1>6, <2>1 DEF StartCog
<1>7. ASSUME FinishCog(s) PROVE TypeOK'
  <2>1. task' \in [Sources -> Tasks] /\ tries' \in [Sources -> Nat]
    BY <1>7, TaskTypes DEF FinishCog, Tasks
  <2>2. cog' \in [Sources -> 0..MaxKey]
    <3>1. confKey \in 0..MaxKey
      OBVIOUS
    <3> QED BY <1>7, <3>1 DEF FinishCog
  <2> QED BY <1>7, <2>1, <2>2 DEF FinishCog
<1>8. ASSUME RegisterAsset(s) PROVE TypeOK'
  <2>1. task' \in [Sources -> Tasks] /\ tries' \in [Sources -> Nat]
    BY <1>8, TaskTypes DEF RegisterAsset, Tasks
  <2> QED BY <1>8, <2>1 DEF RegisterAsset, UpsertAsset, AssetStates
<1>9. ASSUME ConsumeInbox(s) PROVE TypeOK'
  <2>1. task' \in [Sources -> Tasks] /\ tries' \in [Sources -> Nat]
    BY <1>9, TaskTypes DEF ConsumeInbox, Tasks
  <2>2. inbox' \in [Sources -> BOOLEAN]
    BY <1>9, Zenon DEF ConsumeInbox
  <2> QED BY <1>9, <2>1, <2>2 DEF ConsumeInbox
<1> QED BY <1>1, <1>2, <1>3, <1>4, <1>5, <1>6, <1>7, <1>8, <1>9 DEF TaskStep

\* A fault keeps every type.
LEMMA FaultTypes == TypeOK /\ Faults => TypeOK'
<1> SUFFICES ASSUME TypeOK, Faults PROVE TypeOK'
  OBVIOUS
<1> USE DEF TypeOK
<1>1. faults' \in 0..MaxFaults
  BY DEF Faults, Fault
<1>2. CASE LoseDiscovery \/ LoseFinalization
  BY <1>1, <1>2, EndBatchTypes DEF LoseDiscovery, LoseFinalization
<1>3. ASSUME NEW s \in Sources, FailDownload(s) PROVE TypeOK'
  <2>1. task' \in [Sources -> Tasks] /\ tries' \in [Sources -> Nat]
    BY <1>3, TaskTypes DEF FailDownload, Tasks
  <2>2. MarkSourceDownloaded(s) \/ UNCHANGED sourceRows
    BY <1>3 DEF FailDownload
  <2>3. CatalogueTypeOK'
    BY <1>3, <2>2, SourceStatementTypes
       DEF FailDownload, CatalogueTypeOK, assetRows, runRows, files
  <2> QED BY <1>1, <1>3, <2>1, <2>3 DEF FailDownload, batchVars, providerVars
<1>4. ASSUME NEW s \in Sources, KillTask(s) PROVE TypeOK'
  <2>1. task' \in [Sources -> Tasks] /\ tries' \in [Sources -> Nat]
    BY <1>4, TaskTypes DEF KillTask, Tasks
  <2>2. CatalogueTypeOK'
    BY <1>4 DEF KillTask, CatalogueTypeOK, catalogueVars, sourceRows, assetRows,
                runRows, files
  <2> QED BY <1>1, <1>4, <2>1, <2>2 DEF KillTask, batchVars, providerVars
<1> QED BY <1>2, <1>3, <1>4 DEF Faults

-----------------------------------------------------------------------------
(* Rows of the sources, their files and their tasks.                       *)

\* The initial states satisfy the invariant of the sources.
LEMMA InitSourceInv == Init => SourceInv
<1> SUFFICES ASSUME Init PROVE SourceInv
  OBVIOUS
<1> USE DEF Init, CatalogueInit
<1>1. \A s \in Sources : source[s] = "downloaded" => held[s] /\ raw[s]
  OBVIOUS
<1>2. \A s \in Sources : ~gap[s] /\ task[s] = "none"
  OBVIOUS
<1> QED BY <1>1, <1>2 DEF SourceInv, DownloadedMetadata, DownloadedFileExists, GapIsOld,
                         NoTaskYet, TaskInv

\* The invariant of the sources does not depend on the runs, the inbox, the
\* configuration and the retries; it survives a run that leaves the window.
LEMMA OtherStepKeepsSourceInv ==
    ASSUME SourceInv, recent' \subseteq recent,
           UNCHANGED <<sourceRows, asset, raw, cog, task>>,
           stage' \in {"idle", "looking", "registering"} =>
                stage \in {"idle", "looking", "registering"}
    PROVE  SourceInv'
<1> USE DEF sourceRows
<1>1. DownloadedMetadata' /\ DownloadedFileExists'
  BY DEF SourceInv, DownloadedMetadata, DownloadedFileExists
<1>2. GapIsOld'
  BY DEF SourceInv, GapIsOld
<1>3. NoTaskYet'
  BY DEF SourceInv, NoTaskYet
<1>4. TaskInv'
  BY DEF SourceInv, TaskInv
<1> QED BY <1>1, <1>2, <1>3, <1>4 DEF SourceInv

\* Without a task, only the rows and their files count.
LEMMA NoTasksKeepSourceInv ==
    ASSUME DownloadedMetadata', DownloadedFileExists', GapIsOld',
           \A s \in Sources : task'[s] = "none"
    PROVE  SourceInv'
BY DEF SourceInv, NoTaskYet, TaskInv

\* The provider, the clock and the operator keep it.
LEMMA EnvironmentKeepsSourceInv == SourceInv /\ Environment => SourceInv'
<1> SUFFICES ASSUME SourceInv, Environment PROVE SourceInv'
  OBVIOUS
<1> USE DEF catalogueVars, sourceRows, assetRows, runRows, files, dagVars, batchVars,
            taskVars, providerVars
<1>1. recent' \subseteq recent
  BY DEF Environment, Publish, Withdraw, Age, Deliver, ChangeConversion
<1>2. UNCHANGED <<sourceRows, asset, raw, cog, task, stage>>
  BY DEF Environment, Deliver, ChangeConversion
<1> QED BY <1>1, <1>2, OtherStepKeepsSourceInv

\* The end of a batch keeps it.
LEMMA EndBatchKeepsSourceInv == SourceInv /\ EndBatch => SourceInv'
<1> SUFFICES ASSUME SourceInv, EndBatch PROVE SourceInv'
  OBVIOUS
<1> USE DEF EndBatch, catalogueVars, sourceRows, files, providerVars
<1>1. DownloadedMetadata' /\ DownloadedFileExists' /\ GapIsOld'
  BY DEF SourceInv, DownloadedMetadata, DownloadedFileExists, GapIsOld
<1>2. \A s \in Sources : task'[s] = "none"
  OBVIOUS
<1> QED BY <1>1, <1>2, NoTasksKeepSourceInv

\* discover_and_register and finalize_run keep it.
LEMMA BatchKeepsSourceInv ==
    ASSUME TypeOK, SourceInv,
           \/ Recover \/ Look \/ Queue \/ FinishBatch
           \/ \E r \in Runs : Register(r) \/ Finalize(r)
           \/ \E from, to, where :
                /\ from \in {"downloading", "validating", "converting"}
                /\ to \notin {"idle", "looking", "registering"}
                /\ NextStage(from, where, to)
    PROVE  SourceInv'
<1> USE DEF sourceRows, assetRows, files, batchVars, taskVars, providerVars
<1>1. ASSUME Recover PROVE SourceInv'
  <2>1. \A s \in Sources : task'[s] = "none"
    BY <1>1 DEF Recover, SourceInv, NoTaskYet
  <2>2. DownloadedMetadata' /\ DownloadedFileExists'
    BY <1>1 DEF Recover, Revive, TypeOK, CatalogueTypeOK, SourceInv,
                DownloadedMetadata, DownloadedFileExists, Gone
  <2>3. \A s \in recovered' : ~gap[s]
    BY <1>1, FirstIsPart DEF Recover, Recoverable
  <2>4. GapIsOld'
    BY <1>1, <2>3 DEF Recover, Revive, TypeOK, CatalogueTypeOK, SourceInv, GapIsOld
  <2> QED BY <2>1, <2>2, <2>4, NoTasksKeepSourceInv
<1>2. ASSUME Look PROVE SourceInv'
  BY <1>2, OtherStepKeepsSourceInv DEF Look, catalogueVars
<1>3. ASSUME Queue PROVE SourceInv'
  <2>1. \A s \in Sources : task'[s] \in {"ready", "none"}
    BY <1>3 DEF Queue
  <2>2. DownloadedMetadata' /\ DownloadedFileExists' /\ GapIsOld'
    BY <1>3 DEF Queue, SourceInv, DownloadedMetadata, DownloadedFileExists, GapIsOld
  <2>3. stage' = "downloading"
    BY <1>3 DEF Queue
  <2> QED BY <2>1, <2>2, <2>3 DEF SourceInv, NoTaskYet, TaskInv
<1>4. ASSUME FinishBatch PROVE SourceInv'
  BY <1>4, EndBatchKeepsSourceInv DEF FinishBatch
<1>5. ASSUME NEW r \in Runs, Register(r) PROVE SourceInv'
  <2>1. \A s \in Sources : task'[s] = "none"
    BY <1>5 DEF Register, SourceInv, NoTaskYet
  <2>2. DownloadedMetadata' /\ DownloadedFileExists'
    BY <1>5 DEF Register, RegisterManifest, TypeOK, CatalogueTypeOK, SourceInv,
                DownloadedMetadata, DownloadedFileExists, Gone
  <2>3. GapIsOld'
    BY <1>5 DEF Register, RegisterManifest, TypeOK, CatalogueTypeOK, SourceInv, GapIsOld
  <2> QED BY <2>1, <2>2, <2>3, NoTasksKeepSourceInv
<1>6. ASSUME NEW r \in Runs, Finalize(r) PROVE SourceInv'
  BY <1>6, OtherStepKeepsSourceInv DEF Finalize
<1>7. ASSUME NEW from \in {"downloading", "validating", "converting"}, NEW where,
             NEW to, to \notin {"idle", "looking", "registering"},
             NextStage(from, where, to)
      PROVE  SourceInv'
  <2>1. CASE SomeFailed
    BY <1>7, <2>1, EndBatchKeepsSourceInv DEF NextStage
  <2>2. CASE ~SomeFailed
    BY <1>7, <2>2, OtherStepKeepsSourceInv DEF NextStage, catalogueVars
  <2> QED BY <2>1, <2>2
<1> QED BY <1>1, <1>2, <1>3, <1>4, <1>5, <1>6, <1>7

\* What the invariant says of one source.
SourceFits(s) ==
    /\ source[s] = "downloaded" => held[s] /\ raw[s]
    /\ gap[s] => source[s] = "failed" /\ RunOf[s] \notin recent
    /\ task[s] = "fetched" => raw[s]
    /\ task[s] = "refused" => RunOf[s] \notin recent
    /\ task[s] \in {"downloaded", "valid", "converting", "converted", "registered"}
            => source[s] = "downloaded"
    /\ task[s] = "registered" => asset[s] = "available" /\ cog[s] # 0

\* The step leaves the rows, files and tasks of other sources alone.
OnlyTouches(s) ==
    \A q \in Sources \ {s} :
        /\ source'[q] = source[q] /\ held'[q] = held[q] /\ gap'[q] = gap[q]
        /\ raw'[q] = raw[q] /\ asset'[q] = asset[q] /\ cog'[q] = cog[q]
        /\ task'[q] = task[q]

\* The invariant of the sources holds for each of them.
LEMMA SourceInvFits == ASSUME SourceInv, NEW s \in Sources PROVE SourceFits(s)
BY DEF SourceInv, SourceFits, DownloadedMetadata, DownloadedFileExists, GapIsOld, TaskInv

\* A step that touches one source, which has a task, keeps the invariant when
\* it keeps it for that source.
LEMMA OneSourceSuffices ==
    ASSUME SourceInv, NEW s \in Sources, task[s] # "none",
           OnlyTouches(s), UNCHANGED <<recent, stage>>, SourceFits(s)'
    PROVE  SourceInv'
<1>1. \A q \in Sources : SourceFits(q)'
  <2> TAKE q \in Sources
  <2>1. CASE q = s
    BY <2>1
  <2>2. CASE q # s
    BY <2>2, SourceInvFits DEF OnlyTouches, SourceFits
  <2> QED BY <2>1, <2>2
<1>2. NoTaskYet'
  <2>1. stage \notin {"idle", "looking", "registering"}
    BY DEF SourceInv, NoTaskYet
  <2> QED BY <2>1 DEF NoTaskYet
<1> QED BY <1>1, <1>2 DEF SourceInv, SourceFits, DownloadedMetadata, DownloadedFileExists,
                          GapIsOld, TaskInv

\* A mapped task touches its own source only.
LEMMA TasksTouchOneSource ==
    ASSUME TypeOK, NEW s \in Sources, TaskStep(s) \/ FailDownload(s) \/ KillTask(s)
    PROVE  OnlyTouches(s) /\ UNCHANGED <<recent, stage>> /\ task[s] # "none"
<1> USE DEF TypeOK, CatalogueTypeOK, OnlyTouches, Goto, AttemptFails, catalogueVars, sourceRows,
            assetRows, runRows, files, batchVars, taskVars, providerVars
<1>1. CASE BeginDownload(s)
  BY <1>1 DEF BeginDownload, BeginSourceDownload
<1>2. CASE Fetch(s)
  BY <1>2 DEF Fetch
<1>3. CASE MarkDownloaded(s)
  BY <1>3 DEF MarkDownloaded, MarkSourceDownloaded
<1>4. CASE MarkFailed(s)
  BY <1>4 DEF MarkFailed, MarkSourceFailed
<1>5. CASE Validate(s)
  BY <1>5 DEF Validate
<1>6. CASE StartCog(s)
  BY <1>6 DEF StartCog
<1>7. CASE FinishCog(s)
  BY <1>7 DEF FinishCog
<1>8. CASE RegisterAsset(s)
  BY <1>8 DEF RegisterAsset, UpsertAsset
<1>9. CASE ConsumeInbox(s)
  BY <1>9 DEF ConsumeInbox
<1>10. CASE FailDownload(s)
  BY <1>10 DEF FailDownload, MarkSourceDownloaded
<1>11. CASE KillTask(s)
  BY <1>11 DEF KillTask
<1> QED BY <1>1, <1>2, <1>3, <1>4, <1>5, <1>6, <1>7, <1>8, <1>9, <1>10, <1>11 DEF TaskStep

\* What the step of a mapped task leaves of its source fits together.
LEMMA TaskStepFits ==
    ASSUME TypeOK, NEW s \in Sources, SourceFits(s),
           TaskStep(s) \/ FailDownload(s) \/ KillTask(s)
    PROVE  SourceFits(s)'
<1> USE DEF TypeOK, CatalogueTypeOK, SourceFits, Goto, AttemptFails, catalogueVars, sourceRows,
            assetRows, runRows, files, batchVars, taskVars, providerVars
<1>1. CASE BeginDownload(s)
  BY <1>1 DEF BeginDownload, BeginSourceDownload
<1>2. CASE Fetch(s)
  BY <1>2 DEF Fetch
<1>3. CASE MarkDownloaded(s)
  BY <1>3 DEF MarkDownloaded, MarkSourceDownloaded
<1>4. CASE MarkFailed(s)
  BY <1>4 DEF MarkFailed, MarkSourceFailed
<1>5. CASE Validate(s)
  BY <1>5 DEF Validate
<1>6. CASE StartCog(s)
  BY <1>6 DEF StartCog
<1>7. CASE FinishCog(s)
  BY <1>7 DEF FinishCog
<1>8. CASE RegisterAsset(s)
  BY <1>8 DEF RegisterAsset, UpsertAsset
<1>9. CASE ConsumeInbox(s)
  BY <1>9 DEF ConsumeInbox
<1>10. CASE FailDownload(s)
  BY <1>10 DEF FailDownload, MarkSourceDownloaded
<1>11. CASE KillTask(s)
  BY <1>11 DEF KillTask
<1> QED BY <1>1, <1>2, <1>3, <1>4, <1>5, <1>6, <1>7, <1>8, <1>9, <1>10, <1>11 DEF TaskStep

\* Mapped tasks and their faults keep the invariant of the sources.
LEMMA TasksKeepSourceInv ==
    ASSUME TypeOK, SourceInv, NEW s \in Sources,
           TaskStep(s) \/ FailDownload(s) \/ KillTask(s)
    PROVE  SourceInv'
BY SourceInvFits, TaskStepFits, TasksTouchOneSource, OneSourceSuffices

\* Every step keeps the invariant of the sources.
LEMMA NextKeepsSourceInv == TypeOK /\ SourceInv /\ [Next]_vars => SourceInv'
<1> SUFFICES ASSUME TypeOK, SourceInv, [Next]_vars PROVE SourceInv'
  OBVIOUS
<1>1. CASE DagStep
  BY <1>1, BatchKeepsSourceInv, TasksKeepSourceInv DEF DagStep
<1>2. CASE Faults
  <2>1. CASE LoseDiscovery \/ LoseFinalization
    BY <2>1, EndBatchKeepsSourceInv DEF LoseDiscovery, LoseFinalization
  <2>2. CASE \E s \in Sources : FailDownload(s) \/ KillTask(s)
    BY <2>2, TasksKeepSourceInv
  <2> QED BY <1>2, <2>1, <2>2 DEF Faults
<1>3. CASE Environment
  BY <1>3, EnvironmentKeepsSourceInv
<1>4. CASE UNCHANGED vars
  BY <1>4, OtherStepKeepsSourceInv DEF vars, catalogueVars, dagVars, assetRows, files,
                                       taskVars, providerVars
<1> QED BY <1>1, <1>2, <1>3, <1>4 DEF Next

\* Every step keeps the types.
LEMMA NextTypes == TypeOK /\ [Next]_vars => TypeOK'
<1> SUFFICES ASSUME TypeOK, [Next]_vars PROVE TypeOK'
  OBVIOUS
<1>1. CASE DagStep
  BY <1>1, BatchTypes, TaskStepTypes DEF DagStep, Stages, Tasks
<1>2. CASE Faults
  BY <1>2, FaultTypes
<1>3. CASE Environment
  BY <1>3, EnvironmentTypes
<1>4. CASE UNCHANGED vars
  BY <1>4 DEF vars, TypeOK, CatalogueTypeOK, catalogueVars, sourceRows, assetRows,
              runRows, files, dagVars, batchVars, taskVars, providerVars
<1> QED BY <1>1, <1>2, <1>3, <1>4 DEF Next

-----------------------------------------------------------------------------
(* Rows of the runs.                                                       *)

\* No asset is lost: what is available stays available.
AssetsStay == \A s \in Sources : asset[s] = "available" => asset'[s] = "available"

\* The same sources are registered before and after.
SameRegistered == \A s \in Sources : source'[s] = "absent" <=> source[s] = "absent"

\* When no asset is lost a run shows what it showed, and counts what it counted.
LEMMA AvailableGrows ==
    ASSUME AssetsStay, NEW r \in Runs
    PROVE  /\ Shows(r) => Shows(r)'
           /\ Cardinality(Available(r)) <= Cardinality(Available(r)')
<1>1. Available(r) \subseteq Available(r)'
  BY DEF AssetsStay, Available, SourcesOf
<1>2. Available(r) \in SUBSET Sources /\ Available(r)' \in SUBSET Sources
  BY DEF Available, SourcesOf
<1>3. Cardinality(Available(r)) <= Cardinality(Available(r)')
  BY <1>1, <1>2, CountGrows
<1>4. Shows(r) => Shows(r)'
  BY <1>1 DEF Shows, Core
<1> QED BY <1>3, <1>4

\* The initial states satisfy the invariant of the runs.
LEMMA InitRunInv == Init => RunInv
<1> SUFFICES ASSUME Init PROVE RunInv
  OBVIOUS
<1> USE DEF Init, CatalogueInit
<1>1. RunCompletion
  <2> SUFFICES ASSUME NEW r \in Runs, completed[r]
               PROVE  processingStatus[r] \in {"complete", "expired"}
    BY DEF RunCompletion
  <2>1. Leftover[r] \in {"expired", "interrupted"}
    OBVIOUS
  <2> QED BY <2>1, LeftProcessingType, Zenon DEF LeftProcessing
<1>2. ManifestInv
  <2>1. \A s \in Sources : source[s] # "absent" => Leftover[RunOf[s]] # "nothing"
    <3> SUFFICES ASSUME NEW s \in Sources, Leftover[RunOf[s]] = "nothing"
                 PROVE  source[s] = "absent"
      OBVIOUS
    <3>1. LeftSource(RunOf[s]) = {"absent"}
      BY Zenon DEF LeftSource
    <3> QED BY <3>1
  <2>2. \A r \in Runs : Leftover[r] # "nothing" => Promised(r)
    BY DEF Promised
  <2> QED BY <2>1, <2>2 DEF ManifestInv
<1>3. ShownInv
  BY DEF ShownInv
<1>4. CompleteRunIsWhole
  <2> SUFFICES ASSUME NEW r \in Runs, Leftover[r] # "interrupted"
               PROVE  processingStatus[r] \in {"absent", "expired"}
    BY DEF CompleteRunIsWhole
  <2>1. Leftover[r] \in {"nothing", "expired"}
    OBVIOUS
  <2>2. LeftProcessing(r) \in {"absent", "expired"}
    BY <2>1, Zenon DEF LeftProcessing
  <2> QED BY <2>2
<1> QED BY <1>1, <1>2, <1>3, <1>4 DEF RunInv

\* A step that leaves the rows of the runs alone, and loses no asset, keeps
\* what they say.
LEMMA SameRunsKeepRunInv ==
    ASSUME TypeOK, RunInv, UNCHANGED runRows, AssetsStay, ManifestInv'
    PROVE  RunInv'
<1> USE DEF runRows
<1>1. RunCompletion'
  BY DEF RunInv, RunCompletion
<1>2. ShownInv'
  BY AvailableGrows DEF RunInv, ShownInv
<1>3. CompleteRunIsWhole'
  <2> SUFFICES ASSUME NEW r \in Runs, Leftover[r] # "interrupted",
                      processingStatus[r] \in {"complete", "complete_with_warnings"}
               PROVE  Cardinality(Available(r)') >= Expected[r]
    BY DEF CompleteRunIsWhole
  <2>1. Cardinality(Available(r)) >= Expected[r]
    BY DEF RunInv, CompleteRunIsWhole
  <2>2. /\ Cardinality(Available(r)) \in Nat /\ Cardinality(Available(r)') \in Nat
        /\ Expected[r] \in Nat
    BY CountType DEF Available, SourcesOf
  <2> QED BY <2>1, <2>2, AvailableGrows
<1> QED BY <1>1, <1>2, <1>3 DEF RunInv

\* A step that leaves the batch where it is and registers nothing keeps the
\* promises of the manifests.
LEMMA SameBatchKeepsManifests ==
    ASSUME TypeOK, ManifestInv, SameRegistered,
           UNCHANGED <<expected, stage, recovered, found, todo>>
    PROVE  ManifestInv'
BY DEF TypeOK, ManifestInv, Promised, SameRegistered

\* The end of a batch keeps the invariant of the runs.
LEMMA EndBatchKeepsRunInv == TypeOK /\ RunInv /\ EndBatch => RunInv'
<1> SUFFICES ASSUME TypeOK, RunInv, EndBatch PROVE RunInv'
  OBVIOUS
<1> USE DEF EndBatch, catalogueVars, sourceRows, assetRows, runRows
<1>1. AssetsStay
  BY DEF AssetsStay
<1>2. ManifestInv'
  BY DEF RunInv, ManifestInv, Promised
<1> QED BY <1>1, <1>2, SameRunsKeepRunInv

\* Mapped tasks, their faults and the environment keep it.
LEMMA TasksKeepRunInv ==
    ASSUME TypeOK, RunInv,
           \/ \E s \in Sources : TaskStep(s) \/ FailDownload(s) \/ KillTask(s)
           \/ Environment
           \/ UNCHANGED vars
    PROVE  RunInv'
<1> USE DEF TypeOK, CatalogueTypeOK, catalogueVars, sourceRows, assetRows, runRows, files,
            dagVars, batchVars, providerVars
<1> DEFINE Quiet == /\ AssetsStay /\ SameRegistered
                    /\ UNCHANGED <<runRows, stage, recovered, found, todo>>
<1>1. ASSUME Quiet PROVE RunInv'
  BY <1>1, SameRunsKeepRunInv, SameBatchKeepsManifests DEF RunInv
<1> USE DEF AssetsStay, SameRegistered
<1>2. ASSUME NEW s \in Sources, TaskStep(s) PROVE Quiet
  <2>1. CASE BeginDownload(s)
    BY <2>1 DEF BeginDownload, BeginSourceDownload, InUse
  <2>2. CASE Fetch(s)
    BY <2>2 DEF Fetch
  <2>3. CASE MarkDownloaded(s)
    BY <2>3 DEF MarkDownloaded, MarkSourceDownloaded
  <2>4. CASE MarkFailed(s)
    BY <2>4 DEF MarkFailed, MarkSourceFailed, InUse
  <2>5. CASE Validate(s)
    BY <2>5 DEF Validate
  <2>6. CASE StartCog(s)
    BY <2>6 DEF StartCog
  <2>7. CASE FinishCog(s)
    BY <2>7 DEF FinishCog
  <2>8. CASE RegisterAsset(s)
    BY <2>8 DEF RegisterAsset, UpsertAsset
  <2>9. CASE ConsumeInbox(s)
    BY <2>9 DEF ConsumeInbox
  <2> QED BY <1>2, <2>1, <2>2, <2>3, <2>4, <2>5, <2>6, <2>7, <2>8, <2>9 DEF TaskStep
<1>3. ASSUME NEW s \in Sources, FailDownload(s) PROVE Quiet
  BY <1>3 DEF FailDownload, MarkSourceDownloaded
<1>4. ASSUME NEW s \in Sources, KillTask(s) PROVE Quiet
  BY <1>4 DEF KillTask
<1>5. ASSUME Environment PROVE Quiet
  BY <1>5 DEF Environment, Deliver, ChangeConversion
<1>6. ASSUME UNCHANGED vars PROVE Quiet
  BY <1>6 DEF vars
<1> QED BY <1>1, <1>2, <1>3, <1>4, <1>5, <1>6

\* discover_and_register, up to the requests, keeps the invariant of the runs.
LEMMA DiscoveryKeepsRunInv ==
    ASSUME TypeOK, RunInv,
           Recover \/ Look \/ Queue \/ \E r \in Runs : Register(r)
    PROVE  RunInv'
<1>1. ASSUME Recover PROVE RunInv'
  <2> USE <1>1 DEF Recover, Revive, assetRows
  <2>1. \A s \in recovered' : s \in Sources /\ source[s] # "absent"
    BY FirstIsPart DEF Recoverable
  <2>2. SameRegistered
    BY <2>1 DEF SameRegistered, TypeOK, CatalogueTypeOK, Gone
  <2>3. AssetsStay
    BY DEF AssetsStay
  <2>4. ManifestInv'
    BY <2>1, <2>2 DEF RunInv, ManifestInv, Promised, SameRegistered
  <2>5. \A r \in Runs :
            /\ completed'[r] => completed[r] /\ processingStatus'[r] = processingStatus[r]
            /\ processingStatus'[r] \in {processingStatus[r], "processing"}
    <3> SUFFICES ASSUME NEW r \in Runs
                 PROVE  /\ completed'[r] => completed[r]
                                            /\ processingStatus'[r] = processingStatus[r]
                        /\ processingStatus'[r] \in {processingStatus[r], "processing"}
      OBVIOUS
    <3>1. completed'[r] => completed[r] /\ ~(r \in {RunOf[s] : s \in recovered'} /\ Reopened(r))
      BY Zenon
    <3>2. processingStatus'[r] = processingStatus[r]
          \/ /\ processingStatus'[r] = "processing"
             /\ r \in {RunOf[s] : s \in recovered'} /\ Reopened(r)
      BY DEF TypeOK, CatalogueTypeOK, Reopened
    <3> QED BY <3>1, <3>2
  <2>6. RunCompletion'
    BY <2>5 DEF RunInv, RunCompletion
  <2>7. ShownInv'
    BY <2>3, AvailableGrows DEF RunInv, ShownInv
  <2>8. CompleteRunIsWhole'
    BY <2>5 DEF RunInv, CompleteRunIsWhole, Available, SourcesOf
  <2> QED BY <2>4, <2>6, <2>7, <2>8 DEF RunInv
<1>2. ASSUME Look PROVE RunInv'
  <2> USE <1>2 DEF Look, catalogueVars, sourceRows, assetRows, runRows
  <2>1. AssetsStay
    BY DEF AssetsStay
  <2>2. ManifestInv'
    BY DEF RunInv, ManifestInv, Promised
  <2> QED BY <2>1, <2>2, SameRunsKeepRunInv
<1>3. ASSUME Queue PROVE RunInv'
  <2> USE <1>3 DEF sourceRows, assetRows, runRows
  <2>1. PICK S : /\ todo' = {RunOf[s] : s \in S}
                 /\ S \subseteq recovered \cup found
    BY DEF Queue, Choose
  <2>2. \A s \in recovered \cup found : s \in Sources /\ source[s] # "absent"
    BY DEF Queue, TypeOK, RunInv, ManifestInv
  <2>3. \A r \in todo' : Promised(r)
    BY <2>1, <2>2 DEF RunInv, ManifestInv
  <2>4. ManifestInv'
    BY <2>3 DEF Queue, RunInv, ManifestInv, Promised
  <2>5. AssetsStay
    BY DEF AssetsStay, Queue
  <2> QED BY <2>4, <2>5, SameRunsKeepRunInv DEF Queue
<1>4. ASSUME NEW r \in Runs, Register(r) PROVE RunInv'
  <2> USE <1>4 DEF Register, RegisterManifest, assetRows
  <2>1. \A s \in Sources :
            /\ source'[s] # "absent" <=> source[s] # "absent" \/ s \in found \cap SourcesOf(r)
            /\ s \in SourcesOf(r) <=> RunOf[s] = r
    BY DEF TypeOK, CatalogueTypeOK, Gone, SourcesOf
  <2>2. /\ expected'[r] >= Expected[r]
        /\ \A q \in Runs \ {r} : expected'[q] = expected[q]
    BY DEF TypeOK, CatalogueTypeOK
  <2>3. ManifestInv'
    BY <2>1, <2>2 DEF RunInv, ManifestInv, Promised, TypeOK
  <2>4. \A q \in Runs :
            /\ completed'[q] => completed[q] /\ processingStatus'[q] = processingStatus[q]
            /\ processingStatus'[q] \in {processingStatus[q], "processing"}
    <3> SUFFICES ASSUME NEW q \in Runs
                 PROVE  /\ completed'[q] => completed[q]
                                            /\ processingStatus'[q] = processingStatus[q]
                        /\ processingStatus'[q] \in {processingStatus[q], "processing"}
      OBVIOUS
    <3>1. CASE q # r
      BY <3>1 DEF TypeOK, CatalogueTypeOK
    <3>2. CASE q = r
      <4> DEFINE still == completed[r] /\ sourceStatus[r] # "expired"
                                       /\ processingStatus[r] # "expired"
      <4>1. completed'[r] = still
        <5>1. completed' = [completed EXCEPT ![r] = still]
          OBVIOUS
        <5> HIDE DEF still
        <5> QED BY <5>1 DEF TypeOK, CatalogueTypeOK
      <4>2. processingStatus'[r] = IF completed[r] /\ processingStatus[r] # "expired"
                                   THEN processingStatus[r] ELSE "processing"
        BY DEF TypeOK, CatalogueTypeOK
      <4> QED BY <3>2, <4>1, <4>2
    <3> QED BY <3>1, <3>2
  <2>5. RunCompletion'
    BY <2>4 DEF RunInv, RunCompletion
  <2>6. ShownInv'
    <3>1. AssetsStay
      BY DEF AssetsStay
    <3> QED BY <3>1, AvailableGrows DEF RunInv, ShownInv
  <2>7. CompleteRunIsWhole'
    BY <2>4 DEF RunInv, CompleteRunIsWhole, Available, SourcesOf
  <2> QED BY <2>3, <2>5, <2>6, <2>7 DEF RunInv
<1> QED BY <1>1, <1>2, <1>3, <1>4

\* A finalized run is completed, shown and reported complete as the invariant
\* of the runs demands; the others are left alone.
LEMMA FinalizeKeepsRunInv ==
    ASSUME TypeOK, RunInv, NEW r \in Runs, Finalize(r)
    PROVE  RunInv'
<1> USE DEF Finalize, sourceRows, assetRows
<1> DEFINE registered == {s \in SourcesOf(r) : InUse(s)}
<1>1. \A q \in Runs \ {r} :
            /\ completed'[q] = completed[q] /\ processingStatus'[q] = processingStatus[q]
            /\ visible'[q] = visible[q] /\ expected'[q] = expected[q]
  BY DEF FinalizeProductRun, TypeOK, CatalogueTypeOK
<1>2. completed'[r] = Ends(r) /\ visible'[r] = Shows(r)
  <2>1. completed' = [completed EXCEPT ![r] = Ends(r)]
        /\ visible' = [visible EXCEPT ![r] = Shows(r)]
    BY DEF FinalizeProductRun
  <2> QED BY <2>1 DEF TypeOK, CatalogueTypeOK
<1>3. \/ Available(r) = {} /\ processingStatus'[r] = "failed"
      \/ Available(r) # {} /\ Lacks(r) /\ processingStatus'[r] = "partially_available"
      \/ /\ Available(r) # {} /\ ~Lacks(r)
         /\ processingStatus'[r] \in {"complete_with_warnings", "complete"}
  BY DEF FinalizeProductRun, TypeOK, CatalogueTypeOK
<1>4. Cardinality(registered) \in Nat /\ Cardinality(Available(r)) \in Nat
  BY CountType DEF SourcesOf, Available
<1>5. expected'[r] >= expected[r] /\ expected'[r] \in Nat
  <2>1. expected' = [expected EXCEPT ![r] =
                        IF @ > Cardinality(registered) THEN @ ELSE Cardinality(registered)]
    BY DEF FinalizeProductRun
  <2> QED BY <1>4, <2>1 DEF TypeOK, CatalogueTypeOK
<1>6. Promised(r)
  BY DEF RunInv, ManifestInv
<1>7. RunCompletion'
  BY <1>1, <1>2, <1>3 DEF RunInv, RunCompletion, Ends
<1>8. ManifestInv'
  <2>1. \A q \in Runs : expected[q] \in Nat /\ Expected[q] \in Nat
    BY DEF TypeOK, CatalogueTypeOK
  <2>2. \A q \in Runs : expected[q] >= Expected[q] => expected'[q] >= Expected[q]
    <3> TAKE q \in Runs
    <3>1. CASE q = r
      <4>1. expected[r] \in Nat /\ Expected[r] \in Nat /\ expected'[r] \in Nat
        BY <1>5, <2>1
      <4> QED BY <1>5, <3>1, <4>1
    <3>2. CASE q # r
      BY <1>1, <3>2
    <3> QED BY <3>1, <3>2
  <2> QED BY <2>2 DEF RunInv, ManifestInv, Promised, TypeOK
<1>9. ShownInv'
  <2>1. \A q \in Runs : Shows(q)' = Shows(q)
    BY DEF Shows, Core, Available, SourcesOf
  <2> QED BY <1>1, <1>2, <2>1 DEF RunInv, ShownInv
<1>10. CompleteRunIsWhole'
  <2>1. \A q \in Runs : Available(q)' = Available(q)
    BY DEF Available, SourcesOf
  <2>2. ~Lacks(r) => Cardinality(Available(r)) >= Expected[r]
    BY <1>4, <1>6 DEF Lacks, Promised, TypeOK, CatalogueTypeOK
  <2> QED BY <1>1, <1>3, <2>1, <2>2 DEF RunInv, CompleteRunIsWhole
<1> QED BY <1>7, <1>8, <1>9, <1>10 DEF RunInv

\* Every step keeps the invariant of the runs.
LEMMA NextKeepsRunInv == TypeOK /\ RunInv /\ [Next]_vars => RunInv'
<1> SUFFICES ASSUME TypeOK, RunInv, [Next]_vars PROVE RunInv'
  OBVIOUS
<1>1. ASSUME NEW from \in {"downloading", "validating", "converting"}, NEW where,
             NEW to, NextStage(from, where, to),
             to \in {"validating", "converting", "finalizing"}
      PROVE  RunInv'
  <2>1. CASE SomeFailed
    BY <1>1, <2>1, EndBatchKeepsRunInv DEF NextStage
  <2>2. CASE ~SomeFailed
    <3> USE <1>1, <2>2 DEF NextStage, catalogueVars, sourceRows, assetRows, runRows, batchVars
    <3>1. ManifestInv'
      BY DEF RunInv, ManifestInv, Promised
    <3>2. AssetsStay
      BY DEF AssetsStay
    <3> QED BY <3>1, <3>2, SameRunsKeepRunInv
  <2> QED BY <2>1, <2>2
<1>2. CASE DagStep
  BY <1>1, <1>2, DiscoveryKeepsRunInv, FinalizeKeepsRunInv, TasksKeepRunInv,
     EndBatchKeepsRunInv DEF DagStep, FinishBatch
<1>3. CASE Faults
  BY <1>3, TasksKeepRunInv, EndBatchKeepsRunInv
     DEF Faults, LoseDiscovery, LoseFinalization
<1>4. CASE Environment \/ UNCHANGED vars
  BY <1>4, TasksKeepRunInv
<1> QED BY <1>2, <1>3, <1>4 DEF Next

-----------------------------------------------------------------------------
(* The invariant, and the safety properties that follow from it.           *)

\* The inductive invariant holds in every reachable state.
THEOREM Inductive == Spec => []IInv
<1>1. Init => IInv
  BY InitTypes, InitSourceInv, InitRunInv DEF IInv
<1>2. IInv /\ [Next]_vars => IInv'
  BY NextTypes, NextKeepsSourceInv, NextKeepsRunInv DEF IInv
<1> QED BY <1>1, <1>2, PTL DEF Spec

\* Every variable keeps its type.
THEOREM TypeCorrect == Spec => []TypeOK
<1>1. IInv => TypeOK
  BY DEF IInv
<1> QED BY <1>1, Inductive, PTL

\* No statement ever meets the constraint source_object_downloaded_metadata_ck.
THEOREM MetadataKept == Spec => []DownloadedMetadata
<1>1. IInv => DownloadedMetadata
  BY DEF IInv, SourceInv
<1> QED BY <1>1, Inductive, PTL

\* A source whose row says downloaded has its raw file, wherever attempts and
\* connections broke.
THEOREM DownloadsExist == Spec => []DownloadedFileExists
<1>1. IInv => DownloadedFileExists
  BY DEF IInv, SourceInv
<1> QED BY <1>1, Inductive, PTL

\* A source is given up only outside the retry window.
THEOREM GapsAreOld == Spec => []GapIsOld
<1>1. IInv => GapIsOld
  BY DEF IInv, SourceInv
<1> QED BY <1>1, Inductive, PTL

\* No statement ever meets the constraint product_run_completion_ck.
THEOREM CompletionKept == Spec => []RunCompletion
<1>1. IInv => RunCompletion
  BY DEF IInv, RunInv
<1> QED BY <1>1, Inductive, PTL

\* A visible run has an available asset for every required field.
THEOREM CoreKept == Spec => []VisibleRunHasCore
<1>1. IInv => VisibleRunHasCore
  BY DEF IInv, RunInv, ShownInv, VisibleRunHasCore, Shows
<1> QED BY <1>1, Inductive, PTL

\* A run that is reported complete is as large as its manifest promised.
THEOREM CompleteIsWhole == Spec => []CompleteRunIsWhole
<1>1. IInv => CompleteRunIsWhole
  BY DEF IInv, RunInv
<1> QED BY <1>1, Inductive, PTL

\* An AMQP delivery is removed only when its COG is registered and there.
THEOREM DeliveriesKept == Spec => InboxKeptUntilRegistered
<1> DEFINE Kept == \A s \in Sources : inbox[s] /\ ~inbox'[s] =>
                        asset'[s] = "available" /\ cog'[s] # 0
<1> USE DEF catalogueVars, files, assetRows
<1>1. ASSUME IInv, Queue PROVE Kept
  BY <1>1, Zenon DEF Queue, Current
<1>2. ASSUME IInv, NEW s \in Sources, ConsumeInbox(s) PROVE Kept
  <2>1. asset[s] = "available" /\ cog[s] # 0
    BY <1>2 DEF ConsumeInbox, IInv, SourceInv, TaskInv
  <2>2. \A q \in Sources \ {s} : inbox'[q] = inbox[q]
    BY <1>2 DEF ConsumeInbox, IInv, TypeOK, CatalogueTypeOK
  <2> QED BY <1>2, <2>1, <2>2 DEF ConsumeInbox
<1>3. ASSUME IInv, NEW s \in Sources, Deliver(s) PROVE Kept
  BY <1>3 DEF Deliver, IInv, TypeOK, CatalogueTypeOK
<1>4. ASSUME UNCHANGED inbox PROVE Kept
  BY <1>4
<1>5. ASSUME IInv, Next PROVE Kept
  <2>1. CASE DagStep
    <3>1. ASSUME NEW s \in Sources, TaskStep(s), ~ConsumeInbox(s) PROVE UNCHANGED inbox
      BY <3>1 DEF TaskStep, BeginDownload, Fetch, MarkDownloaded, MarkFailed, Validate,
                  StartCog, FinishCog, RegisterAsset
    <3>2. ASSUME Recover \/ Look \/ FinishBatch \/ \E r \in Runs : Register(r) \/ Finalize(r)
          PROVE  UNCHANGED inbox
      BY <3>2 DEF Recover, Look, FinishBatch, EndBatch, Register, Finalize
    <3>3. ASSUME NEW from, NEW where, NEW to, NextStage(from, where, to)
          PROVE  UNCHANGED inbox
      BY <3>3 DEF NextStage, EndBatch
    <3> QED BY <1>1, <1>2, <1>4, <1>5, <2>1, <3>1, <3>2, <3>3 DEF DagStep
  <2>2. CASE Faults
    BY <1>4, <2>2 DEF Faults, LoseDiscovery, LoseFinalization, EndBatch, FailDownload, KillTask
  <2>3. CASE Environment
    BY <1>3, <1>4, <1>5, <2>3 DEF Environment, ChangeConversion
  <2> QED BY <1>5, <2>1, <2>2, <2>3 DEF Next
<1>6. IInv /\ [Next]_vars => [Kept]_vars
  BY <1>5
<1> QED BY <1>6, Inductive, PTL DEF Spec, InboxKeptUntilRegistered

-----------------------------------------------------------------------------
(* Refinement: the DAG of a product without left-overs implements the      *)
(* archive.                                                                *)

\* No run was left behind by the retired retention policy.
NothingLeft == \A r \in Runs : Leftover[r] = "nothing"

\* The refinement mapping.
Slots == [s \in Sources |-> SlotOf(s)]
Shown == {r \in Runs : visible[r]}

\* Without left-overs the archive starts empty.
LEMMA InitRefines == NothingLeft /\ Init => Archive!Init
<1> SUFFICES ASSUME NothingLeft, Init PROVE Archive!Init
  OBVIOUS
<1> USE DEF NothingLeft, Init, CatalogueInit
<1>1. \A r \in Runs : LeftSource(r) = {"absent"} /\ LeftAsset(r) = {"absent"}
  BY Zenon DEF LeftSource, LeftAsset
<1>2. \A s \in Sources : source[s] = "absent" /\ asset[s] = "absent"
  <2> TAKE s \in Sources
  <2>1. source[s] \in LeftSource(RunOf[s]) /\ asset[s] \in LeftAsset(RunOf[s])
    OBVIOUS
  <2>2. RunOf[s] \in Runs
    OBVIOUS
  <2>3. LeftSource(RunOf[s]) = {"absent"} /\ LeftAsset(RunOf[s]) = {"absent"}
    BY <1>1, <2>2, Zenon
  <2> QED BY <2>1, <2>3
<1>3. \A s \in Sources : SlotOf(s) = "unknown"
  BY <1>2 DEF SlotOf
<1>4. \A r \in Runs : ~visible[r]
  OBVIOUS
<1> QED BY <1>3, <1>4 DEF Archive!Init

\* Steps that the archive does not see.
LEMMA HiddenStep ==
    ASSUME UNCHANGED visible, \A s \in Sources : SlotOf(s)' = SlotOf(s)
    PROVE  UNCHANGED Archive!archive
BY DEF Archive!archive

\* A step that changes one slot in a way the archive allows is a step of it.
LEMMA OneSlotMoves ==
    ASSUME NEW s \in Sources, UNCHANGED visible,
           \A q \in Sources \ {s} : SlotOf(q)' = SlotOf(q),
           <<SlotOf(s), SlotOf(s)'>> \in
                {<<"known", "published">>, <<"known", "gap">>, <<"gap", "known">>}
    PROVE  Archive!Next
<1>1. Slots' = [Slots EXCEPT ![s] = SlotOf(s)']
  BY DEF Slots
<1>2. Archive!Move(s, SlotOf(s), SlotOf(s)')
  BY <1>1 DEF Archive!Move, Slots
<1> QED BY <1>2 DEF Archive!Next

\* Mapped tasks publish a slot, find a gap, take it back, or stay hidden.
LEMMA TasksRefine ==
    ASSUME TypeOK, SourceInv, NEW s \in Sources,
           TaskStep(s) \/ FailDownload(s) \/ KillTask(s)
    PROVE  [Archive!Next]_(Archive!archive)
<1>1. OnlyTouches(s) /\ SourceFits(s)
  BY TasksTouchOneSource, SourceInvFits
<1>2. \A q \in Sources \ {s} : SlotOf(q)' = SlotOf(q)
  BY <1>1 DEF OnlyTouches, SlotOf
<1> DEFINE Allowed == \/ SlotOf(s)' = SlotOf(s)
                      \/ <<SlotOf(s), SlotOf(s)'>> \in
                            {<<"known", "published">>, <<"known", "gap">>, <<"gap", "known">>}
<1>3. UNCHANGED visible /\ Allowed
  <2> USE DEF TypeOK, CatalogueTypeOK, SlotOf, catalogueVars, sourceRows, assetRows, runRows, files
  <2>1. CASE BeginDownload(s)
    BY <2>1 DEF BeginDownload, BeginSourceDownload, InUse
  <2>2. CASE Fetch(s)
    BY <2>2 DEF Fetch
  <2>3. CASE MarkDownloaded(s)
    BY <2>3 DEF MarkDownloaded, MarkSourceDownloaded
  <2>4. CASE MarkFailed(s)
    BY <2>4 DEF MarkFailed, MarkSourceFailed, InUse
  <2>5. CASE Validate(s)
    BY <2>5 DEF Validate
  <2>6. CASE StartCog(s)
    BY <2>6 DEF StartCog
  <2>7. CASE FinishCog(s)
    BY <2>7 DEF FinishCog
  <2>8. CASE RegisterAsset(s)
    BY <1>1, <2>8 DEF RegisterAsset, UpsertAsset, SourceFits
  <2>9. CASE ConsumeInbox(s)
    BY <2>9 DEF ConsumeInbox
  <2>10. CASE FailDownload(s)
    BY <2>10 DEF FailDownload, MarkSourceDownloaded
  <2>11. CASE KillTask(s)
    BY <2>11 DEF KillTask
  <2> QED BY <2>1, <2>2, <2>3, <2>4, <2>5, <2>6, <2>7, <2>8, <2>9, <2>10, <2>11 DEF TaskStep
<1> QED BY <1>2, <1>3, HiddenStep, OneSlotMoves

\* A registration discovers the slots of one run.
LEMMA RegisterRefines ==
    ASSUME TypeOK, SourceInv, NEW r \in Runs, Register(r)
    PROVE  [Archive!Next]_(Archive!archive)
<1> DEFINE S == {s \in found \cap SourcesOf(r) : SlotOf(s) = "unknown"}
<1> USE DEF Register, RegisterManifest, assetRows
<1>1. \A s \in Sources : SlotOf(s)' = IF s \in S THEN "known" ELSE SlotOf(s)
  BY DEF TypeOK, CatalogueTypeOK, SourceInv, GapIsOld, SlotOf, Gone
<1>2. UNCHANGED visible
  OBVIOUS
<1>3. S \in SUBSET Sources /\ \A s \in S : RunOf[s] = r /\ SlotOf(s) = "unknown"
  BY DEF SourcesOf
<1> HIDE DEF S
<1>4. Archive!Discover(S)
  BY <1>1, <1>2, <1>3 DEF Archive!Discover
<1> QED BY <1>3, <1>4 DEF Archive!Next

\* A finalization shows a run with its core, or changes nothing the archive
\* sees.
LEMMA FinalizeRefines ==
    ASSUME TypeOK, RunInv, NothingLeft, NEW r \in Runs, Finalize(r)
    PROVE  [Archive!Next]_(Archive!archive)
<1> USE DEF Finalize, sourceRows, assetRows
<1>1. \A s \in Sources : SlotOf(s)' = SlotOf(s)
  BY DEF SlotOf
<1>2. visible' = [visible EXCEPT ![r] = Shows(r)]
  BY DEF FinalizeProductRun
<1>3. visible[r] => Shows(r)
  BY DEF RunInv, ShownInv, NothingLeft
<1>4. Slots' = Slots
  BY <1>1 DEF Slots
<1>5. CASE ~Shows(r)
  <2>1. Shown' = Shown
    BY <1>2, <1>3, <1>5 DEF Shown, TypeOK, CatalogueTypeOK
  <2> QED BY <1>4, <2>1 DEF Archive!archive, Slots, Shown
<1>6. CASE Shows(r)
  <2>1. Shown' = Shown \cup {r}
    BY <1>2, <1>6 DEF Shown, TypeOK, CatalogueTypeOK
  <2>2. Archive!Published(r) = Available(r)
    BY DEF Archive!Published, Available, SourcesOf, SlotOf
  <2>3. Archive!HasCore(r)
    BY <1>6, <2>2 DEF Archive!HasCore, Shows, Core
  <2>4. Archive!Show(r)
    BY <1>4, <2>1, <2>3 DEF Archive!Show, Slots, Shown
  <2> QED BY <2>4 DEF Archive!Next
<1> QED BY <1>5, <1>6

\* Every step of the DAG and its environment is a step of the archive, or none.
LEMMA NextRefines ==
    ASSUME NothingLeft, IInv, [Next]_vars
    PROVE  [Archive!Next]_(Archive!archive)
<1> USE DEF catalogueVars, sourceRows, assetRows, runRows
<1>0. TypeOK /\ SourceInv /\ RunInv
  BY DEF IInv
<1> DEFINE Hidden == UNCHANGED <<source, gap, asset, visible>>
<1>1. ASSUME Hidden PROVE UNCHANGED Archive!archive
  BY <1>1, HiddenStep DEF SlotOf
<1>2. ASSUME Recover PROVE UNCHANGED Archive!archive
  <2>1. \A s \in recovered' : source[s] # "absent"
    BY <1>2, FirstIsPart DEF Recover, Recoverable
  <2>2. \A s \in Sources : SlotOf(s)' = SlotOf(s)
    BY <1>0, <1>2, <2>1 DEF Recover, Revive, SlotOf, TypeOK, CatalogueTypeOK, Gone
  <2> QED BY <1>2, <2>2, HiddenStep DEF Recover, Revive
<1>3. ASSUME Look \/ Queue \/ EndBatch PROVE Hidden
  BY <1>3 DEF Look, Queue, EndBatch
<1>4. ASSUME NEW from, NEW where, NEW to, NextStage(from, where, to) PROVE Hidden
  BY <1>3, <1>4 DEF NextStage
<1>5. CASE DagStep
  BY <1>0, <1>1, <1>2, <1>3, <1>4, <1>5, TasksRefine, RegisterRefines, FinalizeRefines
     DEF DagStep, FinishBatch
<1>6. CASE Faults
  BY <1>0, <1>1, <1>3, <1>6, TasksRefine DEF Faults, LoseDiscovery, LoseFinalization
<1>7. CASE Environment
  BY <1>1, <1>7 DEF Environment, Deliver, ChangeConversion
<1>8. CASE UNCHANGED vars
  BY <1>1, <1>8 DEF vars
<1> QED BY <1>5, <1>6, <1>7, <1>8 DEF Next

\* A product without left-overs of the retired policy keeps what the archive
\* promises: published slots and shown runs stay, and a run is shown with its
\* core only.
THEOREM Refinement ==
    ASSUME \A r \in Runs : Leftover[r] = "nothing"
    PROVE  Spec => ImplementsArchive
<1>0. NothingLeft
  BY DEF NothingLeft
<1>1. Init => Archive!Init
  BY <1>0, InitRefines
<1>2. ASSUME IInv, [Next]_vars PROVE [Archive!Next]_(Archive!archive)
  BY <1>0, <1>2, NextRefines
<1> QED BY <1>1, <1>2, Inductive, PTL DEF Spec, ImplementsArchive, Archive!Spec
=============================================================================
