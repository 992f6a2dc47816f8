------------------------------ MODULE Ingestion ------------------------------
(***************************************************************************)
(* One configured ingestion DAG (eccc_ingestion.py), its tasks, and the    *)
(* provider it reads from.                                                 *)
(*                                                                         *)
(* max_active_runs=1: at most one batch exists.  The mapped tasks of a     *)
(* batch run side by side; Airflow starts a stage when every task of the   *)
(* stage before has ended, and skips the rest of the batch when one of     *)
(* them has failed.  A task attempt may end anywhere, with an exception or *)
(* because its process is killed.                                          *)
(***************************************************************************)
EXTENDS Catalogue

CONSTANTS
    Limit,              \* maximum_objects_per_run
    DownloadRetries,    \* retries of download_source
    CogRetries,         \* retries of create_cog
    Invalid,            \* sources that never pass validate_source
    Unfit,              \* sources whose COG never passes the checks of create_cog
    MaxFaults           \* bound: attempts that end in a fault

ASSUME IngestionAssumption ==
    /\ Limit \in Nat \ {0}
    /\ DownloadRetries \in Nat
    /\ CogRetries \in Nat
    /\ Invalid \subseteq Sources
    /\ Unfit \subseteq Sources
    /\ MaxFaults \in Nat

VARIABLES
    offer,      \* the provider does not serve s yet, serves it, or no longer
    recent,     \* runs inside discovery.retry_window_hours
    stage,      \* where the batch is
    recovered,  \* sources recover_source_requests returned
    found,      \* sources the inventory or the inbox showed
    viaInbox,   \* found or requested sources with an inbox path
    batch,      \* the sources the mapped tasks were expanded over
    todo,       \* runs still to register, later: to finalize
    task,       \* where the mapped tasks of s are
    tries,      \* retries used by the current task of s
    faults

batchVars == <<recovered, found, viaInbox, batch, todo>>
taskVars == <<task, tries>>
providerVars == <<offer, recent>>
dagVars == <<stage, batchVars, taskVars, providerVars, faults>>
vars == <<catalogueVars, dagVars>>

Stages == {"idle", "looking", "registering", "downloading", "validating",
           "converting", "finalizing"}

\* A task waits for its first or next attempt in "ready" (download_source),
\* "downloaded" (validate_source) and "valid" (create_cog).
Tasks == {"none", "ready", "fetching", "fetched", "raised", "refused",
          "downloaded", "skipped", "failed", "valid", "converting",
          "converted", "registered", "published"}

RecoveryLimit == IF (Limit * 3) \div 4 > 1 THEN (Limit * 3) \div 4 ELSE 1

TypeOK ==
    /\ CatalogueTypeOK
    /\ offer \in [Sources -> {"later", "now", "gone"}]
    /\ recent \subseteq Runs
    /\ stage \in Stages
    /\ recovered \subseteq Sources
    /\ found \subseteq Sources
    /\ viaInbox \subseteq Sources
    /\ batch \subseteq Sources
    /\ todo \subseteq Runs
    /\ task \in [Sources -> Tasks]
    /\ tries \in [Sources -> Nat]
    /\ faults \in 0..MaxFaults

Init ==
    /\ CatalogueInit
    /\ offer = [s \in Sources |->
                    IF Leftover[RunOf[s]] = "nothing" THEN "later" ELSE "now"]
    /\ recent = {r \in Runs : Leftover[r] = "nothing"}
    /\ stage = "idle"
    /\ recovered = {} /\ found = {} /\ viaInbox = {} /\ batch = {} /\ todo = {}
    /\ task = [s \in Sources |-> "none"]
    /\ tries = [s \in Sources |-> 0]
    /\ faults = 0

-----------------------------------------------------------------------------
(* The provider, Sarracenia, the clock and the operator.                   *)

Publish(s) ==
    /\ offer[s] = "later"
    /\ offer' = [offer EXCEPT ![s] = "now"]
    /\ UNCHANGED recent

Withdraw(s) ==
    /\ offer[s] = "now"
    /\ offer' = [offer EXCEPT ![s] = "gone"]
    /\ UNCHANGED recent

\* A run leaves the retry window, the oldest first.
Age(r) ==
    /\ r \in recent
    /\ \A q \in recent : r <= q
    /\ recent' = recent \ {r}
    /\ UNCHANGED offer

Deliver(s) ==
    /\ offer[s] = "now"
    /\ ~inbox[s]
    /\ inbox' = [inbox EXCEPT ![s] = TRUE]
    /\ UNCHANGED <<sourceRows, assetRows, runRows, raw, cog, confKey, dagVars>>

ChangeConversion ==
    /\ confKey < MaxKey
    /\ confKey' = confKey + 1
    /\ UNCHANGED <<sourceRows, assetRows, runRows, files, dagVars>>

Environment ==
    \/ /\ \E s \in Sources : Publish(s) \/ Withdraw(s)
       /\ UNCHANGED <<catalogueVars, stage, batchVars, taskVars, faults>>
    \/ \E r \in Runs : Age(r)
       /\ UNCHANGED <<catalogueVars, stage, batchVars, taskVars, faults>>
    \/ \E s \in Sources : Deliver(s)
    \/ ChangeConversion

-----------------------------------------------------------------------------
(* discover_and_register.                                                  *)

\* The slot's asset is available, was made with the current conversion, and
\* its COG is there (_asset_is_current, _published_asset_exists).
Current(s) == asset[s] = "available" /\ key[s] = confKey /\ cog[s] # 0

Choose(S, n) == {T \in SUBSET S : Cardinality(T) = IF Cardinality(S) < n
                                                   THEN Cardinality(S) ELSE n}

Recover ==
    /\ stage = "idle"
    /\ recovered' = First(Recoverable, RecoveryLimit)
    /\ Revive(recovered')
    /\ stage' = "looking"
    /\ UNCHANGED <<assetRows, files, confKey, found, viaInbox, batch, todo,
                   taskVars, providerVars, faults>>

\* What the inventory of the recent runs lists for missing slots, newest runs
\* first, and what waits in the inbox.
Missing == {s \in Sources : RunOf[s] \in recent /\ offer[s] = "now" /\ ~Current(s)}
Delivered == {s \in Sources : inbox[s]}

Look ==
    /\ stage = "looking"
    /\ \E listed \in Choose(Missing, Limit), waiting \in Choose(Delivered, Limit) :
        /\ \A s \in listed, q \in Missing \ listed : RunOf[s] >= RunOf[q]
        /\ found' = listed \cup waiting
        /\ viaInbox' = waiting
        /\ todo' = {RunOf[s] : s \in listed \cup waiting}
    /\ stage' = "registering"
    /\ UNCHANGED <<catalogueVars, recovered, batch, taskVars, providerVars, faults>>

Register(r) ==
    /\ stage = "registering"
    /\ r \in todo
    /\ RegisterManifest(r, found \cap SourcesOf(r))
    /\ todo' = todo \ {r}
    /\ UNCHANGED <<assetRows, files, confKey, stage, recovered, found, viaInbox,
                   batch, taskVars, providerVars, faults>>

\* Found sources that are published are skipped, their delivery is consumed;
\* the requests are cut off at the limit, recovered sources first.
Queue ==
    /\ stage = "registering"
    /\ todo = {}
    /\ LET done == {s \in found : Current(s)}
           old == recovered \ done
           new == found \ (done \cup recovered)
       IN
       /\ inbox' = [s \in Sources |-> inbox[s] /\ s \notin done \cap viaInbox]
       /\ \E added \in Choose(new, Limit - Cardinality(old)) :
            /\ batch' = old \cup added
            /\ todo' = {RunOf[s] : s \in old \cup added}
            /\ task' = [s \in Sources |-> IF s \in old \cup added THEN "ready" ELSE "none"]
            /\ viaInbox' = viaInbox \cap (old \cup added)
    /\ recovered' = {} /\ found' = {}
    /\ stage' = "downloading"
    /\ UNCHANGED <<sourceRows, assetRows, runRows, raw, cog, confKey, tries,
                   providerVars, faults>>

\* What is left of a batch that has ended, in whatever way.
EndBatch ==
    /\ stage' = "idle"
    /\ recovered' = {} /\ found' = {} /\ viaInbox' = {} /\ batch' = {} /\ todo' = {}
    /\ task' = [s \in Sources |-> "none"]
    /\ tries' = [s \in Sources |-> 0]
    /\ UNCHANGED <<catalogueVars, providerVars>>

-----------------------------------------------------------------------------
(* download_source.                                                        *)

Goto(s, where) == task' = [task EXCEPT ![s] = where] /\ UNCHANGED tries

\* The attempt ends with an exception; the task is repeated, or has failed.
AttemptFails(s, again, retries) ==
    IF tries[s] < retries
    THEN /\ task' = [task EXCEPT ![s] = again]
         /\ tries' = [tries EXCEPT ![s] = @ + 1]
    ELSE Goto(s, "failed")

\* The identity check and the compare-and-set refuse a source that retention
\* has taken; the exception is outside the try statement.
BeginDownload(s) ==
    /\ task[s] = "ready"
    /\ IF InUse(s)
       THEN BeginSourceDownload(s) /\ Goto(s, "fetching")
       ELSE AttemptFails(s, "ready", DownloadRetries) /\ UNCHANGED sourceRows
    /\ UNCHANGED <<assetRows, runRows, files, confKey, stage, batchVars,
                   providerVars, faults>>

\* Mutant: every 404 is final.
FetchOnce(s) ==
    /\ task[s] = "fetching"
    /\ IF (s \in viaInbox /\ inbox[s]) \/ (s \notin viaInbox /\ (raw[s] \/ offer[s] = "now"))
       THEN raw' = [raw EXCEPT ![s] = TRUE] /\ Goto(s, "fetched")
       ELSE Goto(s, "refused") /\ UNCHANGED raw
    /\ UNCHANGED <<sourceRows, assetRows, runRows, cog, inbox, confKey, stage,
                   batchVars, providerVars, faults>>

\* stage_inbox_file, or StreamingDownloader.download: a raw file that is there
\* is reused.  classify_source_failure: a 404 is final outside the window.
Fetch(s) ==
    /\ task[s] = "fetching"
    /\ IF (s \in viaInbox /\ inbox[s]) \/ (s \notin viaInbox /\ (raw[s] \/ offer[s] = "now"))
       THEN raw' = [raw EXCEPT ![s] = TRUE] /\ Goto(s, "fetched")
       ELSE /\ Goto(s, IF s \notin viaInbox /\ RunOf[s] \notin recent
                       THEN "refused" ELSE "raised")
            /\ UNCHANGED raw
    /\ UNCHANGED <<sourceRows, assetRows, runRows, cog, inbox, confKey, stage,
                   batchVars, providerVars, faults>>

\* Mutant: the row is marked before the file is there.
MarkDownloadedEarly(s) ==
    /\ task[s] \in {"fetching", "fetched"}
    /\ MarkSourceDownloaded(s)
    /\ UNCHANGED taskVars
    /\ UNCHANGED <<assetRows, runRows, files, confKey, stage, batchVars,
                   providerVars, faults>>

MarkDownloaded(s) ==
    /\ task[s] = "fetched"
    /\ IF source[s] = "downloading"
       THEN /\ MarkSourceDownloaded(s)
            /\ task' = [task EXCEPT ![s] = "downloaded"]
            /\ tries' = [tries EXCEPT ![s] = 0]
       ELSE Goto(s, "raised") /\ UNCHANGED sourceRows
    /\ UNCHANGED <<assetRows, runRows, files, confKey, stage, batchVars,
                   providerVars, faults>>

\* The except clause: mark_source_failed, then skip or raise.
MarkFailed(s) ==
    /\ task[s] \in {"raised", "refused"}
    /\ IF InUse(s) THEN MarkSourceFailed(s, task[s] = "refused")
                   ELSE UNCHANGED sourceRows
    /\ IF task[s] = "refused" /\ InUse(s) THEN Goto(s, "skipped")
                              ELSE AttemptFails(s, "ready", DownloadRetries)
    /\ UNCHANGED <<assetRows, runRows, files, confKey, stage, batchVars,
                   providerVars, faults>>

-----------------------------------------------------------------------------
(* validate_source, which has no retries.                                  *)

Ended(where) == \A s \in batch : task[s] \in where \cup {"skipped", "failed"}
SomeFailed == \E s \in batch : task[s] = "failed"

\* A stage ends: with a failed task the stages after it never run.
NextStage(from, where, to) ==
    /\ stage = from
    /\ Ended(where)
    /\ IF SomeFailed
       THEN EndBatch
       ELSE stage' = to /\ UNCHANGED <<catalogueVars, batchVars, taskVars, providerVars>>
    /\ UNCHANGED faults

Validate(s) ==
    /\ stage = "validating"
    /\ task[s] = "downloaded"
    /\ Goto(s, IF InUse(s) /\ raw[s] /\ s \notin Invalid THEN "valid" ELSE "failed")
    /\ UNCHANGED <<catalogueVars, stage, batchVars, providerVars, faults>>

-----------------------------------------------------------------------------
(* create_cog.                                                             *)

\* GdalCogPipeline.create with replace_existing: the published COG goes first.
StartCog(s) ==
    /\ stage = "converting"
    /\ task[s] = "valid"
    /\ IF InUse(s) /\ raw[s]
       THEN cog' = [cog EXCEPT ![s] = 0] /\ Goto(s, "converting")
       ELSE AttemptFails(s, "valid", CogRetries) /\ UNCHANGED cog
    /\ UNCHANGED <<sourceRows, assetRows, runRows, raw, inbox, confKey, stage,
                   batchVars, providerVars, faults>>

\* Mutant: the delivery is consumed as soon as the COG is there.
FinishCogAndInbox(s) ==
    /\ task[s] = "converting"
    /\ cog' = [cog EXCEPT ![s] = confKey]
    /\ inbox' = [inbox EXCEPT ![s] = FALSE]
    /\ Goto(s, "converted")
    /\ UNCHANGED <<sourceRows, assetRows, runRows, raw, confKey, stage,
                   batchVars, providerVars, faults>>

\* Convert in staging, replace, and the checks of create_cog on the result.
FinishCog(s) ==
    /\ task[s] = "converting"
    /\ cog' = [cog EXCEPT ![s] = confKey]
    /\ IF s \in Unfit THEN AttemptFails(s, "valid", CogRetries) ELSE Goto(s, "converted")
    /\ UNCHANGED <<sourceRows, assetRows, runRows, raw, inbox, confKey, stage,
                   batchVars, providerVars, faults>>

\* sha256_file and stat need the file, then the row is upserted.
RegisterAsset(s) ==
    /\ task[s] = "converted"
    /\ IF cog[s] # 0
       THEN UpsertAsset(s) /\ Goto(s, "registered")
       ELSE AttemptFails(s, "valid", CogRetries) /\ UNCHANGED assetRows
    /\ UNCHANGED <<sourceRows, runRows, files, confKey, stage, batchVars,
                   providerVars, faults>>

ConsumeInbox(s) ==
    /\ task[s] = "registered"
    /\ inbox' = [inbox EXCEPT ![s] = @ /\ s \notin viaInbox]
    /\ Goto(s, "published")
    /\ UNCHANGED <<sourceRows, assetRows, runRows, raw, cog, confKey, stage,
                   batchVars, providerVars, faults>>

-----------------------------------------------------------------------------
(* finalize_run: one transaction per run of the batch, oldest id first.    *)

Finalize(r) ==
    /\ stage = "finalizing"
    /\ r \in todo
    /\ FinalizeProductRun(r)
    /\ todo' = todo \ {r}
    /\ UNCHANGED <<sourceRows, assetRows, files, confKey, stage, recovered, found,
                   viaInbox, batch, taskVars, providerVars, faults>>

FinishBatch ==
    /\ stage = "finalizing"
    /\ todo = {}
    /\ EndBatch
    /\ UNCHANGED faults

-----------------------------------------------------------------------------
(* Faults: an exception nothing above causes, or a killed process.         *)

Fault ==
    /\ faults < MaxFaults
    /\ faults' = faults + 1

\* Retries of discover_and_register, and the next DAG run, start from the top.
LoseDiscovery ==
    /\ stage \in {"looking", "registering"}
    /\ EndBatch

\* finalize_run has no retries.
LoseFinalization ==
    /\ stage = "finalizing"
    /\ EndBatch

\* Network, disk, or a connection that breaks after the commit of
\* mark_downloaded: the except clause runs.
FailDownload(s) ==
    /\ task[s] \in {"fetching", "fetched"}
    /\ IF task[s] = "fetched" /\ source[s] = "downloading"
       THEN MarkSourceDownloaded(s) \/ UNCHANGED sourceRows
       ELSE UNCHANGED sourceRows
    /\ Goto(s, "raised")
    /\ UNCHANGED <<assetRows, runRows, files, confKey, stage, batchVars, providerVars>>

\* The process is killed between two steps of an attempt.
KillTask(s) ==
    /\ \/ /\ task[s] \in {"fetching", "fetched", "raised", "refused"}
          /\ AttemptFails(s, "ready", DownloadRetries)
       \/ /\ stage = "validating" /\ task[s] = "downloaded"
          /\ Goto(s, "failed")
       \/ /\ task[s] \in {"converting", "converted", "registered"}
          /\ AttemptFails(s, "valid", CogRetries)
    /\ UNCHANGED <<catalogueVars, stage, batchVars, providerVars>>

Faults ==
    /\ Fault
    /\ \/ LoseDiscovery \/ LoseFinalization
       \/ \E s \in Sources : FailDownload(s) \/ KillTask(s)

-----------------------------------------------------------------------------
TaskStep(s) ==
    \/ BeginDownload(s) \/ Fetch(s) \/ MarkDownloaded(s) \/ MarkFailed(s)
    \/ Validate(s)
    \/ StartCog(s) \/ FinishCog(s) \/ RegisterAsset(s) \/ ConsumeInbox(s)

DagStep ==
    \/ Recover \/ Look \/ Queue
    \/ \E r \in Runs : Register(r) \/ Finalize(r)
    \/ NextStage("downloading", {"downloaded"}, "validating")
    \/ NextStage("validating", {"valid"}, "converting")
    \/ NextStage("converting", {"published"}, "finalizing")
    \/ \E s \in Sources : TaskStep(s)
    \/ FinishBatch

Next == DagStep \/ Faults \/ Environment

Spec == Init /\ [][Next]_vars

\* The scheduler starts a batch every hour and runs every task that is ready;
\* runs leave the retry window as time passes.  The provider owes nothing.
FairSpec ==
    /\ Spec
    /\ WF_vars(DagStep)
    /\ \A r \in Runs : WF_vars(Age(r) /\ UNCHANGED <<catalogueVars, stage, batchVars,
                                                     taskVars, faults>>)

-----------------------------------------------------------------------------
(* Properties.                                                             *)

\* The constraint source_object_downloaded_metadata_ck: whatever fails or is
\* revived in between, a downloaded row names its file and checksum.
DownloadedMetadata == \A s \in Sources : source[s] = "downloaded" => held[s]

\* The constraint product_run_completion_ck: no order of registrations,
\* recoveries and finalizations leaves a completion time on a run that is not
\* at an end.
RunCompletion ==
    \A r \in Runs : completed[r] =>
        processingStatus[r] \in {"complete", "complete_with_warnings", "failed", "expired"}

\* The timeline offers a run only with an available asset for every required
\* field, except a run the retired policy left half deleted.
VisibleRunHasCore ==
    \A r \in Runs : visible[r] /\ Leftover[r] # "interrupted" => Core(r)

\* A run that is reported complete has as many available assets as its
\* manifest promised, late registrations and later failures included.
CompleteRunIsWhole ==
    \A r \in Runs :
        processingStatus[r] \in {"complete", "complete_with_warnings"}
            /\ Leftover[r] # "interrupted"
        => Cardinality(Available(r)) >= Expected[r]

\* A row that says the raw file was downloaded is right, in whatever step the
\* attempt, or its connection, broke.
DownloadedFileExists == \A s \in Sources : source[s] = "downloaded" => raw[s]

\* Only a source the provider refused outside the publication window is given
\* up (docs/etl-recovery-2026-09-06.md: recent 404s and every other failure
\* are retried); it stays recorded as failed.
GapIsOld ==
    \A s \in Sources : gap[s] => source[s] = "failed" /\ RunOf[s] \notin recent

\* An AMQP delivery is removed only when its COG is registered and there, in
\* whatever step an attempt fails (create_cog, discover_and_register).
InboxKeptUntilRegistered ==
    [][\A s \in Sources : inbox[s] /\ ~inbox'[s] =>
            asset'[s] = "available" /\ cog'[s] # 0]_vars

\* When every source is valid, a registered one whose COG passes the checks ends
\* up published, or as a confirmed gap, after finitely many faults, whatever the
\* provider withdraws and whatever tasks fail for good: the next batch recovers
\* it.  Only a COG that was published and went with a conversion that failed,
\* after its run had left the window, is not made again (MissingCogIsRebuilt).
Settled(s) == (asset[s] = "available" /\ cog[s] # 0) \/ gap[s]
LostCog(s) == asset[s] = "available" /\ cog[s] = 0 /\ RunOf[s] \notin recent

\* With all runs new, the DAG keeps what the archive promises: a published
\* slot stays published and a run that is shown stays shown, with its core.
SlotOf(s) ==
    IF asset[s] = "available" THEN "published"
    ELSE IF source[s] = "absent" THEN "unknown"
    ELSE IF gap[s] THEN "gap" ELSE "known"

Archive == INSTANCE ProductArchive WITH
    Slots <- Sources,
    slot <- [s \in Sources |-> SlotOf(s)],
    shown <- {r \in Runs : visible[r]}
ImplementsArchive == Archive!Spec

-----------------------------------------------------------------------------
(* What the documentation says, and the code does not do.                  *)

\* docs/ingestion.md: the DAG "finalizes each run independently".  A run all
\* of whose assets are available becomes visible.
RunIsFinalized ==
    \A r \in Runs : Available(r) = SourcesOf(r) ~> visible[r]

\* docs/ingestion.md: room is kept for new objects, "preventing a backlog from
\* indefinitely delaying fresh data".  A source that is registered and fit is
\* published, whatever else waits.
FreshDataArrives ==
    \A s \in Sources \ (Invalid \cup Unfit) : source[s] # "absent" ~> Settled(s)

\* docs/ingestion.md: "A source with a retained raw file but a missing or
\* obsolete COG reuses the raw bytes and reruns ETL."  An asset that lost its
\* COG, while the raw file is there, gets one again.
MissingCogIsRebuilt ==
    \A s \in Sources \ (Invalid \cup Unfit) :
        asset[s] = "available" /\ cog[s] = 0 /\ raw[s] ~> cog[s] # 0
=============================================================================
