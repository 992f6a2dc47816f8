------------------------------ MODULE Catalogue ------------------------------
(***************************************************************************)
(* The rows and files of one ingested product, and the statements that     *)
(* change the rows.  A source object is one file of the provider; it fills *)
(* one slot (run, field, hour) and becomes one COG, so a source stands for *)
(* its source_object row, its raw file, its asset row and its COG as well. *)
(*                                                                         *)
(* Sources and runs are natural numbers: the id of the row and the run     *)
(* time.  A provider file is immutable, so a source has one checksum.      *)
(*                                                                         *)
(* A definition introduced by "Mutant:" is no part of the model: it is a   *)
(* plausible slip in the definition after it (see README.md).              *)
(***************************************************************************)
EXTENDS Naturals, FiniteSets

CONSTANTS
    Sources,    \* ids of source objects
    Runs,       \* run times
    RunOf,      \* RunOf[s]: the run a source belongs to
    FieldOf,    \* FieldOf[s]: the field its COG shows
    Required,   \* config.visibility.required_field_codes
    Expected,   \* Expected[r]: expected_processing_asset_count
    Leftover,   \* Leftover[r]: what the retired latest-run policy left of r
    MaxKey      \* bound: conversion keys the configuration goes through

ASSUME CatalogueAssumption ==
    /\ Sources \subseteq Nat /\ IsFiniteSet(Sources)
    /\ Runs \subseteq Nat
    /\ RunOf \in [Sources -> Runs]
    /\ Expected \in [Runs -> Nat]
    /\ Leftover \in [Runs -> {"nothing", "expired", "interrupted"}]
    /\ MaxKey \in Nat \ {0}

VARIABLES
    source,     \* source_object.status
    held,       \* source_object.local_raw_path, sha256, ... are set
    gap,        \* source_object.last_error_class = 'SourceUnavailableError'
    asset,      \* asset.status
    key,        \* asset.provenance ->> 'conversion_key'
    sourceStatus,    \* product_run.source_status
    processingStatus,  \* product_run.processing_status
    visible,    \* product_run.is_visible
    completed,  \* product_run.completed_at IS NOT NULL
    expected,   \* product_run.expected_asset_count
    raw,        \* the raw file exists
    cog,        \* the conversion key of the COG file, 0 when there is none
    inbox,      \* an AMQP delivery waits in amqp/inbox
    confKey     \* field.conversion_key of the deployed configuration

sourceRows == <<source, held, gap>>
assetRows == <<asset, key>>
runRows == <<sourceStatus, processingStatus, visible, completed, expected>>
files == <<raw, cog, inbox>>
catalogueVars == <<sourceRows, assetRows, runRows, files, confKey>>

Gone == {"pending_deletion", "deleted"}
SourceStates == {"absent", "discovered", "downloading", "downloaded", "failed"} \cup Gone
AssetStates == {"absent", "available"} \cup Gone
RunStates == {"absent", "discovered", "processing", "partially_available",
              "complete", "complete_with_warnings", "failed", "expired"}

SourcesOf(r) == {s \in Sources : RunOf[s] = r}
Available(r) == {s \in SourcesOf(r) : asset[s] = "available"}

\* Every required field has an available asset.
Core(r) == \A f \in Required : \E s \in Available(r) : FieldOf[s] = f

CatalogueTypeOK ==
    /\ source \in [Sources -> SourceStates]
    /\ held \in [Sources -> BOOLEAN]
    /\ gap \in [Sources -> BOOLEAN]
    /\ asset \in [Sources -> AssetStates]
    /\ key \in [Sources -> 0..MaxKey]
    /\ sourceStatus \in [Runs -> RunStates]
    /\ processingStatus \in [Runs -> RunStates]
    /\ visible \in [Runs -> BOOLEAN]
    /\ completed \in [Runs -> BOOLEAN]
    /\ expected \in [Runs -> Nat]
    /\ raw \in [Sources -> BOOLEAN]
    /\ cog \in [Sources -> 0..MaxKey]
    /\ inbox \in [Sources -> BOOLEAN]
    /\ confKey \in 1..MaxKey

-----------------------------------------------------------------------------
(* The state a deployment starts from.  prune_superseded_product_data, run  *)
(* by an earlier release, deleted the files of older runs and expired the   *)
(* rows ("expired"), or stopped half-way, after it had marked some rows     *)
(* ("interrupted"): such a run may still be visible.                        *)

LeftSource(r) == CASE Leftover[r] = "nothing" -> {"absent"}
                   [] Leftover[r] = "expired" -> {"deleted"}
                   [] Leftover[r] = "interrupted" -> {"downloaded"} \cup Gone

LeftAsset(r) == CASE Leftover[r] = "nothing" -> {"absent"}
                  [] Leftover[r] = "expired" -> {"deleted"}
                  [] Leftover[r] = "interrupted" -> {"available"} \cup Gone

LeftProcessing(r) == CASE Leftover[r] = "nothing" -> "absent"
                      [] Leftover[r] = "expired" -> "expired"
                      [] Leftover[r] = "interrupted" -> "complete"

CatalogueInit ==
    /\ source \in {f \in [Sources -> SourceStates] :
                      \A s \in Sources : f[s] \in LeftSource(RunOf[s])}
    /\ asset \in {f \in [Sources -> AssetStates] :
                      \A s \in Sources : f[s] \in LeftAsset(RunOf[s])}
    /\ held = [s \in Sources |-> source[s] # "absent"]
    /\ gap = [s \in Sources |-> FALSE]
    /\ key = [s \in Sources |-> IF asset[s] = "absent" THEN 0 ELSE 1]
    /\ processingStatus = [r \in Runs |-> LeftProcessing(r)]
    /\ sourceStatus = processingStatus
    /\ visible = [r \in Runs |-> Leftover[r] = "interrupted"]
    /\ completed = [r \in Runs |-> Leftover[r] # "nothing"]
    /\ expected = [r \in Runs |-> IF Leftover[r] = "nothing" THEN 0 ELSE Expected[r]]
    /\ raw \in {f \in [Sources -> BOOLEAN] : \A s \in Sources :
                    /\ source[s] = "downloaded" => f[s]
                    /\ source[s] \in {"absent", "deleted"} => ~f[s]}
    /\ cog \in {f \in [Sources -> 0..1] : \A s \in Sources :
                    /\ asset[s] = "available" => f[s] = 1
                    /\ asset[s] \in {"absent", "deleted"} => f[s] = 0}
    /\ inbox = [s \in Sources |-> FALSE]
    /\ confKey = 1

-----------------------------------------------------------------------------
(* Statements of the ingestion DAG.                                        *)

\* recover_source_objects.sql takes newest runs first, then by id.
Before(q, s) == RunOf[q] > RunOf[s] \/ (RunOf[q] = RunOf[s] /\ q < s)
First(S, n) == {s \in S : Cardinality({q \in S : Before(q, s)}) < n}


\* Registered, no confirmed gap, and no available asset made from this source.
Recoverable ==
    {s \in Sources :
        /\ source[s] # "absent"
        /\ ~gap[s]
        /\ ~(held[s] /\ asset[s] = "available")}

\* Mutant: a failed run is forgotten.
ReopenedIfExpired(r) == "expired" \in {sourceStatus[r], processingStatus[r]}

Reopened(r) == {sourceStatus[r], processingStatus[r]} \cap {"expired", "failed"} # {}

Revive(S) ==
    LET revived == {RunOf[s] : s \in S}
    IN
    /\ source' = [s \in Sources |->
                    IF s \in S /\ source[s] \in {"downloading", "failed"} \cup Gone
                    THEN "discovered" ELSE source[s]]
    /\ held' = [s \in Sources |-> held[s] /\ ~(s \in S /\ source[s] \in Gone)]
    /\ sourceStatus' = [r \in Runs |->
                    IF r \in revived /\ sourceStatus[r] \in {"expired", "failed"}
                    THEN "discovered" ELSE sourceStatus[r]]
    /\ processingStatus' = [r \in Runs |->
                    IF r \in revived /\ processingStatus[r] \in {"expired", "failed"}
                    THEN "processing" ELSE processingStatus[r]]
    /\ completed' = [r \in Runs |-> completed[r] /\ ~(r \in revived /\ Reopened(r))]
    /\ UNCHANGED <<gap, visible, expected>>

\* register_manifest: upsert_product_run.sql and upsert_source_object.sql for
\* the objects S of run r, in one transaction.
RegisterManifest(r, S) ==
    LET fresh(s) == s \in S /\ source[s] \in {"absent"} \cup Gone
        kept(status) == completed[r] /\ status # "expired"
    IN
    /\ source' = [s \in Sources |-> IF fresh(s) THEN "discovered" ELSE source[s]]
    /\ held' = [s \in Sources |-> held[s] /\ ~fresh(s)]
    /\ gap' = [s \in Sources |-> gap[s] /\ ~fresh(s)]
    /\ sourceStatus' = [sourceStatus EXCEPT ![r] = IF kept(@) THEN @ ELSE "discovered"]
    /\ processingStatus' = [processingStatus EXCEPT ![r] = IF kept(@) THEN @ ELSE "processing"]
    /\ completed' = [completed EXCEPT ![r] =
                        @ /\ sourceStatus[r] # "expired" /\ processingStatus[r] # "expired"]
    /\ expected' = [expected EXCEPT ![r] = IF @ > Expected[r] THEN @ ELSE Expected[r]]
    /\ UNCHANGED visible

\* source_object_for_processing and every statement on a source in use.
InUse(s) == source[s] \notin {"absent"} \cup Gone

BeginSourceDownload(s) ==
    /\ source' = [source EXCEPT ![s] = "downloading"]
    /\ gap' = [gap EXCEPT ![s] = FALSE]
    /\ UNCHANGED held

MarkSourceDownloaded(s) ==
    /\ source' = [source EXCEPT ![s] = "downloaded"]
    /\ held' = [held EXCEPT ![s] = TRUE]
    /\ gap' = [gap EXCEPT ![s] = FALSE]

\* Mutant: a status the table does not know.
MarkSourceBroken(s, unavailable) ==
    /\ source' = [source EXCEPT ![s] = "error"]
    /\ gap' = [gap EXCEPT ![s] = unavailable]
    /\ UNCHANGED held

MarkSourceFailed(s, unavailable) ==
    /\ source' = [source EXCEPT ![s] = "failed"]
    /\ gap' = [gap EXCEPT ![s] = unavailable]
    /\ UNCHANGED held

UpsertAsset(s) ==
    /\ asset' = [asset EXCEPT ![s] = "available"]
    /\ key' = [key EXCEPT ![s] = cog[s]]

\* Mutant: the required fields do not count.
ShowsAnything(r) == Available(r) # {}

Shows(r) == Core(r) /\ Available(r) # {}

\* Mutant: what was registered counts, not what was published.
LacksSources(r) == Cardinality({s \in SourcesOf(r) : InUse(s)}) < expected[r]

Lacks(r) == Cardinality(Available(r)) < expected[r]

Ends(r) == Available(r) = {} \/ ~Lacks(r)

\* finalize_product_run.sql compares with the expected count as it was.
FinalizeProductRun(r) ==
    LET registered == {s \in SourcesOf(r) : InUse(s)}
        down == {s \in registered : source[s] = "downloaded"}
        failed == {s \in registered : source[s] = "failed"}
    IN
    /\ sourceStatus' = [sourceStatus EXCEPT ![r] =
            IF failed = {} /\ registered # {} /\ down = registered
                /\ Cardinality(registered) >= expected[r]
            THEN "complete" ELSE "partially_available"]
    /\ processingStatus' = [processingStatus EXCEPT ![r] =
            IF Available(r) = {} THEN "failed"
            ELSE IF Lacks(r) THEN "partially_available"
            ELSE IF failed # {} THEN "complete_with_warnings"
            ELSE "complete"]
    /\ visible' = [visible EXCEPT ![r] = Shows(r)]
    /\ completed' = [completed EXCEPT ![r] = Ends(r)]
    /\ expected' = [expected EXCEPT ![r] =
            IF @ > Cardinality(registered) THEN @ ELSE Cardinality(registered)]
=============================================================================
