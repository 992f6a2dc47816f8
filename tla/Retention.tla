------------------------------ MODULE Retention ------------------------------
(***************************************************************************)
(* The manual DAG weather_asset_retention beside the ingestion DAG of one  *)
(* product: run_asset_retention deletes what it has listed, one candidate  *)
(* after the other, each in four steps; an exception drops the candidate,  *)
(* a killed process the rest of the list.                                  *)
(***************************************************************************)
EXTENDS Ingestion

CONSTANTS
    RetainForever,  \* retention_config ->> 'retain_forever' of the product
    MaxSweeps       \* bound: how often the operator triggers the DAG

ASSUME RetentionAssumption ==
    /\ RetainForever \in BOOLEAN
    /\ MaxSweeps \in Nat

VARIABLES
    sweep,      \* what the sweep does next
    plan,       \* candidates <<kind, source>> still to treat
    target,     \* the candidate in treatment, a set of at most one
    listedKey,  \* the conversion a candidate's checksum stands for
    sweeps

sweepVars == <<sweep, plan, target, listedKey, sweeps>>
archiveVars == <<vars, sweepVars>>

Candidates == {"asset", "source"} \X Sources

RetentionTypeOK ==
    /\ TypeOK
    /\ sweep \in {"idle", "sources", "next", "mark", "unlink", "finish"}
    /\ plan \subseteq Candidates
    /\ target \in SUBSET Candidates
    /\ Cardinality(target) = (IF sweep \in {"mark", "unlink", "finish"} THEN 1 ELSE 0)
    /\ listedKey \in [Sources -> 0..MaxKey]
    /\ sweeps \in 0..MaxSweeps

RetentionInit ==
    /\ Init
    /\ sweep = "idle"
    /\ plan = {}
    /\ target = {}
    /\ listedKey = [s \in Sources |-> 0]
    /\ sweeps = 0

-----------------------------------------------------------------------------
\* Of a product that is kept for ever only half-deleted rows are listed.
AgedOut(r) == ~RetainForever /\ r \notin recent

\* list_asset_retention_candidates.sql; the days to keep are configured, so
\* any of the runs outside the retry window may have aged out.
ListAssets ==
    /\ sweep = "idle"
    /\ sweeps < MaxSweeps
    /\ \E aged \in SUBSET {r \in Runs : AgedOut(r)} :
        plan' = {"asset"} \X {s \in Sources :
                    \/ asset[s] = "pending_deletion"
                    \/ asset[s] = "available" /\ RunOf[s] \in aged}
    /\ listedKey' = key
    /\ sweeps' = sweeps + 1
    /\ sweep' = "sources"
    /\ UNCHANGED <<vars, target>>

\* list_source_retention_candidates.sql.
ListSources ==
    /\ sweep = "sources"
    /\ \E aged \in SUBSET {r \in Runs : AgedOut(r)} :
        plan' = plan \cup {"source"} \X {s \in Sources :
                    /\ held[s]
                    /\ \/ source[s] = "pending_deletion"
                       \/ source[s] \in {"downloaded", "failed"} /\ RunOf[s] \in aged}
    /\ sweep' = "next"
    /\ UNCHANGED <<vars, target, listedKey, sweeps>>

-----------------------------------------------------------------------------
(* One candidate.                                                          *)

\* The file is absent, or has the checksum of the listed row.
Verified(kind, s) == kind = "asset" => cog[s] \in {0, listedKey[s]}

GiveUp == sweep' = "next" /\ target' = {}

Preflight(c) ==
    /\ sweep = "next"
    /\ c \in plan
    /\ plan' = plan \ {c}
    /\ IF Verified(c[1], c[2]) THEN sweep' = "mark" /\ target' = {c} ELSE GiveUp
    /\ UNCHANGED <<vars, listedKey, sweeps>>

\* mark_asset_pending_deletion.sql.
MarkAssetPending(s) ==
    /\ IF asset[s] \in {"available", "pending_deletion"}
       THEN /\ asset' = [asset EXCEPT ![s] = "pending_deletion"]
            /\ sweep' = "unlink" /\ UNCHANGED target
       ELSE GiveUp /\ UNCHANGED asset
    /\ UNCHANGED <<sourceRows, key>>

\* mark_source_pending_deletion.sql commits before the path is compared.
MarkSourcePending(s) ==
    /\ IF source[s] \in {"downloaded", "failed", "pending_deletion"}
       THEN /\ source' = [source EXCEPT ![s] = "pending_deletion"]
            /\ IF held[s] THEN sweep' = "unlink" /\ UNCHANGED target ELSE GiveUp
       ELSE GiveUp /\ UNCHANGED source
    /\ UNCHANGED <<assetRows, held, gap>>

Mark(kind, s) ==
    /\ sweep = "mark"
    /\ <<kind, s>> \in target
    /\ IF kind = "asset" THEN MarkAssetPending(s) ELSE MarkSourcePending(s)
    /\ UNCHANGED <<runRows, files, confKey, dagVars, plan, listedKey, sweeps>>

\* _unlink_with_verified_descriptors.
Unlink(kind, s) ==
    /\ sweep = "unlink"
    /\ <<kind, s>> \in target
    /\ IF ~Verified(kind, s)
       THEN GiveUp /\ UNCHANGED <<cog, raw>>
       ELSE /\ sweep' = "finish" /\ UNCHANGED target
            /\ IF kind = "asset"
               THEN cog' = [cog EXCEPT ![s] = 0] /\ UNCHANGED raw
               ELSE raw' = [raw EXCEPT ![s] = FALSE] /\ UNCHANGED cog
    /\ UNCHANGED <<sourceRows, assetRows, runRows, inbox, confKey, dagVars,
                   plan, listedKey, sweeps>>

\* Mutant: without the condition on the status.
FinishAnyway(kind, s) ==
    /\ sweep = "finish"
    /\ <<kind, s>> \in target
    /\ IF kind = "asset"
       THEN asset' = [asset EXCEPT ![s] = "deleted"] /\ UNCHANGED source
       ELSE source' = [source EXCEPT ![s] = "deleted"] /\ UNCHANGED asset
    /\ GiveUp
    /\ UNCHANGED <<held, gap, key, runRows, files, confKey, dagVars, plan,
                   listedKey, sweeps>>

\* mark_asset_deleted.sql, mark_source_deleted.sql.
Finish(kind, s) ==
    /\ sweep = "finish"
    /\ <<kind, s>> \in target
    /\ asset' = IF kind = "asset" /\ asset[s] = "pending_deletion"
                THEN [asset EXCEPT ![s] = "deleted"] ELSE asset
    /\ source' = IF kind = "source" /\ source[s] = "pending_deletion"
                 THEN [source EXCEPT ![s] = "deleted"] ELSE source
    /\ GiveUp
    /\ UNCHANGED <<held, gap, key, runRows, files, confKey, dagVars, plan,
                   listedKey, sweeps>>

\* The list is done, or the process is killed.
EndSweep ==
    /\ sweep # "idle"
    /\ sweep' = "idle"
    /\ plan' = {} /\ target' = {}
    /\ listedKey' = [s \in Sources |-> 0]
    /\ UNCHANGED <<vars, sweeps>>

Treat(c) ==
    \/ Preflight(c)
    \/ Mark(c[1], c[2])
    \/ Unlink(c[1], c[2])
    \/ Finish(c[1], c[2])

Sweep ==
    \/ ListAssets \/ ListSources
    \/ \E c \in Candidates : Treat(c)
    \/ EndSweep

RetentionNext == (Next /\ UNCHANGED sweepVars) \/ Sweep

RetentionSpec == RetentionInit /\ [][RetentionNext]_archiveVars

-----------------------------------------------------------------------------
(* Properties.                                                             *)

\* A source whose row says deleted has no raw file, although the ingestion DAG
\* may revive the row and fetch the file again between any two steps of the
\* sweep.
DeletedSourceHasNoFile == \A s \in Sources : source[s] = "deleted" => ~raw[s]

\* docs/operations.md: "A failure after the first transition deliberately
\* leaves the row pending".
FailedDeletionStaysPending ==
    [][\A s \in Sources :
            sweep \in {"unlink", "finish"} /\ target = {<<"asset", s>>} /\ sweep' = "next"
            => asset'[s] \in Gone]_archiveVars
=============================================================================
