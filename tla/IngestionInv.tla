---------------------------- MODULE IngestionInv ----------------------------
(***************************************************************************)
(* The inductive invariant of Ingestion, in named parts: what has to be    *)
(* true between any two steps for the safety properties to survive the     *)
(* next one.  IngestionProofs proves it.                                   *)
(***************************************************************************)
EXTENDS Ingestion

\* Before the requests of a batch are built no mapped task exists.
NoTaskYet ==
    stage \in {"idle", "looking", "registering"} => \A s \in Sources : task[s] = "none"

\* What a task has achieved so far still holds when it takes its next step.
TaskInv ==
    \A s \in Sources :
        /\ task[s] = "fetched" => raw[s]
        /\ task[s] = "refused" => RunOf[s] \notin recent
        /\ task[s] \in {"downloaded", "valid", "converting", "converted", "registered"}
                => source[s] = "downloaded"
        /\ task[s] = "registered" => asset[s] = "available" /\ cog[s] # 0

\* The expected count of a run is at least what its manifest promised from the
\* moment a source of it is registered, and a batch finalizes no other run.
Promised(r) == expected[r] >= Expected[r]

ManifestInv ==
    /\ \A s \in Sources : source[s] # "absent" => Promised(RunOf[s])
    /\ \A s \in recovered : source[s] # "absent"
    /\ stage = "registering" =>
            \A s \in found : RunOf[s] \in todo \/ source[s] # "absent"
    /\ stage \in {"downloading", "validating", "converting", "finalizing"} =>
            \A r \in todo : Promised(r)

\* What made a run visible is still there.
ShownInv == \A r \in Runs : visible[r] /\ Leftover[r] # "interrupted" => Shows(r)

SourceInv ==
    /\ DownloadedMetadata
    /\ DownloadedFileExists
    /\ GapIsOld
    /\ NoTaskYet
    /\ TaskInv

RunInv ==
    /\ RunCompletion
    /\ ManifestInv
    /\ ShownInv
    /\ CompleteRunIsWhole

IInv == TypeOK /\ SourceInv /\ RunInv
=============================================================================
