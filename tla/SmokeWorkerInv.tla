---------------------------- MODULE SmokeWorkerInv ----------------------------
(***************************************************************************)
(* The inductive invariant of SmokeWorker, in named parts: what has to be  *)
(* true between any two steps for the safety properties to survive the     *)
(* next one.  SmokeWorkerProofs proves it.                                 *)
(***************************************************************************)
EXTENDS SmokeWorker

\* A submission in flight has a run key and holds the queue's lock.
SubmissionInv ==
    /\ \A s \in Submitters :
        subPc[s] # "idle" => subRun[s] \in Runs /\ queueLock = s

\* What a submitter has decided from its snapshot still holds when it commits.
DecisionInv ==
    \A s \in Submitters :
        subPc[s] = "decided" /\ subInsert[s] =>
            status[subRun[s]] = "absent" /\ Cardinality(Queued) < MaxQueued

\* A busy worker has a run, an idle one has none.
AttachedInv ==
    \A w \in Workers : IF pc[w] = "idle" THEN cur[w] = NoRun ELSE cur[w] \in Runs

\* A run that waits, or was stopped, has no worker, and one that is published
\* has none either unless its worker missed the acknowledgement.
OwnerInv ==
    \A w \in Workers : pc[w] # "idle" =>
        /\ status[cur[w]] \notin {"absent", "queued", "cancelled", "failed"}
        /\ status[cur[w]] = "complete_with_warnings" =>
                unacked[cur[w]] /\ pc[w] \in Handler

\* The statuses the code really commits, and the cancellation mark.
StatusInv ==
    \A r \in Runs :
        /\ status[r] \notin {"complete", "publishing"}
        /\ cancelAsked[r] => status[r] \in {"cancellation_requested", "cancelled"}

\* The directories of a run that a worker is busy with, by where it is.
FilesAt(where, dirs) ==
    CASE where = "resolving" -> dirs = {}
      [] where \in {"resolved", "emissions", "transport", "processing"} ->
            dirs = {"work"}
      [] where = "outputs" -> dirs = {"work", "processed"}
      [] where = "archived" -> dirs = {"archive", "processed"}
      [] where = "failed" ->
            dirs \in {{}, {"work"}, {"work", "processed"}, {"archive", "processed"}}
      [] where = "quarantining" -> dirs \subseteq {"quarantine", "processed"}
      [] OTHER -> dirs \subseteq {"quarantine"}

FilesInv ==
    /\ \A w \in Workers : pc[w] # "idle" => FilesAt(pc[w], files[cur[w]])
    /\ \A r \in Runs : status[r] \in {"absent", "queued"} => files[r] = {}

IInv ==
    /\ TypeOK
    /\ SubmissionInv
    /\ DecisionInv
    /\ QueueBound
    /\ AttachedInv
    /\ OneWorkerPerRun
    /\ OwnerInv
    /\ StatusInv
    /\ VisibleIffComplete
    /\ CompletionCheck
    /\ FilesInv
    /\ StoppedRunIsQuarantined
    /\ PublishedFilesInPlace
=============================================================================
