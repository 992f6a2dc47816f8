------------------------------ MODULE SmokeWorker ------------------------------
(***************************************************************************)
(* The smoke worker (flexpart_smoke_worker DAG, execute_claimed_run) on    *)
(* top of the queue: claim, the model phases with their cancellation       *)
(* checks, the files of a run, the publication transaction, and the        *)
(* exception handler that quarantines the files and settles the status.    *)
(*                                                                         *)
(* Workers is a set although the DAG runs one task at a time: a task whose *)
(* heartbeat is lost may still be executing when the next one starts.      *)
(***************************************************************************)
EXTENDS SmokeQueue

CONSTANTS
    Workers,
    EventBatches,       \* cancellation checks of the emissions loop
    SpeciesCount,       \* FLEXPART members, one cancellation check each
    WorkerMayDie,       \* the process may be killed, or time out (4 h)
    CommitMayBeUnacked  \* a connection may break between COMMIT and its answer

ASSUME WorkerAssumption ==
    /\ EventBatches \in Nat \ {0}
    /\ SpeciesCount \in Nat \ {0}
    /\ WorkerMayDie \in BOOLEAN
    /\ CommitMayBeUnacked \in BOOLEAN

VARIABLES
    pc,         \* where worker w is in execute_claimed_run
    cur,        \* the run it executes
    left,       \* cancellation checks left in the current loop
    seen,       \* the status its exception handler has read
    files,      \* files[r]: the directories of run r that exist
    visible,    \* the catalogue product run of r is visible and linked to r
    unacked     \* history: the commit that published r was not acknowledged

workerVars == <<pc, cur, left, seen>>
outputVars == <<files, visible, unacked>>
vars == <<queueVars, workerVars, outputVars>>

Body == {"resolving", "resolved", "emissions", "transport", "processing",
         "outputs", "archived"}
Handler == {"failed", "quarantining", "reading", "settling"}

\* temporary/smoke, derived/smoke/runs, processed/local/flexpart_smoke and
\* quarantine/smoke.
Places == {"work", "archive", "processed", "quarantine"}

TypeOK ==
    /\ QueueTypeOK
    /\ pc \in [Workers -> {"idle"} \cup Body \cup Handler]
    /\ cur \in [Workers -> Runs \cup {NoRun}]
    /\ left \in [Workers -> Nat]
    /\ seen \in [Workers -> Statuses \cup {"absent"}]
    /\ files \in [Runs -> SUBSET Places]
    /\ visible \in [Runs -> BOOLEAN]
    /\ unacked \in [Runs -> BOOLEAN]

Init ==
    /\ QueueInit
    /\ pc = [w \in Workers |-> "idle"]
    /\ cur = [w \in Workers |-> NoRun]
    /\ left = [w \in Workers |-> 0]
    /\ seen = [w \in Workers |-> "absent"]
    /\ files = [r \in Runs |-> {}]
    /\ visible = [r \in Runs |-> FALSE]
    /\ unacked = [r \in Runs |-> FALSE]

Goto(w, where) == pc' = [pc EXCEPT ![w] = where]

\* An exception in the body of the try statement.
Raise(w) == Goto(w, "failed") /\ UNCHANGED <<cur, left, seen>>

BecomeIdle(w) ==
    /\ Goto(w, "idle")
    /\ cur' = [cur EXCEPT ![w] = NoRun]
    /\ left' = [left EXCEPT ![w] = 0]
    /\ seen' = [seen EXCEPT ![w] = "absent"]

-----------------------------------------------------------------------------
(* The phases.                                                             *)

Claim(w) ==
    /\ pc[w] = "idle"
    /\ \E r \in Oldest(Claimable) :
        /\ MoveTo(r, "resolving_inputs")
        /\ cur' = [cur EXCEPT ![w] = r]
    /\ Goto(w, "resolving")
    /\ UNCHANGED <<left, seen, subVars, switchVars, outputVars>>

\* The status is read at the start of a transaction whose compare-and-set
\* comes at its end; the workspace is created in between.
ResolveInputs(w) ==
    /\ pc[w] = "resolving"
    /\ IF status[cur[w]] = "resolving_inputs" /\ "work" \notin files[cur[w]]
       THEN /\ files' = [files EXCEPT ![cur[w]] = @ \cup {"work"}]
            /\ Goto(w, "resolved")
            /\ UNCHANGED <<cur, left, seen>>
       ELSE Raise(w) /\ UNCHANGED files
    /\ UNCHANGED <<queueVars, visible, unacked>>

\* The compare-and-set between two phases; when the row is not in the status
\* the worker expects, it raises and the run is left as it is.
EnterPhase(w, from, expected, new, to, checks) ==
    /\ pc[w] = from
    /\ IF CanMove(cur[w], expected)
       THEN /\ MoveTo(cur[w], new)
            /\ Goto(w, to)
            /\ left' = [left EXCEPT ![w] = checks]
            /\ UNCHANGED <<cur, seen>>
       ELSE Raise(w) /\ UNCHANGED rowVars
    /\ UNCHANGED <<subVars, switchVars, outputVars>>

StartEmissions(w) ==
    EnterPhase(w, "resolved", "resolving_inputs", "emissions_running",
               "emissions", EventBatches)

\* Before every tenth fire event and before every FLEXPART member; the work
\* that follows a check that passes is part of the step.
CheckCancellation(w) ==
    /\ pc[w] \in {"emissions", "transport"}
    /\ left[w] > 0
    /\ IF status[cur[w]] = "cancellation_requested"
       THEN Raise(w)
       ELSE /\ left' = [left EXCEPT ![w] = @ - 1]
            /\ UNCHANGED <<pc, cur, seen>>
    /\ UNCHANGED <<queueVars, outputVars>>

StartTransport(w) ==
    /\ left[w] = 0
    /\ EnterPhase(w, "emissions", "emissions_running", "transport_running",
                  "transport", SpeciesCount)

StartProcessing(w) ==
    /\ left[w] = 0
    /\ EnterPhase(w, "transport", "transport_running", "processing_outputs",
                  "processing", 0)

\* The display COGs and their manifest, below processed/.
DeriveOutputs(w) ==
    /\ pc[w] = "processing"
    /\ files' = [files EXCEPT ![cur[w]] = @ \cup {"processed"}]
    /\ Goto(w, "outputs")
    /\ UNCHANGED <<cur, left, seen, queueVars, visible, unacked>>

\* Mutant: the workspace is copied.
CopyWork(w) ==
    /\ pc[w] = "outputs"
    /\ files' = [files EXCEPT ![cur[w]] = @ \cup {"archive"}]
    /\ Goto(w, "archived")
    /\ UNCHANGED <<cur, left, seen, queueVars, visible, unacked>>

\* shutil.move(work, archive), before the publication transaction.
ArchiveWork(w) ==
    /\ pc[w] = "outputs"
    /\ files' = [files EXCEPT ![cur[w]] = (@ \ {"work"}) \cup {"archive"}]
    /\ Goto(w, "archived")
    /\ UNCHANGED <<cur, left, seen, queueVars, visible, unacked>>

-----------------------------------------------------------------------------
(* Publication: the move to publishing, the inputs, artifacts, product     *)
(* run, times, assets and visibility, and the move to                      *)
(* complete_with_warnings are one transaction, which holds the row from    *)
(* its first UPDATE on.  So "publishing" is never seen by anybody else.    *)

\* Mutant: the last transition is left to a later transaction.
CommitVisibilityOnly(r) ==
    /\ MoveTo(r, "publishing")
    /\ visible' = [visible EXCEPT ![r] = TRUE]

CommitPublication(r) ==
    /\ MoveTo(r, "complete_with_warnings")
    /\ visible' = [visible EXCEPT ![r] = TRUE]

Publish(w) ==
    /\ pc[w] = "archived"
    /\ CanMove(cur[w], "processing_outputs")
    /\ CommitPublication(cur[w])
    /\ BecomeIdle(w)
    /\ UNCHANGED <<subVars, switchVars, files, unacked>>

RefusePublication(w) ==
    /\ pc[w] = "archived"
    /\ ~CanMove(cur[w], "processing_outputs")
    /\ Raise(w)
    /\ UNCHANGED <<queueVars, outputVars>>

\* The server commits, the client sees a broken connection: the worker
\* handles as a failure a run that is published.
PublishUnacked(w) ==
    /\ CommitMayBeUnacked
    /\ pc[w] = "archived"
    /\ CanMove(cur[w], "processing_outputs")
    /\ CommitPublication(cur[w])
    /\ unacked' = [unacked EXCEPT ![cur[w]] = TRUE]
    /\ Raise(w)
    /\ UNCHANGED <<subVars, switchVars, files>>

\* Anything else that raises in a phase: admission limits, missing inputs, a
\* model failure, an I/O error, a rollback.
FailPhase(w) ==
    /\ pc[w] \in Body
    /\ Raise(w)
    /\ UNCHANGED <<queueVars, outputVars>>

-----------------------------------------------------------------------------
(* The exception handler.                                                  *)

\* Mutant: a workspace that was archived already is not looked for.
QuarantineWorkOnly(w) ==
    /\ pc[w] = "failed"
    /\ files' = [files EXCEPT ![cur[w]] = (@ \ {"work"}) \cup {"quarantine"}]
    /\ Goto(w, "quarantining")
    /\ UNCHANGED <<cur, left, seen, queueVars, visible, unacked>>

QuarantineWork(w) ==
    /\ pc[w] = "failed"
    /\ files' = [files EXCEPT ![cur[w]] =
                    IF "work" \in @ THEN (@ \ {"work"}) \cup {"quarantine"}
                    ELSE IF "archive" \in @ THEN (@ \ {"archive"}) \cup {"quarantine"}
                    ELSE @ \cup {"quarantine"}]
    /\ Goto(w, "quarantining")
    /\ UNCHANGED <<cur, left, seen, queueVars, visible, unacked>>

QuarantineDisplay(w) ==
    /\ pc[w] = "quarantining"
    /\ files' = [files EXCEPT ![cur[w]] = @ \ {"processed"}]
    /\ Goto(w, "reading")
    /\ UNCHANGED <<cur, left, seen, queueVars, visible, unacked>>

\* The read of the status and the compare-and-set that uses it are two
\* statements of a READ COMMITTED transaction: others may move the row between.
ReadStatus(w) ==
    /\ pc[w] = "reading"
    /\ seen' = [seen EXCEPT ![w] = status[cur[w]]]
    /\ Goto(w, "settling")
    /\ UNCHANGED <<cur, left, queueVars, outputVars>>

\* Mutants: a misspelt status; a cancellation that ends as a failure.
OutcomeMisspelt(s) == IF s = "cancellation_requested" THEN "canceled" ELSE "failed"
OutcomeFailed(s) == "failed"

Outcome(s) == IF s = "cancellation_requested" THEN "cancelled" ELSE "failed"

MaySettle(w) == seen[w] \notin Terminal /\ CanMove(cur[w], seen[w])

\* Mutant: the handler waits for its compare-and-set to succeed.
SettleOrWait(w) ==
    /\ pc[w] = "settling"
    /\ MaySettle(w)
    /\ MoveTo(cur[w], Outcome(seen[w]))
    /\ BecomeIdle(w)
    /\ UNCHANGED <<subVars, switchVars, outputVars>>

\* A compare-and-set that fails is swallowed by "except Exception: pass".
Settle(w) ==
    /\ pc[w] = "settling"
    /\ IF MaySettle(w)
       THEN MoveTo(cur[w], Outcome(seen[w]))
       ELSE UNCHANGED rowVars
    /\ BecomeIdle(w)
    /\ UNCHANGED <<subVars, switchVars, outputVars>>

\* The process is killed or times out with an exception that is not an
\* Exception, or the handler itself raises: nobody works on the run any more.
Die(w) ==
    /\ WorkerMayDie
    /\ pc[w] # "idle"
    /\ BecomeIdle(w)
    /\ UNCHANGED <<queueVars, outputVars>>

-----------------------------------------------------------------------------
\* What a live worker does when nothing goes wrong around it.
Progress(w) ==
    \/ Claim(w) \/ ResolveInputs(w) \/ StartEmissions(w)
    \/ CheckCancellation(w) \/ StartTransport(w) \/ StartProcessing(w)
    \/ DeriveOutputs(w) \/ ArchiveWork(w)
    \/ Publish(w) \/ RefusePublication(w)
    \/ QuarantineWork(w) \/ QuarantineDisplay(w)
    \/ ReadStatus(w) \/ Settle(w)

Fault(w) == PublishUnacked(w) \/ FailPhase(w) \/ Die(w)

Next ==
    \/ QueueNext /\ UNCHANGED <<workerVars, outputVars>>
    \/ \E w \in Workers : Progress(w) \/ Fault(w)

Spec == Init /\ [][Next]_vars

\* The DAG starts a worker every five minutes and a live process runs on.
\* Submitters, the operator, cancellations and faults owe nothing.
FairSpec == Spec /\ \A w \in Workers : WF_vars(Progress(w))

-----------------------------------------------------------------------------
(* Properties.                                                             *)

\* A run somebody should be working on: claimed and not ended.
Active(r) == status[r] \in Working \cup {"cancellation_requested"}

Owned(r) == \E w \in Workers : cur[w] = r

\* Claimed, not ended, and no worker left to end it.
Abandoned(r) == Active(r) /\ ~Owned(r)

\* The queue never holds more than SMOKE_MAX_QUEUED_RUNS queued rows, however
\* many API requests and enqueue tasks submit at once (create_run.sql counts,
\* inserts and commits under lock_queue.sql).
QueueBound == Cardinality(Queued) <= MaxQueued

\* Two worker tasks alive at once never execute the same run
\* (claim_next_run.sql).
OneWorkerPerRun ==
    \A v, w \in Workers : cur[v] = cur[w] /\ cur[v] # NoRun => v = w

\* The public timeline offers a run exactly when its row says it is complete:
\* not in any phase before, nor after a failure or a cancellation.
VisibleIffComplete ==
    \A r \in Runs : visible[r] <=> status[r] = "complete_with_warnings"

\* The table's constraint simulation_run_completion_ck: no statement of the
\* API or of the worker can leave a row that violates it, whatever the order.
CompletionCheck ==
    \A r \in Runs : completed[r] <=> status[r] \in Terminal

\* A cancellation that was accepted wins against a worker about to publish:
\* a run with cancellation_requested_at set never becomes visible.
CancelledNeverVisible == \A r \in Runs : cancelAsked[r] => ~visible[r]

\* A run that was cancelled or failed has left nothing outside quarantine: no
\* workspace, no archive and no display files that a later reader could take
\* for results.
StoppedRunIsQuarantined ==
    \A r \in Runs :
        status[r] \in {"cancelled", "failed"} => files[r] \subseteq {"quarantine"}

\* The catalogue points at files that are there: a visible run has its archive
\* and its display files in place, unless the commit that published it was
\* never acknowledged to the worker (whose handler then moves them away).
PublishedFilesInPlace ==
    \A r \in Runs :
        visible[r] /\ ~unacked[r] => files[r] = {"archive", "processed"}

\* A terminal status is final: nothing requeues, fails or cancels a run that
\* has ended, late workers and late cancellations included.
TerminalIsFinal ==
    [][\A r \in Runs : status[r] \in Terminal => status'[r] = status[r]]_vars

\* Once cancellation is requested the run enters no further phase and cannot
\* be reported as failed or complete: it stays, or it becomes cancelled.
NoPhaseAfterCancellation ==
    [][\A r \in Runs : status[r] = "cancellation_requested" =>
            status'[r] \in {"cancellation_requested", "cancelled"}]_vars

\* Nobody takes over a run whose worker is gone: it never becomes owned again
\* and never ends; the one thing that can still happen to it is a
\* cancellation request that nobody will honour.
AbandonedIsForever ==
    [][\A r \in Runs : Abandoned(r) => Abandoned(r)']_vars

\* The stage of the lifecycle that a status stands for.
Stage(state) ==
    CASE state = "absent" -> "absent"
      [] state = "queued" -> "waiting"
      [] state \in Working -> "running"
      [] state = "cancellation_requested" -> "stopping"
      [] state \in {"complete", "complete_with_warnings"} -> "published"
      [] OTHER -> "stopped"

Lifecycle == INSTANCE SmokeRunLifecycle
    WITH stage <- [r \in Runs |-> Stage(status[r])], shown <- visible

\* Queue and worker together implement the life of a run that the queue
\* promises (SmokeRunLifecycle).
ImplementsLifecycle == Lifecycle!Spec

\* Every queued run is taken from the queue, by a worker or by a cancellation,
\* unless the operator's switches forbid the workers to take it.
QueuedIsTaken ==
    \A r \in Runs : status[r] = "queued" ~> status[r] # "queued" \/ ~Allowed(r)

\* Every run a worker has claimed ends, unless the run is abandoned.
ClaimedIsSettled == \A r \in Runs : Active(r) ~> ~Active(r) \/ Abandoned(r)

\* What the state machine of the plan says of an accepted cancellation
\* ("queued or active -> cancellation_requested -> cancelled"): the run
\* ends up cancelled.
CancellationCompletes ==
    \A r \in Runs : status[r] = "cancellation_requested" ~> status[r] = "cancelled"
=============================================================================
