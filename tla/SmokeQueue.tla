------------------------------ MODULE SmokeQueue ------------------------------
(***************************************************************************)
(* The database-backed queue of smoke simulations: the rows of             *)
(* simulation.run and the statements that the API, the enqueue DAGs and    *)
(* the worker DAG run against them.                                        *)
(*                                                                         *)
(* A run is identified by its run_key, which the table keeps unique, so    *)
(* there is at most one row per member of Runs.  A submission is three     *)
(* steps, because the count of queued rows is read from a snapshot and the *)
(* inserted row is visible to others only at commit; what keeps the two    *)
(* together is the advisory lock.                                          *)
(*                                                                         *)
(* A definition introduced by "Mutant:" is no part of the model.  It is a  *)
(* plausible slip in the definition after it; README.md names the property *)
(* that notices.                                                           *)
(***************************************************************************)
EXTENDS Naturals, FiniteSets

CONSTANTS
    Runs,               \* run keys that may be submitted
    Submitters,         \* connections that submit: API requests, enqueue tasks
    Kind,               \* Kind[r]: the run_kind of r
    MaxQueued,          \* SMOKE_MAX_QUEUED_RUNS
    ValidationEnabled,  \* SMOKE_VALIDATION_RUNS_ENABLED
    MaxSwitches,        \* bound: how often the operator flips the write switch
    NoRun, NoOne        \* "no run", "lock not held"

Kinds == {"interactive", "operational", "validation"}

ASSUME QueueAssumption ==
    /\ IsFiniteSet(Runs)
    /\ Kind \in [Runs -> Kinds]
    /\ MaxQueued \in Nat \ {0}
    /\ ValidationEnabled \in BOOLEAN
    /\ MaxSwitches \in Nat
    /\ NoRun \notin Runs
    /\ NoOne \notin Submitters

VARIABLES
    status,             \* simulation.run.status, "absent" before the insert
    requestedAt,        \* simulation.run.requested_at
    clock,              \* the next value of clock_timestamp()
    completed,          \* simulation.run.completed_at IS NOT NULL
    cancelAsked,        \* simulation.run.cancellation_requested_at IS NOT NULL
    writes,             \* SIMULATION_WRITES_ENABLED of the running services
    switches,           \* flips of the switch so far (bounds the model)
    queueLock,          \* holder of pg_advisory_xact_lock('weather.smoke.queue')
    subPc,              \* where each submission is
    subRun,             \* the run key it submits
    subInsert           \* what its snapshot said: the row may be inserted

rowVars == <<status, requestedAt, clock, completed, cancelAsked>>
subVars == <<queueLock, subPc, subRun, subInsert>>
switchVars == <<writes, switches>>
queueVars == <<rowVars, subVars, switchVars>>

Working  == {"resolving_inputs", "emissions_running", "transport_running",
             "processing_outputs", "publishing"}
Terminal == {"complete", "complete_with_warnings", "cancelled", "failed"}
Statuses == {"queued", "cancellation_requested"} \cup Working \cup Terminal

Queued == {r \in Runs : status[r] = "queued"}

QueueTypeOK ==
    /\ status \in [Runs -> Statuses \cup {"absent"}]
    /\ requestedAt \in [Runs -> Nat]
    /\ clock \in Nat
    /\ completed \in [Runs -> BOOLEAN]
    /\ cancelAsked \in [Runs -> BOOLEAN]
    /\ writes \in BOOLEAN
    /\ switches \in 0..MaxSwitches
    /\ queueLock \in Submitters \cup {NoOne}
    /\ subPc \in [Submitters -> {"idle", "locked", "decided"}]
    /\ subRun \in [Submitters -> Runs \cup {NoRun}]
    /\ subInsert \in [Submitters -> BOOLEAN]

QueueInit ==
    /\ status = [r \in Runs |-> "absent"]
    /\ requestedAt = [r \in Runs |-> 0]
    /\ clock = 0
    /\ completed = [r \in Runs |-> FALSE]
    /\ cancelAsked = [r \in Runs |-> FALSE]
    /\ writes \in BOOLEAN
    /\ switches = 0
    /\ queueLock = NoOne
    /\ subPc = [s \in Submitters |-> "idle"]
    /\ subRun = [s \in Submitters |-> NoRun]
    /\ subInsert = [s \in Submitters |-> FALSE]

-----------------------------------------------------------------------------
(* transition_run.sql: one UPDATE that compares the expected status, sets  *)
(* the new one and stamps completed_at when it is terminal.  CanMove is    *)
(* its WHERE clause; a caller whose UPDATE matches no row raises.          *)

\* Mutant: only the end of a run is respected, not what the caller expects.
CanMoveUnlessTerminal(r, expected) == status[r] \notin Terminal

CanMove(r, expected) == status[r] = expected

MoveTo(r, new) ==
    /\ status' = [status EXCEPT ![r] = new]
    /\ completed' = [completed EXCEPT ![r] = @ \/ new \in Terminal]
    /\ UNCHANGED <<requestedAt, clock, cancelAsked>>

-----------------------------------------------------------------------------
(* Submission.                                                             *)

\* The gates in front of the queue.  The API serves interactive runs only
\* while simulation writes are enabled; the validation DAG refuses to enqueue
\* while they are, or without its own switch; the operational DAG has a switch
\* of its own and does not look at this one.
MaySubmit(r) ==
    /\ Kind[r] = "interactive" => writes
    /\ Kind[r] = "validation" => ValidationEnabled /\ ~writes

\* Mutant: the lock excludes nobody.
LockIgnored == TRUE

\* lock_queue.sql: blocks until no other transaction holds the lock.
LockFree == queueLock = NoOne

LockQueue(s, r) ==
    /\ subPc[s] = "idle"
    /\ MaySubmit(r)
    /\ LockFree
    /\ queueLock' = s
    /\ subPc' = [subPc EXCEPT ![s] = "locked"]
    /\ subRun' = [subRun EXCEPT ![s] = r]
    /\ UNCHANGED <<subInsert, rowVars, switchVars>>

\* The snapshot of create_run.sql: does the key exist, is there room?
DecideInsert(s) ==
    /\ subPc[s] = "locked"
    /\ subInsert' = [subInsert EXCEPT ![s] =
                        /\ status[subRun[s]] = "absent"
                        /\ Cardinality(Queued) < MaxQueued]
    /\ subPc' = [subPc EXCEPT ![s] = "decided"]
    /\ UNCHANGED <<queueLock, subRun, rowVars, switchVars>>

InsertRow(r) ==
    /\ status' = [status EXCEPT ![r] = "queued"]
    /\ requestedAt' = [requestedAt EXCEPT ![r] = clock]
    /\ clock' = clock + 1
    /\ UNCHANGED <<completed, cancelAsked>>

LeaveQueueLock(s) ==
    /\ queueLock' = IF queueLock = s THEN NoOne ELSE queueLock
    /\ subPc' = [subPc EXCEPT ![s] = "idle"]
    /\ subRun' = [subRun EXCEPT ![s] = NoRun]
    /\ subInsert' = [subInsert EXCEPT ![s] = FALSE]

\* The insert (ON CONFLICT (run_key) DO NOTHING) and the commit.  Without an
\* insert the caller gets the existing run, or the capacity error.
CommitSubmission(s) ==
    /\ subPc[s] = "decided"
    /\ IF subInsert[s] /\ status[subRun[s]] = "absent"
       THEN InsertRow(subRun[s])
       ELSE UNCHANGED rowVars
    /\ LeaveQueueLock(s)
    /\ UNCHANGED switchVars

\* The connection dies before the commit: nothing is inserted and the
\* transaction's lock is released with it.
LoseSubmission(s) ==
    /\ subPc[s] # "idle"
    /\ LeaveQueueLock(s)
    /\ UNCHANGED <<rowVars, switchVars>>

-----------------------------------------------------------------------------
(* request_cancellation.sql, behind POST /smoke/runs/{run_id}/cancel, which *)
(* needs simulation writes enabled.                                        *)

Cancellable == {"queued"} \cup Working

RequestCancellation(r) ==
    /\ writes
    /\ status[r] \in Cancellable
    /\ status' = [status EXCEPT ![r] =
                    IF @ = "queued" THEN "cancelled" ELSE "cancellation_requested"]
    /\ completed' = [completed EXCEPT ![r] = @ \/ status[r] = "queued"]
    /\ cancelAsked' = [cancelAsked EXCEPT ![r] = TRUE]
    /\ UNCHANGED <<requestedAt, clock, subVars, switchVars>>

\* The operator restarts the services with the other value of the switch.
FlipWrites ==
    /\ switches < MaxSwitches
    /\ switches' = switches + 1
    /\ writes' = ~writes
    /\ UNCHANGED <<rowVars, subVars>>

-----------------------------------------------------------------------------
(* claim_next_run.sql: the oldest queued run of an allowed kind.           *)

\* The worker task: with writes disabled it takes validation runs only.
Allowed(r) == writes \/ (ValidationEnabled /\ Kind[r] = "validation")

\* Mutant: a run that is resolving its inputs is offered again.
ClaimableTwice ==
    {r \in Runs : status[r] \in {"queued", "resolving_inputs"} /\ Allowed(r)}

\* Mutant: nothing is offered while some run is active.
ClaimableAlone ==
    {r \in Queued : Allowed(r) /\ \A q \in Runs : status[q] \notin Working}

Claimable == {r \in Queued : Allowed(r)}

Oldest(S) == {r \in S : \A q \in S : requestedAt[r] <= requestedAt[q]}

QueueNext ==
    \/ \E s \in Submitters :
        \/ \E r \in Runs : LockQueue(s, r)
        \/ DecideInsert(s)
        \/ CommitSubmission(s)
        \/ LoseSubmission(s)
    \/ \E r \in Runs : RequestCancellation(r)
    \/ FlipWrites
=============================================================================
