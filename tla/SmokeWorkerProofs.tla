--------------------------- MODULE SmokeWorkerProofs ---------------------------
(***************************************************************************)
(* Proofs about SmokeWorker, for every set of runs, submitters and workers *)
(* and every value of the bounds.                                          *)
(***************************************************************************)
EXTENDS SmokeWorkerInv, FiniteSetTheorems, TLAPS

USE QueueAssumption, WorkerAssumption

-----------------------------------------------------------------------------
(* Type correctness.                                                       *)

\* The queue's variables keep their types in every step of the queue.
LEMMA QueueStepTypes ==
    ASSUME TypeOK, SubmissionInv, QueueNext
    PROVE  QueueTypeOK'
<1> USE DEF TypeOK, QueueTypeOK, subVars, rowVars, switchVars
<1>1. ASSUME NEW s \in Submitters, NEW r \in Runs, LockQueue(s, r)
      PROVE  QueueTypeOK'
  BY <1>1 DEF LockQueue, LockFree
<1>2. ASSUME NEW s \in Submitters, DecideInsert(s)
      PROVE  QueueTypeOK'
  BY <1>2 DEF DecideInsert
<1>3. ASSUME NEW s \in Submitters, LeaveQueueLock(s), UNCHANGED switchVars,
             \/ UNCHANGED rowVars
             \/ subRun[s] \in Runs /\ InsertRow(subRun[s])
      PROVE  QueueTypeOK'
  BY <1>3 DEF LeaveQueueLock, InsertRow, Statuses
<1>4. ASSUME NEW s \in Submitters, CommitSubmission(s)
      PROVE  QueueTypeOK'
  BY <1>3, <1>4 DEF CommitSubmission, SubmissionInv
<1>5. ASSUME NEW r \in Runs, RequestCancellation(r)
      PROVE  QueueTypeOK'
  BY <1>5 DEF RequestCancellation, Statuses, Terminal
<1>6. ASSUME FlipWrites
      PROVE  QueueTypeOK'
  BY <1>6 DEF FlipWrites
<1> QED BY <1>1, <1>2, <1>3, <1>4, <1>5, <1>6 DEF QueueNext, LoseSubmission

\* A compare-and-set keeps the types of the rows.
LEMMA MoveTypes ==
    ASSUME QueueTypeOK, NEW r \in Runs, NEW new \in Statuses, MoveTo(r, new),
           UNCHANGED <<subVars, switchVars>>
    PROVE  QueueTypeOK'
BY DEF QueueTypeOK, MoveTo, subVars, switchVars

\* A step that leaves all variables alone keeps their types.
LEMMA UnchangedTypes ==
    ASSUME QueueTypeOK, UNCHANGED queueVars
    PROVE  QueueTypeOK'
BY DEF QueueTypeOK, queueVars, subVars, switchVars, rowVars

\* A worker's step keeps every type.
LEMMA WorkerStepTypes ==
    ASSUME TypeOK, AttachedInv, NEW w \in Workers, Progress(w) \/ Fault(w)
    PROVE  TypeOK'
<1> USE DEF TypeOK, outputVars, Goto, Body, Handler
<1> DEFINE WorkerTypes ==
        /\ pc \in [Workers -> {"idle"} \cup Body \cup Handler]
        /\ cur \in [Workers -> Runs \cup {NoRun}]
        /\ left \in [Workers -> Nat]
        /\ seen \in [Workers -> Statuses \cup {"absent"}]
        /\ files \in [Runs -> SUBSET Places]
        /\ visible \in [Runs -> BOOLEAN]
        /\ unacked \in [Runs -> BOOLEAN]
<1>a. pc[w] # "idle" => cur[w] \in Runs
  BY DEF AttachedInv
<1>b. Raise(w) => /\ pc' \in [Workers -> {"idle"} \cup Body \cup Handler]
                  /\ cur' \in [Workers -> Runs \cup {NoRun}]
                  /\ left' \in [Workers -> Nat]
                  /\ seen' \in [Workers -> Statuses \cup {"absent"}]
  BY DEF Raise
<1>c. BecomeIdle(w) => /\ pc' \in [Workers -> {"idle"} \cup Body \cup Handler]
                       /\ cur' \in [Workers -> Runs \cup {NoRun}]
                       /\ left' \in [Workers -> Nat]
                       /\ seen' \in [Workers -> Statuses \cup {"absent"}]
  BY DEF BecomeIdle
<1>1. ASSUME Claim(w) PROVE TypeOK'
  <2>1. PICK r \in Oldest(Claimable) :
            /\ MoveTo(r, "resolving_inputs")
            /\ cur' = [cur EXCEPT ![w] = r]
    BY <1>1 DEF Claim
  <2>2. r \in Runs
    BY DEF Oldest, Claimable, Queued
  <2>3. QueueTypeOK'
    BY <1>1, <2>1, <2>2, MoveTypes DEF Claim, Statuses, Working
  <2> QED BY <1>1, <2>1, <2>2, <2>3 DEF Claim
<1>2. ASSUME ResolveInputs(w) PROVE TypeOK'
  BY <1>2, <1>a, <1>b, UnchangedTypes DEF ResolveInputs, Places
<1>3. ASSUME NEW from, NEW expected, NEW new \in Statuses, NEW to \in Body,
             NEW checks \in Nat, from # "idle",
             EnterPhase(w, from, expected, new, to, checks)
      PROVE TypeOK'
  <2>1. CASE CanMove(cur[w], expected)
    BY <1>3, <1>a, <2>1, MoveTypes DEF EnterPhase
  <2>2. CASE ~CanMove(cur[w], expected)
    BY <1>3, <1>b, <2>2, UnchangedTypes DEF EnterPhase, queueVars
  <2> QED BY <2>1, <2>2
<1>4. ASSUME StartEmissions(w) PROVE TypeOK'
  BY <1>3, <1>4 DEF StartEmissions, Statuses, Working
<1>5. ASSUME CheckCancellation(w) PROVE TypeOK'
  BY <1>5, <1>b, UnchangedTypes DEF CheckCancellation
<1>6. ASSUME StartTransport(w) PROVE TypeOK'
  BY <1>3, <1>6 DEF StartTransport, Statuses, Working
<1>7. ASSUME StartProcessing(w) PROVE TypeOK'
  BY <1>3, <1>7 DEF StartProcessing, Statuses, Working
<1>8. ASSUME DeriveOutputs(w) PROVE TypeOK'
  BY <1>8, <1>a, UnchangedTypes DEF DeriveOutputs, Places
<1>9. ASSUME ArchiveWork(w) PROVE TypeOK'
  BY <1>9, <1>a, UnchangedTypes DEF ArchiveWork, Places
<1>10. ASSUME Publish(w) PROVE TypeOK'
  BY <1>10, <1>a, <1>c, MoveTypes
     DEF Publish, CommitPublication, Statuses, Terminal
<1>11. ASSUME RefusePublication(w) PROVE TypeOK'
  BY <1>11, <1>b, UnchangedTypes DEF RefusePublication
<1>12. ASSUME QuarantineWork(w) PROVE TypeOK'
  BY <1>12, <1>a, UnchangedTypes DEF QuarantineWork, Places
<1>13. ASSUME QuarantineDisplay(w) PROVE TypeOK'
  BY <1>13, <1>a, UnchangedTypes DEF QuarantineDisplay, Places
<1>14. ASSUME ReadStatus(w) PROVE TypeOK'
  BY <1>14, <1>a, UnchangedTypes DEF ReadStatus, QueueTypeOK
<1>15. ASSUME Settle(w) PROVE TypeOK'
  <2>1. CASE UNCHANGED rowVars
    BY <1>15, <1>c, <2>1, UnchangedTypes DEF Settle, MaySettle, queueVars
  <2>2. CASE MoveTo(cur[w], Outcome(seen[w]))
    BY <1>15, <1>a, <1>c, <2>2, MoveTypes DEF Settle, MaySettle, Outcome, Statuses, Terminal
  <2> QED BY <1>15, <2>1, <2>2 DEF Settle, MaySettle
<1>16. ASSUME PublishUnacked(w) PROVE TypeOK'
  BY <1>16, <1>a, <1>b, MoveTypes
     DEF PublishUnacked, CommitPublication, Statuses, Terminal
<1>17. ASSUME FailPhase(w) PROVE TypeOK'
  BY <1>17, <1>b, UnchangedTypes DEF FailPhase
<1>18. ASSUME Die(w) PROVE TypeOK'
  BY <1>18, <1>c, UnchangedTypes DEF Die
<1> QED
  BY <1>1, <1>2, <1>4, <1>5, <1>6, <1>7, <1>8, <1>9, <1>10, <1>11, <1>12,
     <1>13, <1>14, <1>15, <1>16, <1>17, <1>18 DEF Progress, Fault

-----------------------------------------------------------------------------
(* The queue: the lock makes the count that a submitter has read stay true *)
(* until it commits.                                                       *)

\* The set of queued rows is finite, whatever the statuses.
LEMMA QueuedFinite ==
    /\ IsFiniteSet(Queued)
    /\ Cardinality(Queued) \in Nat
BY FS_Subset, FS_CardinalityType DEF Queued

\* No row becomes queued, and no row appears.
NoNewRow ==
    \A r \in Runs : /\ status'[r] = "queued" => status[r] = "queued"
                    /\ status[r] = "absent" => status'[r] = "absent"

\* A step that inserts nothing keeps the bound and every decision taken.
LEMMA NoNewRowKeepsQueue ==
    ASSUME TypeOK, SubmissionInv, DecisionInv, QueueBound, NoNewRow
    PROVE  /\ QueueBound'
           /\ UNCHANGED subVars => SubmissionInv' /\ DecisionInv'
<1>1. Queued' \subseteq Queued
  BY DEF Queued, NoNewRow
<1>2. /\ IsFiniteSet(Queued') /\ Cardinality(Queued') \in Nat
      /\ Cardinality(Queued') <= Cardinality(Queued)
  BY <1>1, QueuedFinite, FS_Subset, FS_CardinalityType
<1>3. QueueBound'
  BY <1>2, QueuedFinite DEF QueueBound
<1>4. ASSUME UNCHANGED subVars PROVE SubmissionInv' /\ DecisionInv'
  <2>1. SubmissionInv'
    BY <1>4 DEF SubmissionInv, subVars
  <2>2. ASSUME NEW s \in Submitters, subPc'[s] = "decided", subInsert'[s]
        PROVE  status'[subRun'[s]] = "absent" /\ Cardinality(Queued') < MaxQueued
    <3>1. /\ subRun[s] \in Runs /\ status[subRun[s]] = "absent"
          /\ Cardinality(Queued) < MaxQueued
      BY <1>4, <2>2 DEF subVars, DecisionInv, SubmissionInv
    <3> QED BY <1>2, <1>4, <3>1, QueuedFinite DEF NoNewRow, subVars
  <2> QED BY <2>1, <2>2 DEF DecisionInv
<1> QED BY <1>3, <1>4

\* The steps of submitters, cancellations and the operator.
LEMMA QueueStepKeepsQueue ==
    ASSUME TypeOK, SubmissionInv, DecisionInv, QueueBound, QueueNext
    PROVE  SubmissionInv' /\ DecisionInv' /\ QueueBound'
<1> USE DEF TypeOK, QueueTypeOK
<1>1. ASSUME NEW s \in Submitters, NEW r \in Runs, LockQueue(s, r)
      PROVE  SubmissionInv' /\ DecisionInv' /\ QueueBound'
  <2>1. NoNewRow
    BY <1>1 DEF LockQueue, LockFree, rowVars, NoNewRow
  <2>2. QueueBound'
    BY <2>1, NoNewRowKeepsQueue
  <2>3. \A t \in Submitters : subPc[t] = "idle"
    BY <1>1 DEF LockQueue, LockFree, SubmissionInv
  <2>4. SubmissionInv' /\ DecisionInv'
    BY <1>1, <2>3 DEF LockQueue, LockFree, SubmissionInv, DecisionInv
  <2> QED BY <2>2, <2>4
<1>2. ASSUME NEW s \in Submitters, DecideInsert(s)
      PROVE  SubmissionInv' /\ DecisionInv' /\ QueueBound'
  <2>1. status' = status /\ Queued' = Queued
    BY <1>2 DEF DecideInsert, rowVars, Queued
  <2>2. QueueBound'
    BY <2>1 DEF QueueBound
  <2>3. SubmissionInv'
    BY <1>2 DEF DecideInsert, SubmissionInv
  <2>4. ASSUME NEW t \in Submitters, subPc'[t] = "decided", subInsert'[t]
        PROVE  status'[subRun'[t]] = "absent" /\ Cardinality(Queued') < MaxQueued
    <3>1. CASE t = s
      BY <1>2, <2>1, <2>4, <3>1 DEF DecideInsert
    <3>2. CASE t # s
      BY <1>2, <2>1, <2>4, <3>2 DEF DecideInsert, DecisionInv
    <3> QED BY <3>1, <3>2
  <2> QED BY <2>2, <2>3, <2>4 DEF DecisionInv
<1>3. ASSUME NEW s \in Submitters, subPc[s] # "idle", LeaveQueueLock(s)
      PROVE  SubmissionInv' /\ DecisionInv'
  <2>1. \A t \in Submitters : subPc'[t] = "idle"
    BY <1>3 DEF LeaveQueueLock, SubmissionInv
  <2> QED BY <2>1 DEF SubmissionInv, DecisionInv
<1>4. ASSUME NEW s \in Submitters, CommitSubmission(s)
      PROVE  QueueBound'
  <2>1. CASE UNCHANGED rowVars
    BY <2>1, NoNewRowKeepsQueue DEF rowVars, NoNewRow
  <2>2. CASE subInsert[s] /\ InsertRow(subRun[s])
    <3>1. subRun[s] \in Runs /\ Cardinality(Queued) < MaxQueued
      BY <1>4, <2>2 DEF CommitSubmission, SubmissionInv, DecisionInv
    <3>2. Queued' = Queued \cup {subRun[s]}
      BY <2>2, <3>1 DEF InsertRow, Queued
    <3>3. \/ Cardinality(Queued') = Cardinality(Queued)
          \/ Cardinality(Queued') = Cardinality(Queued) + 1
      BY <3>2, QueuedFinite, FS_AddElement
    <3> QED BY <3>1, <3>3, QueuedFinite DEF QueueBound
  <2> QED BY <1>4, <2>1, <2>2 DEF CommitSubmission
<1>5. ASSUME NEW s \in Submitters, CommitSubmission(s)
      PROVE  SubmissionInv' /\ DecisionInv' /\ QueueBound'
  BY <1>3, <1>4, <1>5 DEF CommitSubmission
<1>6. ASSUME NEW s \in Submitters, LoseSubmission(s)
      PROVE  SubmissionInv' /\ DecisionInv' /\ QueueBound'
  BY <1>3, <1>6, NoNewRowKeepsQueue DEF LoseSubmission, rowVars, NoNewRow
<1>7. ASSUME NEW r \in Runs, RequestCancellation(r)
      PROVE  SubmissionInv' /\ DecisionInv' /\ QueueBound'
  BY <1>7, NoNewRowKeepsQueue DEF RequestCancellation, NoNewRow, Cancellable, Working
<1>8. ASSUME FlipWrites
      PROVE  SubmissionInv' /\ DecisionInv' /\ QueueBound'
  BY <1>8, NoNewRowKeepsQueue DEF FlipWrites, NoNewRow, rowVars
<1> QED BY <1>1, <1>2, <1>5, <1>6, <1>7, <1>8 DEF QueueNext

\* A worker moves only rows that exist, and never back to the queue.
LEMMA WorkerMovesNoNewRow ==
    ASSUME TypeOK, AttachedInv, OwnerInv, NEW w \in Workers, Progress(w) \/ Fault(w)
    PROVE  NoNewRow /\ UNCHANGED subVars
<1> USE DEF TypeOK, QueueTypeOK, rowVars, queueVars, NoNewRow
<1>a. ASSUME NEW r \in Runs, NEW new \in Statuses, new # "queued",
             status[r] # "absent", MoveTo(r, new)
      PROVE  NoNewRow
  BY <1>a DEF MoveTo
<1>b. pc[w] # "idle" => cur[w] \in Runs /\ status[cur[w]] # "absent"
  BY DEF AttachedInv, OwnerInv
<1>1. ASSUME Claim(w) PROVE NoNewRow /\ UNCHANGED subVars
  <2>1. PICK r \in Oldest(Claimable) : MoveTo(r, "resolving_inputs")
    BY <1>1 DEF Claim
  <2>2. r \in Runs /\ status[r] = "queued"
    BY DEF Oldest, Claimable, Queued
  <2> QED BY <1>1, <1>a, <2>1, <2>2 DEF Claim, Statuses, Working
<1>2. ASSUME NEW from, NEW expected, NEW new \in Statuses, NEW to, NEW checks,
             from # "idle", new # "queued",
             EnterPhase(w, from, expected, new, to, checks)
      PROVE NoNewRow /\ UNCHANGED subVars
  BY <1>2, <1>a, <1>b DEF EnterPhase
<1>3. ASSUME StartEmissions(w) \/ StartTransport(w) \/ StartProcessing(w)
      PROVE NoNewRow /\ UNCHANGED subVars
  BY <1>2, <1>3 DEF StartEmissions, StartTransport, StartProcessing, Statuses, Working
<1>4. ASSUME Publish(w) \/ PublishUnacked(w)
      PROVE NoNewRow /\ UNCHANGED subVars
  BY <1>4, <1>a, <1>b DEF Publish, PublishUnacked, CommitPublication, Statuses, Terminal
<1>5. ASSUME Settle(w) PROVE NoNewRow /\ UNCHANGED subVars
  BY <1>5, <1>a, <1>b DEF Settle, MaySettle, Outcome, Statuses, Terminal
<1> QED
  BY <1>1, <1>3, <1>4, <1>5
  DEF Progress, Fault, ResolveInputs, CheckCancellation, DeriveOutputs, ArchiveWork,
      RefusePublication, QuarantineWork, QuarantineDisplay, ReadStatus, FailPhase, Die

-----------------------------------------------------------------------------
(* Rows, workers and the catalogue.                                        *)

RunInv ==
    /\ AttachedInv
    /\ OneWorkerPerRun
    /\ OwnerInv
    /\ StatusInv
    /\ VisibleIffComplete
    /\ CompletionCheck

\* A step that leaves the rows, the catalogue and the assignment of workers
\* alone, and takes no worker from its run, keeps them consistent.
LEMMA SameRowsKeepRunInv ==
    ASSUME TypeOK, RunInv, NEW w \in Workers, NEW where \in Body \cup Handler,
           pc[w] # "idle", pc[w] \in Handler => where \in Handler,
           UNCHANGED <<rowVars, cur, visible, unacked>>,
           Goto(w, where)
    PROVE  RunInv'
<1> USE DEF TypeOK, QueueTypeOK, RunInv, rowVars, Goto
<1>1. where # "idle"
  BY DEF Body, Handler
<1>2. AttachedInv' /\ OneWorkerPerRun'
  BY <1>1 DEF AttachedInv, OneWorkerPerRun
<1>3. OwnerInv'
  BY <1>1 DEF OwnerInv
<1>4. StatusInv' /\ VisibleIffComplete' /\ CompletionCheck'
  BY DEF StatusInv, VisibleIffComplete, CompletionCheck
<1> QED BY <1>2, <1>3, <1>4

\* A worker that gives up its run without touching the rows.
LEMMA ReleaseKeepsRunInv ==
    ASSUME TypeOK, RunInv, NEW w \in Workers, BecomeIdle(w),
           UNCHANGED <<rowVars, visible, unacked>>
    PROVE  RunInv'
<1> USE DEF TypeOK, QueueTypeOK, RunInv, rowVars, Goto, BecomeIdle
<1>1. AttachedInv' /\ OneWorkerPerRun'
  BY DEF AttachedInv, OneWorkerPerRun
<1>2. OwnerInv'
  BY DEF OwnerInv
<1>3. StatusInv' /\ VisibleIffComplete' /\ CompletionCheck'
  BY DEF StatusInv, VisibleIffComplete, CompletionCheck
<1> QED BY <1>1, <1>2, <1>3

\* The compare-and-set of a worker that stays with its run.
LEMMA MoveKeepsRunInv ==
    ASSUME TypeOK, RunInv, NEW w \in Workers, pc[w] # "idle",
           status[cur[w]] \in Working,
           NEW new \in Working \ {"publishing"}, MoveTo(cur[w], new),
           NEW where \in Body, Goto(w, where), UNCHANGED <<cur, visible, unacked>>
    PROVE  RunInv'
<1> USE DEF TypeOK, QueueTypeOK, RunInv, Goto, MoveTo
<1>0. cur[w] \in Runs
  BY DEF AttachedInv
<1>1. where # "idle"
  BY DEF Body
<1>2. AttachedInv' /\ OneWorkerPerRun'
  BY <1>1 DEF AttachedInv, OneWorkerPerRun
<1>3. ASSUME NEW v \in Workers, pc'[v] # "idle"
      PROVE  /\ status'[cur'[v]] \notin {"absent", "queued", "cancelled", "failed"}
             /\ status'[cur'[v]] = "complete_with_warnings" =>
                    unacked'[cur'[v]] /\ pc'[v] \in Handler
  <2>1. CASE v = w
    BY <1>0, <2>1 DEF Working
  <2>2. CASE v # w
    <3>1. cur[v] # cur[w] /\ cur[v] \in Runs
      BY <1>0, <1>3, <2>2 DEF OneWorkerPerRun, AttachedInv
    <3> QED BY <1>0, <1>3, <2>2, <3>1 DEF OwnerInv
  <2> QED BY <2>1, <2>2
<1>4. StatusInv' /\ VisibleIffComplete' /\ CompletionCheck'
  BY <1>0 DEF StatusInv, VisibleIffComplete, CompletionCheck, Working, Terminal
<1> QED BY <1>2, <1>3, <1>4 DEF OwnerInv

\* The compare-and-set of a worker that ends its run.
LEMMA EndKeepsRunInv ==
    ASSUME TypeOK, RunInv, NEW w \in Workers, pc[w] # "idle", BecomeIdle(w),
           NEW new \in {"cancelled", "failed", "complete_with_warnings"},
           MoveTo(cur[w], new), UNCHANGED unacked,
           status[cur[w]] \notin Terminal,
           cancelAsked[cur[w]] => new = "cancelled",
           visible' = IF new = "complete_with_warnings"
                      THEN [visible EXCEPT ![cur[w]] = TRUE] ELSE visible
    PROVE  RunInv'
<1> USE DEF TypeOK, QueueTypeOK, RunInv, Goto, MoveTo, BecomeIdle
<1>0. cur[w] \in Runs
  BY DEF AttachedInv
<1>1. AttachedInv' /\ OneWorkerPerRun'
  BY DEF AttachedInv, OneWorkerPerRun
<1>2. ASSUME NEW v \in Workers, pc'[v] # "idle"
      PROVE  /\ status'[cur'[v]] \notin {"absent", "queued", "cancelled", "failed"}
             /\ status'[cur'[v]] = "complete_with_warnings" =>
                    unacked'[cur'[v]] /\ pc'[v] \in Handler
  <2>1. v # w /\ pc'[v] = pc[v] /\ cur'[v] = cur[v]
    BY <1>2
  <2>2. cur[v] # cur[w] /\ cur[v] \in Runs
    BY <1>0, <1>2, <2>1 DEF OneWorkerPerRun, AttachedInv
  <2> QED BY <1>0, <1>2, <2>1, <2>2 DEF OwnerInv
<1>3. StatusInv'
  BY <1>0 DEF StatusInv
<1>4. VisibleIffComplete'
  BY <1>0 DEF VisibleIffComplete, Terminal
<1>5. CompletionCheck'
  BY <1>0 DEF CompletionCheck, Terminal
<1> QED BY <1>1, <1>2, <1>3, <1>4, <1>5 DEF OwnerInv

\* Every step of a worker, faults included.
LEMMA WorkerStepKeepsRunInv ==
    ASSUME TypeOK, RunInv, NEW w \in Workers, Progress(w) \/ Fault(w)
    PROVE  RunInv'
<1> USE DEF queueVars, outputVars
<1>a. pc[w] # "idle" => cur[w] \in Runs
  BY DEF RunInv, AttachedInv
<1>b. ASSUME pc[w] \in Body, Raise(w), UNCHANGED <<rowVars, visible, unacked>>
      PROVE  RunInv'
  BY <1>b, SameRowsKeepRunInv DEF Raise, Body, Handler
<1>1. ASSUME Claim(w) PROVE RunInv'
  <2>1. PICK r \in Oldest(Claimable) :
            MoveTo(r, "resolving_inputs") /\ cur' = [cur EXCEPT ![w] = r]
    BY <1>1 DEF Claim
  <2>2. r \in Runs /\ status[r] = "queued"
    BY DEF Oldest, Claimable, Queued
  <2>3. \A v \in Workers : cur[v] # r
    BY <2>2 DEF RunInv, AttachedInv, OwnerInv, QueueAssumption
  <2> USE <1>1, <2>1, <2>2 DEF Claim, MoveTo, Goto, TypeOK, QueueTypeOK, RunInv
  <2>4. AttachedInv' /\ OneWorkerPerRun'
    BY <2>3 DEF AttachedInv, OneWorkerPerRun
  <2>5. OwnerInv'
    BY <2>3 DEF OwnerInv, AttachedInv, Handler
  <2>6. StatusInv' /\ VisibleIffComplete' /\ CompletionCheck'
    BY DEF StatusInv, VisibleIffComplete, CompletionCheck, Terminal
  <2> QED BY <2>4, <2>5, <2>6
<1>2. ASSUME ResolveInputs(w) PROVE RunInv'
  BY <1>2, <1>b, SameRowsKeepRunInv DEF ResolveInputs, Body, Handler
<1>3. ASSUME NEW from \in Body, NEW expected \in Working,
             NEW new \in Working \ {"publishing"}, NEW to \in Body, NEW checks,
             EnterPhase(w, from, expected, new, to, checks)
      PROVE  RunInv'
  <2>1. pc[w] # "idle"
    BY <1>3 DEF EnterPhase, Body
  <2>2. CASE CanMove(cur[w], expected)
    BY <1>3, <2>1, <2>2, MoveKeepsRunInv DEF EnterPhase, CanMove
  <2>3. CASE ~CanMove(cur[w], expected)
    BY <1>3, <1>b, <2>3 DEF EnterPhase
  <2> QED BY <2>2, <2>3
<1>4. ASSUME StartEmissions(w) \/ StartTransport(w) \/ StartProcessing(w)
      PROVE  RunInv'
  BY <1>3, <1>4
     DEF StartEmissions, StartTransport, StartProcessing, Working, Body
<1>5. ASSUME CheckCancellation(w) PROVE RunInv'
  <2>1. CASE Raise(w)
    BY <1>5, <1>b, <2>1 DEF CheckCancellation, Body
  <2>2. CASE UNCHANGED <<pc, cur>>
    BY <1>5, <2>2
    DEF CheckCancellation, rowVars, RunInv, AttachedInv, OneWorkerPerRun, OwnerInv,
        StatusInv, VisibleIffComplete, CompletionCheck
  <2> QED BY <1>5, <2>1, <2>2 DEF CheckCancellation
<1>6. ASSUME DeriveOutputs(w) \/ ArchiveWork(w) PROVE RunInv'
  BY <1>6, SameRowsKeepRunInv DEF DeriveOutputs, ArchiveWork, Body, Handler
<1>7. ASSUME QuarantineWork(w) \/ QuarantineDisplay(w) \/ ReadStatus(w)
      PROVE  RunInv'
  BY <1>7, SameRowsKeepRunInv
     DEF QuarantineWork, QuarantineDisplay, ReadStatus, Body, Handler
<1>8. ASSUME RefusePublication(w) \/ FailPhase(w) PROVE RunInv'
  BY <1>8, <1>b DEF RefusePublication, FailPhase, Body
<1>9. ASSUME Publish(w) PROVE RunInv'
  <2>1. ~cancelAsked[cur[w]] /\ status[cur[w]] \notin Terminal /\ pc[w] # "idle"
    BY <1>9, <1>a DEF Publish, CanMove, RunInv, StatusInv, Terminal
  <2> QED BY <1>9, <2>1, EndKeepsRunInv DEF Publish, CommitPublication
<1>10. ASSUME PublishUnacked(w) PROVE RunInv'
  <2> USE <1>10 DEF PublishUnacked, CommitPublication, CanMove, MoveTo, Raise, Goto,
                    TypeOK, QueueTypeOK, RunInv
  <2>1. cur[w] \in Runs /\ ~cancelAsked[cur[w]]
    BY <1>a DEF StatusInv
  <2>2. AttachedInv' /\ OneWorkerPerRun'
    BY DEF AttachedInv, OneWorkerPerRun
  <2>3. OwnerInv'
    <3> SUFFICES ASSUME NEW v \in Workers, pc'[v] # "idle"
                 PROVE  /\ status'[cur'[v]] \notin
                                {"absent", "queued", "cancelled", "failed"}
                        /\ status'[cur'[v]] = "complete_with_warnings" =>
                                unacked'[cur'[v]] /\ pc'[v] \in Handler
      BY DEF OwnerInv
    <3>1. CASE v = w
      BY <2>1, <3>1 DEF Handler
    <3>2. CASE v # w
      <4>1. cur[v] # cur[w] /\ cur[v] \in Runs
        BY <2>1, <3>2 DEF OneWorkerPerRun, AttachedInv
      <4> QED BY <2>1, <3>2, <4>1 DEF OwnerInv
    <3> QED BY <3>1, <3>2
  <2>4. StatusInv' /\ VisibleIffComplete' /\ CompletionCheck'
    BY <2>1 DEF StatusInv, VisibleIffComplete, CompletionCheck, Terminal
  <2> QED BY <2>2, <2>3, <2>4
<1>11. ASSUME Settle(w) PROVE RunInv'
  <2>1. CASE UNCHANGED rowVars
    BY <1>11, <2>1, ReleaseKeepsRunInv DEF Settle, MaySettle
  <2>2. CASE /\ seen[w] \notin Terminal /\ CanMove(cur[w], seen[w])
             /\ MoveTo(cur[w], Outcome(seen[w]))
    <3>1. cancelAsked[cur[w]] => Outcome(seen[w]) = "cancelled"
      BY <1>11, <1>a, <2>2 DEF Settle, MaySettle, CanMove, Outcome, RunInv, StatusInv, Terminal
    <3> QED
      BY <1>11, <2>2, <3>1, EndKeepsRunInv DEF Settle, MaySettle, CanMove, Outcome
  <2> QED BY <1>11, <2>1, <2>2 DEF Settle, MaySettle
<1>12. ASSUME Die(w) PROVE RunInv'
  BY <1>12, ReleaseKeepsRunInv DEF Die
<1> QED
  BY <1>1, <1>2, <1>4, <1>5, <1>6, <1>7, <1>8, <1>9, <1>10, <1>11, <1>12
  DEF Progress, Fault

\* The steps of submitters, cancellations and the operator, which move rows
\* no worker holds, or to a status its worker will find out about.
LEMMA QueueStepKeepsRunInv ==
    ASSUME TypeOK, SubmissionInv, DecisionInv, RunInv, QueueNext,
           UNCHANGED <<workerVars, outputVars>>
    PROVE  RunInv'
<1> USE DEF TypeOK, QueueTypeOK, RunInv, workerVars, outputVars, rowVars,
            AttachedInv, OneWorkerPerRun, OwnerInv, StatusInv, VisibleIffComplete,
            CompletionCheck
<1>1. ASSUME UNCHANGED rowVars PROVE RunInv'
  BY <1>1
<1>2. ASSUME NEW r \in Runs, status[r] = "absent", InsertRow(r)
      PROVE  RunInv'
  BY <1>2 DEF InsertRow, Terminal
<1>3. ASSUME NEW r \in Runs, RequestCancellation(r)
      PROVE  RunInv'
  <2> USE <1>3 DEF RequestCancellation
  <2>1. status[r] \in {"queued"} \cup Working
    BY DEF Cancellable
  <2>2. /\ status' = [status EXCEPT ![r] = status'[r]]
        /\ status'[r] \in {"cancelled", "cancellation_requested"}
        /\ status'[r] = "cancelled" <=> status[r] = "queued"
    BY <2>1
  <2>3. AttachedInv' /\ OneWorkerPerRun'
    OBVIOUS
  <2>4. OwnerInv'
    BY <2>2
  <2>5. StatusInv' /\ VisibleIffComplete'
    BY <2>1, <2>2 DEF Working
  <2>6. ASSUME NEW q \in Runs PROVE completed'[q] <=> status'[q] \in Terminal
    <3>1. CASE q # r
      BY <3>1
    <3>2. CASE q = r
      <4>1. status[r] \notin Terminal
        BY <2>1 DEF Working, Terminal
      <4>2. completed'[r] <=> status[r] = "queued"
        <5>1. completed'[r] = (completed[r] \/ status[r] = "queued")
          BY ZenonT(20)
        <5>2. ~completed[r]
          BY <4>1
        <5> QED BY <5>1, <5>2
      <4>3. status'[r] \in Terminal <=> status'[r] = "cancelled"
        BY <2>2 DEF Terminal
      <4> QED BY <2>2, <3>2, <4>2, <4>3
    <3> QED BY <3>1, <3>2
  <2> QED BY <2>3, <2>4, <2>5, <2>6
<1>4. ASSUME NEW s \in Submitters, CommitSubmission(s) PROVE RunInv'
  BY <1>1, <1>2, <1>4 DEF CommitSubmission, SubmissionInv
<1> QED
  BY <1>1, <1>3, <1>4 DEF QueueNext, LockQueue, LockFree, DecideInsert, LoseSubmission, FlipWrites

-----------------------------------------------------------------------------
(* The files: each directory of a run is where its worker, or its end,     *)
(* says it is.                                                             *)

OutputInv == FilesInv /\ StoppedRunIsQuarantined /\ PublishedFilesInPlace

\* A busy worker disturbs the files, the row and the marks of its own run only.
LEMMA BusyStepKeepsOutputs ==
    ASSUME TypeOK, RunInv, OutputInv, NEW w \in Workers, pc[w] # "idle",
           \A v \in Workers \ {w} : pc'[v] = pc[v] /\ cur'[v] = cur[v],
           \A r \in Runs \ {cur[w]} :
                /\ files'[r] = files[r] /\ status'[r] = status[r]
                /\ visible'[r] = visible[r] /\ unacked'[r] = unacked[r],
           pc'[w] # "idle" =>
                cur'[w] = cur[w] /\ FilesAt(pc'[w], files'[cur[w]]),
           status'[cur[w]] \notin {"absent", "queued"},
           status'[cur[w]] \in {"cancelled", "failed"} =>
                files'[cur[w]] \subseteq {"quarantine"},
           visible'[cur[w]] /\ ~unacked'[cur[w]] =>
                files'[cur[w]] = {"archive", "processed"}
    PROVE  OutputInv'
<1> USE DEF RunInv, OutputInv
<1>1. cur[w] \in Runs
  BY DEF AttachedInv
<1>2. ASSUME NEW v \in Workers, pc'[v] # "idle"
      PROVE  FilesAt(pc'[v], files'[cur'[v]])
  <2>1. CASE v = w
    BY <1>2, <2>1
  <2>2. CASE v # w
    <3>1. pc'[v] = pc[v] /\ cur'[v] = cur[v] /\ cur[v] \in Runs \ {cur[w]}
      BY <1>1, <1>2, <2>2 DEF OneWorkerPerRun, AttachedInv, QueueAssumption
    <3>2. files'[cur'[v]] = files[cur[v]] /\ FilesAt(pc[v], files[cur[v]])
      BY <1>2, <3>1 DEF FilesInv
    <3> QED BY <3>1, <3>2
  <2> QED BY <2>1, <2>2
<1>3. ASSUME NEW r \in Runs
      PROVE  /\ status'[r] \in {"absent", "queued"} => files'[r] = {}
             /\ status'[r] \in {"cancelled", "failed"} =>
                    files'[r] \subseteq {"quarantine"}
             /\ visible'[r] /\ ~unacked'[r] => files'[r] = {"archive", "processed"}
  <2>1. CASE r = cur[w]
    BY <2>1
  <2>2. CASE r # cur[w]
    BY <2>2 DEF FilesInv, StoppedRunIsQuarantined, PublishedFilesInPlace
  <2> QED BY <2>1, <2>2
<1>4. FilesInv'
  BY <1>2, <1>3 DEF FilesInv
<1>5. StoppedRunIsQuarantined' /\ PublishedFilesInPlace'
  BY <1>3 DEF StoppedRunIsQuarantined, PublishedFilesInPlace
<1> QED BY <1>4, <1>5

\* What is known of the run of a busy worker.
LEMMA BusyRun ==
    ASSUME TypeOK, RunInv, OutputInv, NEW w \in Workers, pc[w] # "idle"
    PROVE  /\ cur[w] \in Runs
           /\ status[cur[w]] \notin {"absent", "queued", "cancelled", "failed"}
           /\ visible[cur[w]] => unacked[cur[w]]
           /\ FilesAt(pc[w], files[cur[w]])
<1>1. /\ cur[w] \in Runs
      /\ status[cur[w]] \notin {"absent", "queued", "cancelled", "failed"}
      /\ status[cur[w]] = "complete_with_warnings" => unacked[cur[w]]
  BY DEF RunInv, AttachedInv, OwnerInv
<1>2. visible[cur[w]] => status[cur[w]] = "complete_with_warnings"
  BY <1>1 DEF RunInv, VisibleIffComplete
<1> QED BY <1>1, <1>2 DEF OutputInv, FilesInv

\* A worker that changes nothing but its place and its directories.
LEMMA DirectoryStepKeepsOutputs ==
    ASSUME TypeOK, RunInv, OutputInv, NEW w \in Workers, pc[w] # "idle",
           NEW where, Goto(w, where), NEW dirs, FilesAt(where, dirs),
           files' = [files EXCEPT ![cur[w]] = dirs],
           UNCHANGED <<cur, status, visible, unacked>>
    PROVE  OutputInv'
<1>1. /\ cur[w] \in Runs
      /\ status[cur[w]] \notin {"absent", "queued", "cancelled", "failed"}
      /\ visible[cur[w]] => unacked[cur[w]]
  BY BusyRun
<1>2. /\ files'[cur[w]] = dirs
      /\ \A r \in Runs \ {cur[w]} : files'[r] = files[r]
  BY <1>1 DEF TypeOK
<1>3. pc'[w] = where /\ \A v \in Workers \ {w} : pc'[v] = pc[v]
  BY DEF Goto, TypeOK
<1> QED BY <1>1, <1>2, <1>3, BusyStepKeepsOutputs

\* Every step of a worker, faults included.
LEMMA WorkerStepKeepsOutputs ==
    ASSUME TypeOK, RunInv, OutputInv, NEW w \in Workers, Progress(w) \/ Fault(w)
    PROVE  OutputInv'
<1> USE DEF queueVars, rowVars, outputVars
<1>a. ASSUME pc[w] # "idle"
      PROVE  /\ cur[w] \in Runs
             /\ status[cur[w]] \notin {"absent", "queued", "cancelled", "failed"}
             /\ visible[cur[w]] => unacked[cur[w]]
             /\ FilesAt(pc[w], files[cur[w]])
  BY <1>a, BusyRun
<1>b. ASSUME NEW where, pc[w] # "idle", Goto(w, where),
             FilesAt(where, files[cur[w]]),
             UNCHANGED <<files, cur, status, visible, unacked>>
      PROVE  OutputInv'
  <2>1. files' = [files EXCEPT ![cur[w]] = files[cur[w]]]
    BY <1>b DEF TypeOK
  <2> QED BY <1>b, <2>1, DirectoryStepKeepsOutputs
<1>c. ASSUME pc[w] \in Body PROVE pc[w] # "idle" /\ FilesAt("failed", files[cur[w]])
  BY <1>a, <1>c DEF Body, FilesAt
<1>d. ASSUME pc[w] \in Body, Raise(w), UNCHANGED <<files, status, visible, unacked>>
      PROVE  OutputInv'
  BY <1>b, <1>c, <1>d DEF Raise
<1>1. ASSUME Claim(w) PROVE OutputInv'
  <2>1. PICK r \in Oldest(Claimable) :
            MoveTo(r, "resolving_inputs") /\ cur' = [cur EXCEPT ![w] = r]
    BY <1>1 DEF Claim
  <2>2. r \in Runs /\ status[r] = "queued" /\ files[r] = {}
    BY DEF Oldest, Claimable, Queued, OutputInv, FilesInv
  <2>3. UNCHANGED <<files, visible, unacked>>
    BY <1>1 DEF Claim
  <2>4. FilesInv'
    <3>1. ASSUME NEW v \in Workers, pc'[v] # "idle"
          PROVE  FilesAt(pc'[v], files'[cur'[v]])
      BY <1>1, <2>1, <2>2, <2>3, <3>1
         DEF Claim, Goto, TypeOK, OutputInv, FilesInv, FilesAt
    <3>2. ASSUME NEW q \in Runs, status'[q] \in {"absent", "queued"}
          PROVE  files'[q] = {}
      BY <2>1, <2>2, <2>3, <3>2
         DEF MoveTo, TypeOK, QueueTypeOK, OutputInv, FilesInv
    <3> QED BY <3>1, <3>2 DEF FilesInv
  <2>5. StoppedRunIsQuarantined' /\ PublishedFilesInPlace'
    BY <2>1, <2>2, <2>3
       DEF MoveTo, TypeOK, QueueTypeOK, OutputInv, StoppedRunIsQuarantined,
           PublishedFilesInPlace
  <2> QED BY <2>4, <2>5 DEF OutputInv
<1>2. ASSUME ResolveInputs(w) PROVE OutputInv'
  <2>1. pc[w] = "resolving" /\ pc[w] \in Body
    BY <1>2 DEF ResolveInputs, Body
  <2>2. CASE Raise(w) /\ UNCHANGED files
    BY <1>2, <1>d, <2>1, <2>2 DEF ResolveInputs
  <2>3. CASE /\ files' = [files EXCEPT ![cur[w]] = @ \cup {"work"}]
             /\ Goto(w, "resolved") /\ UNCHANGED cur
    <3>1. FilesAt("resolved", files[cur[w]] \cup {"work"})
      BY <1>a, <2>1 DEF FilesAt
    <3> QED BY <1>2, <2>1, <2>3, <3>1, DirectoryStepKeepsOutputs DEF ResolveInputs
  <2> QED BY <1>2, <2>2, <2>3 DEF ResolveInputs
<1>3. ASSUME NEW from \in Body, NEW expected \in Working, NEW new \in Working,
             NEW to \in Body, NEW checks, \A dirs : FilesAt(from, dirs) => FilesAt(to, dirs),
             EnterPhase(w, from, expected, new, to, checks)
      PROVE  OutputInv'
  <2>1. pc[w] = from /\ pc[w] # "idle"
    BY <1>3 DEF EnterPhase, Body
  <2>2. CASE CanMove(cur[w], expected)
    <3> USE <1>3, <2>1, <2>2 DEF EnterPhase
    <3>1. /\ \A r \in Runs \ {cur[w]} : status'[r] = status[r]
          /\ status'[cur[w]] = new
          /\ UNCHANGED <<cur, files, visible, unacked>>
      BY <1>a DEF MoveTo, TypeOK, QueueTypeOK
    <3>2. pc'[w] = to /\ \A v \in Workers \ {w} : pc'[v] = pc[v]
      BY DEF Goto, TypeOK
    <3>3. status'[cur[w]] \notin {"absent", "queued", "cancelled", "failed"}
      BY <3>1 DEF Working
    <3> QED BY <1>a, <3>1, <3>2, <3>3, BusyStepKeepsOutputs
  <2>3. CASE ~CanMove(cur[w], expected)
    BY <1>3, <1>d, <2>1, <2>3 DEF EnterPhase
  <2> QED BY <2>2, <2>3
<1>4. ASSUME StartEmissions(w) \/ StartTransport(w) \/ StartProcessing(w)
      PROVE  OutputInv'
  BY <1>3, <1>4
     DEF StartEmissions, StartTransport, StartProcessing, Working, Body, FilesAt
<1>5. ASSUME CheckCancellation(w) PROVE OutputInv'
  <2>1. CASE Raise(w)
    BY <1>5, <1>d, <2>1 DEF CheckCancellation, Body
  <2>2. CASE UNCHANGED <<pc, cur>>
    BY <1>5, <2>2 DEF CheckCancellation, OutputInv, FilesInv,
                      StoppedRunIsQuarantined, PublishedFilesInPlace
  <2> QED BY <1>5, <2>1, <2>2 DEF CheckCancellation
<1>6. ASSUME DeriveOutputs(w) PROVE OutputInv'
  <2>1. FilesAt("outputs", files[cur[w]] \cup {"processed"})
    BY <1>6, <1>a DEF DeriveOutputs, FilesAt
  <2> QED BY <1>6, <2>1, DirectoryStepKeepsOutputs DEF DeriveOutputs
<1>7. ASSUME ArchiveWork(w) PROVE OutputInv'
  <2>1. FilesAt("archived", (files[cur[w]] \ {"work"}) \cup {"archive"})
    BY <1>7, <1>a DEF ArchiveWork, FilesAt
  <2> QED BY <1>7, <2>1, DirectoryStepKeepsOutputs DEF ArchiveWork
<1>8. ASSUME QuarantineWork(w) PROVE OutputInv'
  <2> DEFINE old == files[cur[w]]
             dirs == IF "work" \in old THEN (old \ {"work"}) \cup {"quarantine"}
                     ELSE IF "archive" \in old THEN (old \ {"archive"}) \cup {"quarantine"}
                     ELSE old \cup {"quarantine"}
  <2>1. FilesAt("quarantining", dirs)
    BY <1>8, <1>a DEF QuarantineWork, FilesAt
  <2> QED BY <1>8, <2>1, DirectoryStepKeepsOutputs DEF QuarantineWork
<1>9. ASSUME QuarantineDisplay(w) PROVE OutputInv'
  <2>1. FilesAt("reading", files[cur[w]] \ {"processed"})
    BY <1>9, <1>a DEF QuarantineDisplay, FilesAt
  <2> QED BY <1>9, <2>1, DirectoryStepKeepsOutputs DEF QuarantineDisplay
<1>10. ASSUME ReadStatus(w) PROVE OutputInv'
  <2>1. FilesAt("settling", files[cur[w]])
    BY <1>10, <1>a DEF ReadStatus, FilesAt
  <2> QED BY <1>10, <1>b, <2>1 DEF ReadStatus
<1>11. ASSUME RefusePublication(w) \/ FailPhase(w) PROVE OutputInv'
  BY <1>11, <1>d DEF RefusePublication, FailPhase, Body
<1>12. ASSUME pc[w] = "archived", CommitPublication(cur[w]), UNCHANGED files,
              \/ BecomeIdle(w) /\ UNCHANGED unacked
              \/ Raise(w) /\ unacked' = [unacked EXCEPT ![cur[w]] = TRUE]
       PROVE OutputInv'
  <2> USE <1>12 DEF CommitPublication, TypeOK, QueueTypeOK
  <2>1. cur[w] \in Runs /\ files[cur[w]] = {"archive", "processed"}
    BY <1>a DEF FilesAt
  <2>2. /\ \A r \in Runs \ {cur[w]} : /\ status'[r] = status[r]
                                      /\ visible'[r] = visible[r]
                                      /\ unacked'[r] = unacked[r]
        /\ status'[cur[w]] = "complete_with_warnings"
    BY <2>1 DEF MoveTo
  <2>3. \A v \in Workers \ {w} : pc'[v] = pc[v] /\ cur'[v] = cur[v]
    BY DEF Raise, BecomeIdle, Goto
  <2>4. pc'[w] # "idle" => cur'[w] = cur[w] /\ FilesAt(pc'[w], files'[cur[w]])
    BY <2>1 DEF Raise, BecomeIdle, Goto, FilesAt
  <2>5. pc[w] # "idle"
    OBVIOUS
  <2> HIDE DEF TypeOK, QueueTypeOK
  <2> QED BY <2>1, <2>2, <2>3, <2>4, <2>5, BusyStepKeepsOutputs
<1>13. ASSUME Publish(w) \/ PublishUnacked(w) PROVE OutputInv'
  BY <1>12, <1>13 DEF Publish, PublishUnacked
<1>14. ASSUME pc[w] # "idle", BecomeIdle(w), UNCHANGED <<files, visible, unacked>>,
              \A r \in Runs \ {cur[w]} : status'[r] = status[r],
              status'[cur[w]] \notin {"absent", "queued"},
              status'[cur[w]] \in {"cancelled", "failed"} =>
                    files[cur[w]] \subseteq {"quarantine"}
       PROVE  OutputInv'
  <2>1. /\ \A v \in Workers \ {w} : pc'[v] = pc[v] /\ cur'[v] = cur[v]
        /\ pc'[w] = "idle"
    BY <1>14 DEF BecomeIdle, Goto, TypeOK
  <2> QED BY <1>14, <1>a, <2>1, BusyStepKeepsOutputs
<1>15. ASSUME Settle(w) PROVE OutputInv'
  <2>1. /\ pc[w] # "idle" /\ cur[w] \in Runs
        /\ status[cur[w]] \notin {"absent", "queued"}
        /\ files[cur[w]] \subseteq {"quarantine"}
    BY <1>15, <1>a DEF Settle, MaySettle, FilesAt
  <2>2. /\ \A r \in Runs \ {cur[w]} : status'[r] = status[r]
        /\ status'[cur[w]] \notin {"absent", "queued"}
    <3>1. CASE UNCHANGED rowVars
      BY <2>1, <3>1
    <3>2. CASE MoveTo(cur[w], Outcome(seen[w]))
      BY <2>1, <3>2 DEF MoveTo, Outcome, TypeOK, QueueTypeOK
    <3> QED BY <1>15, <3>1, <3>2 DEF Settle, MaySettle
  <2> QED BY <1>15, <1>14, <2>1, <2>2 DEF Settle, MaySettle
<1>16. ASSUME Die(w) PROVE OutputInv'
  BY <1>16, <1>14, <1>a DEF Die
<1> QED
  BY <1>1, <1>2, <1>4, <1>5, <1>6, <1>7, <1>8, <1>9, <1>10, <1>11, <1>13,
     <1>15, <1>16 DEF Progress, Fault

\* The steps of submitters, cancellations and the operator: a cancelled row was
\* queued, and a queued run has no directory yet.
LEMMA QueueStepKeepsOutputs ==
    ASSUME TypeOK, SubmissionInv, DecisionInv, RunInv, OutputInv, QueueNext,
           UNCHANGED <<workerVars, outputVars>>
    PROVE  OutputInv'
<1> USE DEF workerVars, outputVars, rowVars, OutputInv
<1>1. ASSUME \A r \in Runs :
                /\ status'[r] \in {"absent", "queued"} =>
                        status[r] \in {"absent", "queued"}
                /\ status'[r] \in {"cancelled", "failed"} =>
                        status[r] \in {"queued", "cancelled", "failed"}
      PROVE  OutputInv'
  <2>1. FilesInv'
    BY <1>1 DEF FilesInv
  <2>2. StoppedRunIsQuarantined'
    BY <1>1 DEF FilesInv, StoppedRunIsQuarantined
  <2>3. PublishedFilesInPlace'
    BY DEF PublishedFilesInPlace
  <2> QED BY <2>1, <2>2, <2>3
<1>2. ASSUME UNCHANGED rowVars PROVE OutputInv'
  BY <1>1, <1>2
<1>3. ASSUME NEW s \in Submitters, CommitSubmission(s) PROVE OutputInv'
  <2>1. CASE subInsert[s] /\ status[subRun[s]] = "absent" /\ InsertRow(subRun[s])
    <3>1. subRun[s] \in Runs
      BY <1>3 DEF CommitSubmission, SubmissionInv
    <3> QED BY <1>1, <2>1, <3>1 DEF InsertRow, TypeOK, QueueTypeOK
  <2> QED BY <1>2, <1>3, <2>1 DEF CommitSubmission
<1>4. ASSUME NEW r \in Runs, RequestCancellation(r) PROVE OutputInv'
  BY <1>1, <1>4 DEF RequestCancellation, Cancellable, Working, TypeOK, QueueTypeOK
<1> QED
  BY <1>2, <1>3, <1>4
  DEF QueueNext, LockQueue, LockFree, DecideInsert, LoseSubmission, FlipWrites

-----------------------------------------------------------------------------
(* The inductive invariant, and what follows from it.                      *)

\* Nothing has been submitted: every part of the invariant holds.
LEMMA InitIInv == Init => IInv
<1> SUFFICES ASSUME Init PROVE IInv
  OBVIOUS
<1> USE DEF Init, QueueInit
<1>1. TypeOK
  BY DEF TypeOK, QueueTypeOK
<1>2. SubmissionInv /\ DecisionInv
  BY DEF SubmissionInv, DecisionInv
<1>3. QueueBound
  <2>1. Queued = {}
    BY DEF Queued
  <2> QED BY <2>1, FS_EmptySet DEF QueueBound
<1>4. AttachedInv /\ OneWorkerPerRun /\ OwnerInv
  BY DEF AttachedInv, OneWorkerPerRun, OwnerInv
<1>5. StatusInv /\ VisibleIffComplete /\ CompletionCheck
  BY DEF StatusInv, VisibleIffComplete, CompletionCheck, Terminal
<1>6. FilesInv /\ StoppedRunIsQuarantined /\ PublishedFilesInPlace
  BY DEF FilesInv, StoppedRunIsQuarantined, PublishedFilesInPlace
<1> QED BY <1>1, <1>2, <1>3, <1>4, <1>5, <1>6 DEF IInv

\* The invariant, as the conjunction of the parts the lemmas above speak of.
LEMMA IInvParts ==
    IInv <=> /\ TypeOK /\ SubmissionInv /\ DecisionInv /\ QueueBound
             /\ RunInv /\ OutputInv
BY DEF IInv, RunInv, OutputInv

\* Every step keeps it.
LEMMA NextIInv == IInv /\ [Next]_vars => IInv'
<1> SUFFICES ASSUME IInv, [Next]_vars PROVE IInv'
  OBVIOUS
<1>0. TypeOK /\ SubmissionInv /\ DecisionInv /\ QueueBound /\ RunInv /\ OutputInv
  BY IInvParts
<1>1. ASSUME QueueNext, UNCHANGED <<workerVars, outputVars>> PROVE IInv'
  <2>1. TypeOK'
    BY <1>0, <1>1, QueueStepTypes DEF TypeOK, workerVars, outputVars
  <2>2. SubmissionInv' /\ DecisionInv' /\ QueueBound'
    BY <1>0, <1>1, QueueStepKeepsQueue
  <2>3. RunInv' /\ OutputInv'
    BY <1>0, <1>1, QueueStepKeepsRunInv, QueueStepKeepsOutputs
  <2> QED BY <2>1, <2>2, <2>3 DEF IInv, RunInv, OutputInv
<1>2. ASSUME NEW w \in Workers, Progress(w) \/ Fault(w) PROVE IInv'
  <2>1. TypeOK'
    BY <1>0, <1>2, WorkerStepTypes DEF RunInv
  <2>2. NoNewRow /\ UNCHANGED subVars
    BY <1>0, <1>2, WorkerMovesNoNewRow DEF RunInv
  <2>3. SubmissionInv' /\ DecisionInv' /\ QueueBound'
    BY <1>0, <2>2, NoNewRowKeepsQueue
  <2>4. RunInv' /\ OutputInv'
    BY <1>0, <1>2, WorkerStepKeepsRunInv, WorkerStepKeepsOutputs
  <2> QED BY <2>1, <2>3, <2>4 DEF IInv, RunInv, OutputInv
<1>3. CASE UNCHANGED vars
  BY <1>3
  DEF vars, queueVars, rowVars, subVars, switchVars, workerVars, outputVars, IInv,
      TypeOK, QueueTypeOK, SubmissionInv, DecisionInv, QueueBound, Queued,
      AttachedInv, OneWorkerPerRun, OwnerInv, StatusInv, VisibleIffComplete,
      CompletionCheck, FilesInv, StoppedRunIsQuarantined, PublishedFilesInPlace
<1> QED BY <1>1, <1>2, <1>3 DEF Next

\* The inductive invariant holds in every reachable state.
THEOREM Inductive == Spec => []IInv
<1>1. Init => IInv
  BY InitIInv
<1>2. IInv /\ [Next]_vars => IInv'
  BY NextIInv
<1> QED BY <1>1, <1>2, PTL DEF Spec

\* Every variable keeps its type.
THEOREM TypeCorrect == Spec => []TypeOK
<1>1. IInv => TypeOK
  BY DEF IInv
<1> QED BY <1>1, Inductive, PTL

\* However many submitters race, lock_queue.sql and create_run.sql keep the
\* number of queued rows within SMOKE_MAX_QUEUED_RUNS.
THEOREM QueueBounded == Spec => []QueueBound
<1>1. IInv => QueueBound
  BY DEF IInv
<1> QED BY <1>1, Inductive, PTL

\* However many worker tasks are alive, claim_next_run.sql never gives two of
\* them the same run.
THEOREM OneWorker == Spec => []OneWorkerPerRun
<1>1. IInv => OneWorkerPerRun
  BY DEF IInv
<1> QED BY <1>1, Inductive, PTL

\* The public timeline offers a run exactly when the run is complete.
THEOREM Visibility == Spec => []VisibleIffComplete
<1>1. IInv => VisibleIffComplete
  BY DEF IInv
<1> QED BY <1>1, Inductive, PTL

\* No statement ever meets the constraint simulation_run_completion_ck.
THEOREM Completion == Spec => []CompletionCheck
<1>1. IInv => CompletionCheck
  BY DEF IInv
<1> QED BY <1>1, Inductive, PTL

\* An accepted cancellation wins against a worker about to publish.
THEOREM CancellationWins == Spec => []CancelledNeverVisible
<1>1. IInv => CancelledNeverVisible
  BY DEF IInv, StatusInv, VisibleIffComplete, CancelledNeverVisible
<1> QED BY <1>1, Inductive, PTL

\* A cancelled or failed run leaves nothing outside quarantine, wherever the
\* worker was when it stopped.
THEOREM Quarantined == Spec => []StoppedRunIsQuarantined
<1>1. IInv => StoppedRunIsQuarantined
  BY DEF IInv
<1> QED BY <1>1, Inductive, PTL

\* A run that was published with an acknowledgement has its archive and its
\* display files in place for good.
THEOREM Published == Spec => []PublishedFilesInPlace
<1>1. IInv => PublishedFilesInPlace
  BY DEF IInv
<1> QED BY <1>1, Inductive, PTL

-----------------------------------------------------------------------------
(* What a step does to the row and the visibility of one run: the          *)
(* transitions of the abstract lifecycle.                                  *)

\* Run r moves along its lifecycle, without being published.
Advances(r) ==
    /\ \/ status[r] = "absent" /\ status'[r] = "queued"
       \/ status[r] = "queued" /\ status'[r] \in {"resolving_inputs", "cancelled"}
       \/ status[r] \in Working /\
            status'[r] \in Working \cup {"cancellation_requested", "failed"}
       \/ status[r] = "cancellation_requested" /\ status'[r] = "cancelled"
    /\ status' = [status EXCEPT ![r] = status'[r]]
    /\ UNCHANGED visible

\* Run r is published.
IsPublished(r) ==
    /\ status[r] = "processing_outputs"
    /\ status' = [status EXCEPT ![r] = "complete_with_warnings"]
    /\ visible' = [visible EXCEPT ![r] = TRUE]

\* A step moves at most one run, and that one along its lifecycle.
OneRunMoves ==
    \/ UNCHANGED <<status, visible>>
    \/ \E r \in Runs : Advances(r) \/ IsPublished(r)

\* An UPDATE of one row, and the row after it.
LEMMA MovedRow ==
    ASSUME TypeOK, NEW r \in Runs, NEW new, status' = [status EXCEPT ![r] = new]
    PROVE  status'[r] = new /\ status' = [status EXCEPT ![r] = status'[r]]
BY DEF TypeOK, QueueTypeOK

\* Every step is such a move.
LEMMA NextMovesOneRun ==
    ASSUME IInv, [Next]_vars PROVE OneRunMoves
<1> USE DEF OneRunMoves, rowVars
<1>0. TypeOK /\ SubmissionInv /\ DecisionInv /\ RunInv
  BY IInvParts
<1>a. ASSUME UNCHANGED status, UNCHANGED visible PROVE OneRunMoves
  BY <1>a
<1>1. ASSUME QueueNext, UNCHANGED <<workerVars, outputVars>> PROVE OneRunMoves
  <2>1. UNCHANGED visible
    BY <1>1 DEF outputVars
  <2>2. ASSUME NEW s \in Submitters, CommitSubmission(s) PROVE OneRunMoves
    <3>1. CASE subInsert[s] /\ status[subRun[s]] = "absent" /\ InsertRow(subRun[s])
      <4>1. subRun[s] \in Runs
        BY <1>0, <2>2 DEF CommitSubmission, SubmissionInv
      <4> QED BY <1>0, <2>1, <3>1, <4>1, MovedRow DEF InsertRow, Advances
    <3> QED BY <2>1, <2>2, <3>1 DEF CommitSubmission
  <2>3. ASSUME NEW r \in Runs, RequestCancellation(r) PROVE OneRunMoves
    <3>1. /\ status[r] \in {"queued"} \cup Working
          /\ status' = [status EXCEPT ![r] =
                IF status[r] = "queued" THEN "cancelled" ELSE "cancellation_requested"]
      BY <2>3 DEF RequestCancellation, Cancellable
    <3>2. /\ status' = [status EXCEPT ![r] = status'[r]]
          /\ status'[r] = IF status[r] = "queued" THEN "cancelled"
                          ELSE "cancellation_requested"
      BY <1>0, <3>1, MovedRow
    <3> QED BY <2>1, <3>1, <3>2 DEF Advances
  <2> QED
    BY <1>1, <2>1, <2>2, <2>3
    DEF QueueNext, LockQueue, LockFree, DecideInsert, LoseSubmission, FlipWrites
<1>2. ASSUME NEW w \in Workers, Progress(w) \/ Fault(w) PROVE OneRunMoves
  <2> USE DEF queueVars, outputVars
  <2>a. pc[w] # "idle" =>
            /\ cur[w] \in Runs
            /\ status[cur[w]] \in Working \cup {"cancellation_requested"} \cup Terminal
    BY <1>0 DEF RunInv, AttachedInv, OwnerInv, TypeOK, QueueTypeOK, Statuses
  <2>1. ASSUME Claim(w) PROVE OneRunMoves
    <3>1. PICK r \in Oldest(Claimable) : MoveTo(r, "resolving_inputs")
      BY <2>1 DEF Claim
    <3>2. r \in Runs /\ status[r] = "queued" /\ UNCHANGED visible
      BY <2>1 DEF Claim, Oldest, Claimable, Queued
    <3> QED BY <1>0, <3>1, <3>2, MovedRow DEF MoveTo, Advances
  <2>2. ASSUME NEW from, NEW expected \in Working, NEW new \in Working,
               NEW to, NEW checks, from # "idle",
               EnterPhase(w, from, expected, new, to, checks)
        PROVE  OneRunMoves
    <3>1. CASE CanMove(cur[w], expected)
      BY <1>0, <2>a, <2>2, <3>1, MovedRow DEF EnterPhase, CanMove, MoveTo, Advances
    <3>2. CASE ~CanMove(cur[w], expected)
      BY <2>2, <3>2 DEF EnterPhase
    <3> QED BY <3>1, <3>2
  <2>3. ASSUME StartEmissions(w) \/ StartTransport(w) \/ StartProcessing(w)
        PROVE  OneRunMoves
    BY <2>2, <2>3 DEF StartEmissions, StartTransport, StartProcessing, Working
  <2>4. ASSUME pc[w] # "idle", CanMove(cur[w], "processing_outputs"),
               CommitPublication(cur[w])
        PROVE  OneRunMoves
    BY <2>a, <2>4 DEF CanMove, CommitPublication, MoveTo, IsPublished
  <2>5. ASSUME Publish(w) \/ PublishUnacked(w) PROVE OneRunMoves
    BY <2>4, <2>5 DEF Publish, PublishUnacked
  <2>6. ASSUME Settle(w) PROVE OneRunMoves
    <3>1. CASE /\ seen[w] \notin Terminal /\ CanMove(cur[w], seen[w])
               /\ MoveTo(cur[w], Outcome(seen[w]))
      <4>1. /\ cur[w] \in Runs /\ UNCHANGED visible
            /\ status[cur[w]] \in Working \cup {"cancellation_requested"}
        BY <2>a, <2>6, <3>1 DEF Settle, MaySettle, CanMove
      <4>2. /\ status' = [status EXCEPT ![cur[w]] = status'[cur[w]]]
            /\ status'[cur[w]] = Outcome(status[cur[w]])
        BY <1>0, <3>1, <4>1, MovedRow DEF MoveTo, CanMove
      <4> QED BY <4>1, <4>2 DEF Advances, Outcome, Working
    <3>2. CASE UNCHANGED rowVars
      BY <2>6, <3>2 DEF Settle, MaySettle
    <3> QED BY <2>6, <3>1, <3>2 DEF Settle, MaySettle
  <2> QED
    BY <1>2, <2>1, <2>3, <2>5, <2>6
    DEF Progress, Fault, ResolveInputs, CheckCancellation, DeriveOutputs, ArchiveWork,
        RefusePublication, QuarantineWork, QuarantineDisplay, ReadStatus, FailPhase, Die
<1>3. ASSUME UNCHANGED vars PROVE OneRunMoves
  BY <1>3 DEF vars, queueVars, outputVars
<1> QED BY <1>1, <1>2, <1>3 DEF Next

\* A row that moves, moves forward: what a step may do to any one run.
LEMMA RowMoves ==
    ASSUME TypeOK, OneRunMoves, NEW q \in Runs, status'[q] # status[q]
    PROVE  /\ status[q] \notin Terminal
           /\ status[q] = "cancellation_requested" => status'[q] = "cancelled"
<1>1. PICK r \in Runs : Advances(r) \/ IsPublished(r)
  BY DEF OneRunMoves
<1>2. r = q
  BY <1>1 DEF Advances, IsPublished, TypeOK, QueueTypeOK
<1> QED BY <1>1, <1>2 DEF Advances, IsPublished, Working, Terminal

\* A terminal status is final, whichever late worker or late cancellation comes.
THEOREM TerminalStays == Spec => TerminalIsFinal
<1>1. ASSUME IInv, [Next]_vars
      PROVE  [\A r \in Runs : status[r] \in Terminal => status'[r] = status[r]]_vars
  BY <1>1, NextMovesOneRun, RowMoves DEF IInv
<1> QED BY <1>1, Inductive, PTL DEF Spec, TerminalIsFinal

\* A run whose cancellation was requested enters no further phase and does not
\* end in any other way.
THEOREM CancellationSticks == Spec => NoPhaseAfterCancellation
<1>1. ASSUME IInv, [Next]_vars
      PROVE  [\A r \in Runs : status[r] = "cancellation_requested" =>
                status'[r] \in {"cancellation_requested", "cancelled"}]_vars
  BY <1>1, NextMovesOneRun, RowMoves DEF IInv
<1> QED BY <1>1, Inductive, PTL DEF Spec, NoPhaseAfterCancellation

-----------------------------------------------------------------------------
(* Nobody takes over a run whose worker is gone.                           *)

\* A worker leaves the row of a run that is not queued and not its own alone,
\* and does not make it its own.
LEMMA WorkerLeavesOthers ==
    ASSUME TypeOK, RunInv, NEW w \in Workers, Progress(w) \/ Fault(w),
           NEW r \in Runs, status[r] # "queued", cur[w] # r
    PROVE  status'[r] = status[r] /\ cur'[w] # r
           /\ \A v \in Workers \ {w} : cur'[v] = cur[v]
<1> USE DEF TypeOK, QueueTypeOK, queueVars, rowVars, Goto
<1> DEFINE Goal == /\ status'[r] = status[r] /\ cur'[w] # r
                   /\ \A v \in Workers \ {w} : cur'[v] = cur[v]
<1>a. pc[w] # "idle" => cur[w] \in Runs
  BY DEF RunInv, AttachedInv
<1>b. ASSUME UNCHANGED status, UNCHANGED cur \/ BecomeIdle(w) PROVE Goal
  BY <1>b DEF BecomeIdle
<1>c. ASSUME NEW new, pc[w] # "idle", MoveTo(cur[w], new),
             UNCHANGED cur \/ BecomeIdle(w)
      PROVE  Goal
  BY <1>a, <1>c DEF MoveTo, BecomeIdle
<1>1. ASSUME Claim(w) PROVE Goal
  <2>1. PICK q \in Oldest(Claimable) :
            MoveTo(q, "resolving_inputs") /\ cur' = [cur EXCEPT ![w] = q]
    BY <1>1 DEF Claim
  <2>2. q \in Runs /\ q # r
    BY DEF Oldest, Claimable, Queued
  <2> QED BY <2>1, <2>2 DEF MoveTo
<1>2. ASSUME NEW from, NEW expected, NEW new, NEW to, NEW checks, from # "idle",
             EnterPhase(w, from, expected, new, to, checks)
      PROVE  Goal
  BY <1>2, <1>b, <1>c DEF EnterPhase, Raise
<1>3. ASSUME StartEmissions(w) \/ StartTransport(w) \/ StartProcessing(w) PROVE Goal
  BY <1>2, <1>3 DEF StartEmissions, StartTransport, StartProcessing
<1>4. ASSUME \/ ResolveInputs(w) \/ CheckCancellation(w) \/ DeriveOutputs(w)
             \/ ArchiveWork(w) \/ RefusePublication(w) \/ QuarantineWork(w)
             \/ QuarantineDisplay(w) \/ ReadStatus(w) \/ FailPhase(w) \/ Die(w)
      PROVE  Goal
  BY <1>4, <1>b
  DEF ResolveInputs, CheckCancellation, DeriveOutputs, ArchiveWork,
      RefusePublication, QuarantineWork, QuarantineDisplay, ReadStatus, FailPhase,
      Die, Raise
<1>5. ASSUME Publish(w) \/ PublishUnacked(w) PROVE Goal
  BY <1>5, <1>c DEF Publish, PublishUnacked, CommitPublication, Raise
<1>6. ASSUME Settle(w) PROVE Goal
  BY <1>6, <1>b, <1>c DEF Settle, MaySettle
<1> QED BY <1>1, <1>3, <1>4, <1>5, <1>6 DEF Progress, Fault

\* A run that was claimed, has not ended and has no worker stays that way: it
\* is never taken over and never ends.
THEOREM AbandonedStays == Spec => AbandonedIsForever
<1>1. ASSUME IInv, [Next]_vars, NEW r \in Runs, Abandoned(r)
      PROVE  Abandoned(r)'
  <2>0. TypeOK /\ SubmissionInv /\ DecisionInv /\ RunInv
    BY <1>1, IInvParts
  <2>1. /\ status[r] \in Working \cup {"cancellation_requested"}
        /\ \A w \in Workers : cur[w] # r
    BY <1>1 DEF Abandoned, Active, Owned
  <2>2. ASSUME /\ status'[r] \in Working \cup {"cancellation_requested"}
               /\ \A w \in Workers : cur'[w] # r
        PROVE  Abandoned(r)'
    BY <2>2 DEF Abandoned, Active, Owned
  <2>3. ASSUME QueueNext, UNCHANGED <<workerVars, outputVars>> PROVE Abandoned(r)'
    <3>1. UNCHANGED cur
      BY <2>3 DEF workerVars
    <3>2. ASSUME NEW s \in Submitters, CommitSubmission(s)
          PROVE  status'[r] = status[r]
      <4>1. CASE subInsert[s] /\ status[subRun[s]] = "absent" /\ InsertRow(subRun[s])
        BY <2>0, <2>1, <4>1 DEF InsertRow, Working, TypeOK, QueueTypeOK
      <4> QED BY <3>2, <4>1 DEF CommitSubmission, rowVars
    <3>3. ASSUME NEW q \in Runs, RequestCancellation(q)
          PROVE  status'[r] \in Working \cup {"cancellation_requested"}
      BY <2>0, <2>1, <3>3 DEF RequestCancellation, Working, TypeOK, QueueTypeOK
    <3>4. status'[r] \in Working \cup {"cancellation_requested"}
      BY <2>1, <2>3, <3>2, <3>3
      DEF QueueNext, LockQueue, LockFree, DecideInsert, LoseSubmission, FlipWrites, rowVars
    <3> QED BY <2>1, <2>2, <3>1, <3>4
  <2>4. ASSUME NEW w \in Workers, Progress(w) \/ Fault(w) PROVE Abandoned(r)'
    <3>1. status[r] # "queued"
      BY <2>1 DEF Working
    <3>2. /\ status'[r] = status[r] /\ cur'[w] # r
          /\ \A v \in Workers \ {w} : cur'[v] = cur[v]
      BY <2>0, <2>1, <2>4, <3>1, WorkerLeavesOthers
    <3> QED BY <2>1, <2>2, <3>2
  <2>5. CASE UNCHANGED vars
    BY <2>1, <2>2, <2>5 DEF vars, queueVars, rowVars, workerVars
  <2> QED BY <1>1, <2>3, <2>4, <2>5 DEF Next
<1>2. ASSUME IInv, [Next]_vars
      PROVE  [\A r \in Runs : Abandoned(r) => Abandoned(r)']_vars
  BY <1>1, <1>2
<1> QED BY <1>2, Inductive, PTL DEF Spec, AbandonedIsForever

-----------------------------------------------------------------------------
(* Refinement: queue and worker implement the lifecycle.                   *)

\* The initial states of the queue are initial states of the lifecycle.
LEMMA InitRefines == Init => Lifecycle!Init
<1>1. Stage("absent") = "absent"
  BY DEF Stage, Working
<1>2. ASSUME Init PROVE \A r \in Runs : Stage(status[r]) = "absent"
  BY <1>1, <1>2 DEF Init, QueueInit
<1>3. Init => visible = [r \in Runs |-> FALSE]
  BY DEF Init
<1> QED BY <1>2, <1>3 DEF Lifecycle!Init

\* A move of one row, seen through the refinement mapping.
LEMMA StageMoves ==
    ASSUME TypeOK, NEW r \in Runs, status' = [status EXCEPT ![r] = status'[r]]
    PROVE  [q \in Runs |-> Stage(status'[q])] =
                [[q \in Runs |-> Stage(status[q])] EXCEPT ![r] = Stage(status'[r])]
BY DEF TypeOK, QueueTypeOK

\* Every step of the queue is a step of the lifecycle, or none.
LEMMA NextRefines ==
    ASSUME IInv, [Next]_vars PROVE [Lifecycle!Next]_(Lifecycle!vars)
<1> USE DEF Lifecycle!vars
<1>0. TypeOK /\ OneRunMoves
  BY NextMovesOneRun DEF IInv
<1>1. CASE UNCHANGED <<status, visible>>
  BY <1>1
<1>2. ASSUME NEW r \in Runs, Advances(r) PROVE [Lifecycle!Next]_(Lifecycle!vars)
  <2>1. /\ [q \in Runs |-> Stage(status'[q])] =
                [[q \in Runs |-> Stage(status[q])] EXCEPT ![r] = Stage(status'[r])]
        /\ UNCHANGED visible
    BY <1>0, <1>2, StageMoves DEF Advances
  <2> USE DEF Lifecycle!Next, Lifecycle!Move, Working
  <2>2. CASE status[r] = "absent" /\ status'[r] = "queued"
    <3>1. Lifecycle!Submit(r)
      BY <2>1, <2>2 DEF Lifecycle!Submit, Stage
    <3> QED BY <3>1
  <2>3. CASE status[r] = "queued" /\ status'[r] \in {"resolving_inputs", "cancelled"}
    <3>1. Lifecycle!Start(r) \/ Lifecycle!Withdraw(r)
      BY <2>1, <2>3 DEF Lifecycle!Start, Lifecycle!Withdraw, Stage
    <3> QED BY <3>1
  <2>4. CASE status[r] \in Working /\ status'[r] \in Working
    <3>1. Stage(status'[r]) = Stage(status[r])
      BY <2>4 DEF Stage
    <3> QED BY <2>1, <3>1
  <2>5. CASE status[r] \in Working /\ status'[r] \in {"cancellation_requested", "failed"}
    <3>1. Lifecycle!RequestStop(r) \/ Lifecycle!Stop(r)
      BY <2>1, <2>5 DEF Lifecycle!RequestStop, Lifecycle!Stop, Stage
    <3> QED BY <3>1
  <2>6. CASE status[r] = "cancellation_requested" /\ status'[r] = "cancelled"
    <3>1. Lifecycle!Stop(r)
      BY <2>1, <2>6 DEF Lifecycle!Stop, Stage
    <3> QED BY <3>1
  <2> QED BY <1>2, <2>2, <2>3, <2>4, <2>5, <2>6 DEF Advances
<1>3. ASSUME NEW r \in Runs, IsPublished(r) PROVE [Lifecycle!Next]_(Lifecycle!vars)
  <2>1. /\ status'[r] = "complete_with_warnings"
        /\ [q \in Runs |-> Stage(status'[q])] =
                [[q \in Runs |-> Stage(status[q])] EXCEPT ![r] = Stage(status'[r])]
        /\ visible' = [visible EXCEPT ![r] = TRUE]
    BY <1>0, <1>3, MovedRow, StageMoves DEF IsPublished
  <2>2. Lifecycle!Publish(r)
    BY <1>3, <2>1 DEF IsPublished, Lifecycle!Publish, Lifecycle!Move, Stage, Working
  <2> QED BY <2>2 DEF Lifecycle!Next
<1> QED BY <1>0, <1>1, <1>2, <1>3 DEF OneRunMoves

\* The queue and its workers implement the lifecycle of SmokeRunLifecycle.
THEOREM Refinement == Spec => ImplementsLifecycle
<1>1. Init => Lifecycle!Init
  BY InitRefines
<1>2. ASSUME IInv, [Next]_vars PROVE [Lifecycle!Next]_(Lifecycle!vars)
  BY <1>2, NextRefines
<1> QED BY <1>1, <1>2, Inductive, PTL DEF Spec, ImplementsLifecycle, Lifecycle!Spec
=============================================================================
