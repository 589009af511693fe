----------------------- MODULE AcceptanceCanaryProofs ----------------------
(***************************************************************************)
(* Theorems about AcceptanceCanary, for every set of workers, every target *)
(* and every number of kills.  The queue and its workers go on under the   *)
(* release tool as before (QueueWorkerProofs, ObjectStoreProofs).          *)
(***************************************************************************)
EXTENDS AcceptanceCanary, ObjectStoreProofs

Row0 == queue[Canary]

\* From the moment it judges or cleans up, the tool knows the row to be settled.
RowSettled ==
  tool \in {"verifying", "removing", "done"} => Row0.state \in {"completed", "dead"}

\* What the tool holds of the row is so: it was completed, and in its only attempt.
RowSeen ==
  /\ success => Row0.state = "completed"
  /\ tool = "verifying" \/ verdict = "passed" => success /\ Row0.attempts = 1

\* It passes only on its way out, and ends as passed only with the object removed.
PassedLast ==
  /\ verdict = "passed" => tool \in {"removing", "done", "killed"}
  /\ tool = "done" /\ verdict = "passed" => removed

\* Removal is the last thing it does.
RemovedLast == removed => tool = "done" /\ NoLitter

\* The inductive invariant, next to that of the queue.
CanaryInv == ObjectsOK /\ RowSettled /\ RowSeen /\ PassedLast /\ RemovedLast

-----------------------------------------------------------------------------
\* All but the removal of the object is a step of the bucket and the queue.
LEMMA CanarySteps ==
  ASSUME [CanaryNext]_canaryVars
  PROVE  [Next]_vars /\ ([StoreNext]_storeVars \/ RemoveCanary \/ RemoveError)
<1> USE DEF canaryVars, storeVars
<1>1. CASE StoreStep
  BY <1>1, StoreSteps DEF StoreNext
<1>2. CASE Clients
  <2>1. (Environment \/ \E w \in Workers : Start(w)) /\ UNCHANGED objects
    BY <1>2 DEF Clients, Environment
  <2> QED
    BY <2>1 DEF Next, StoreNext
<1>3. CASE Submit
  <2>1. Environment /\ UNCHANGED objects
    BY <1>3, CanaryAssumption DEF Submit, Environment
  <2> QED
    BY <2>1 DEF Next, StoreNext
<1>4. CASE CancelCanary
  <2>1. CASE Cancel(Canary)
    <3>1. Environment /\ UNCHANGED objects
      BY <1>4, <2>1, CanaryAssumption DEF CancelCanary, Environment
    <3> QED
      BY <3>1 DEF Next, StoreNext
  <2>2. CASE UNCHANGED tables
    BY <1>4, <2>2 DEF CancelCanary, vars
  <2> QED
    BY <1>4, <2>1, <2>2 DEF CancelCanary
<1>5. CASE SeeCompleted \/ GiveUp \/ VerifyCanary \/ KillTool
  BY <1>5 DEF SeeCompleted, GiveUp, VerifyCanary, KillTool
<1>6. CASE RemoveCanary \/ RemoveError
  BY <1>6 DEF RemoveCanary, RemoveError
<1> QED
  BY <1>1, <1>2, <1>3, <1>4, <1>5, <1>6 DEF CanaryNext, Release

\* What holds of every behaviour of the queue holds under the release tool.
THEOREM QueueUnderCanary == CanarySpec => Spec
<1>1. CanaryInit => Init
  BY DEF CanaryInit, StoreInit
<1>2. [CanaryNext]_canaryVars => [Next]_vars
  BY CanarySteps
<1> QED
  BY <1>1, <1>2, PTL DEF CanarySpec, Spec

\* A settled row stays as it is, whatever sessions still have to say about it.
LEMMA SettledStays ==
  ASSUME IInv, [Next]_vars, NEW j \in Jobs, queue[j].state \in {"completed", "dead"}
  PROVE  queue'[j] = queue[j]
<1>1. ASSUME NEW w \in Workers, Commit(w)
      PROVE  queue'[j] = queue[j]
  <2>1. ASSUME lock[j] = w, draft[j] # None
        PROVE  FALSE
    <3>1. DraftOf(w, j)
      BY <2>1 DEF IInv, LocksInv, DraftsWritten
    <3> QED
      BY <3>1 DEF DraftOf, Exhausted, Retryable, Stale, Owned
  <2> QED
    BY <1>1, <2>1 DEF Commit
<1>2. ASSUME NEW i \in Jobs, \/ Enqueue(i) \/ Pause(i) \/ Resume(i) \/ Cancel(i)
                             \/ Expire(i) \/ BecomeReady(i)
      PROVE  queue'[j] = queue[j]
  BY <1>2 DEF IInv, TablesOK, Enqueue, Pause, Resume, Cancel, Update, Expire,
              BecomeReady
<1> QED
  BY <1>1, <1>2, QueueSteps

\* What the workers, the clock and the clients do, unless the tool is still
\* waiting, leaves the row and what the tool holds of it alone.
LEMMA RowStays ==
  ASSUME IInv, CanaryInv, [CanaryNext]_canaryVars,
         \/ tool \in {"verifying", "removing", "done"} \/ success \/ verdict = "passed"
  PROVE  Row0' = Row0 /\ Row0.state \in {"completed", "dead"}
<1>1. Row0.state \in {"completed", "dead"}
  BY DEF CanaryInv, RowSettled, RowSeen
<1> QED
  BY <1>1, CanarySteps, SettledStays, CanaryAssumption DEF Row0

\* The bucket keeps its types when the tool removes the object.
LEMMA CanaryObjectsStep ==
  ASSUME IInv, CanaryInv, [CanaryNext]_canaryVars
  PROVE  ObjectsOK'
<1>1. ASSUME RemoveCanary \/ RemoveError PROVE ObjectsOK'
  BY <1>1 DEF RemoveCanary, RemoveError, CanaryInv, ObjectsOK, vars, locals
<1> QED
  BY <1>1, CanarySteps, ObjectsStep DEF CanaryInv

\* Judging, cancelling and cleaning up keep what is said of the row and the verdict.
LEMMA JudgementStep ==
  ASSUME IInv, CanaryInv, [CanaryNext]_canaryVars
  PROVE  RowSettled' /\ RowSeen' /\ PassedLast'
<1> USE DEF CanaryInv, RowSettled, RowSeen, PassedLast, ToolGoto
<1>1. CASE UNCHANGED release
  BY <1>1, RowStays DEF release
<1>2. CASE Submit \/ GiveUp \/ KillTool
  BY <1>2, RowStays DEF Submit, GiveUp, KillTool
<1>3. CASE SeeCompleted
  BY <1>3, RowStays DEF SeeCompleted, Row0, vars, tables
<1>4. CASE VerifyCanary
  BY <1>4, RowStays DEF VerifyCanary
<1>5. CASE CancelCanary
  <2>1. Row0'.state \in {"completed", "dead"}
    <3>1. CASE Cancel(Canary)
      <4>1. queue \in [Jobs -> Row] /\ Canary \in Jobs
        BY CanaryAssumption DEF IInv, TablesOK
      <4>2. Buried(queue[Canary]).state = "dead"
        BY <4>1, RowFields
      <4> QED
        BY <3>1, <4>1, <4>2 DEF Cancel, Update, Row0
    <3>2. CASE queue[Canary].state \in {"completed", "dead"} /\ UNCHANGED tables
      BY <3>2 DEF Row0, tables
    <3> QED
      BY <1>5, <3>1, <3>2 DEF CancelCanary
  <2> QED
    BY <1>5, <2>1, RowStays DEF CancelCanary
<1>6. CASE RemoveCanary \/ RemoveError
  BY <1>6, RowStays DEF RemoveCanary, RemoveError
<1> QED
  BY <1>1, <1>2, <1>3, <1>4, <1>5, <1>6 DEF CanaryNext, Release, canaryVars

\* Once the row is settled no worker is inside a fence, so that nobody but a late
\* PUT can bring the object back.
LEMMA RemovalStep ==
  ASSUME IInv, CanaryInv, [CanaryNext]_canaryVars
  PROVE  RemovedLast'
<1> USE DEF CanaryInv, RemovedLast, NoLitter, Exited
<1>1. CASE RemoveCanary
  BY <1>1, CanaryAssumption DEF RemoveCanary, ToolGoto, ObjectsOK, Keys
<1>2. CASE ~RemoveCanary
  <2>1. removed' = removed /\ (removed => tool' = tool)
    BY <1>2 DEF CanaryNext, Release, canaryVars, release, Submit, SeeCompleted, GiveUp,
                VerifyCanary, CancelCanary, RemoveError, KillTool, ToolGoto
  <2> SUFFICES ASSUME removed
               PROVE  stored'[Object[Canary]] = None \/ Object[Canary] \in late'
    BY <2>1
  <2>2. [StoreNext]_storeVars
    BY <1>2, CanarySteps DEF RemoveError, ToolGoto
  <2>3. ASSUME NEW w \in Workers PROVE pc[w] # "putting"
    <3>1. Row0.state \in {"completed", "dead"}
      BY DEF RowSettled
    <3>2. pc[w] = "putting" => held[w] = Canary
      BY CanaryAssumption DEF IInv, LocalsInv, JobsHeld, JobSteps
    <3> QED
      BY <3>1, <3>2 DEF IInv, LocksInv, RowsSelected, Owned, Row0
  <2>4. CASE Arrive
    BY <2>4 DEF Arrive, ObjectsOK
  <2>5. CASE UNCHANGED <<stored, late>>
    BY <2>5
  <2> QED
    BY <2>2, <2>3, <2>4, <2>5
       DEF StoreNext, StoreStep, storeVars, objects, Stat, Put, WorkerStep, KillWorker
<1> QED
  BY <1>1, <1>2

\* The inductive invariants of the queue and of the tool hold throughout.
LEMMA CanaryInvariance == CanarySpec => [](IInv /\ CanaryInv)
<1>1. CanaryInit => CanaryInv
  BY DEF CanaryInit, StoreInit, Init, ObjectsInit, CanaryInv, ObjectsOK, RowSettled,
         RowSeen, PassedLast, RemovedLast
<1>2. IInv /\ CanaryInv /\ [CanaryNext]_canaryVars => CanaryInv'
  BY CanaryObjectsStep, JudgementStep, RemovalStep DEF CanaryInv
<1>3. CanarySpec => []IInv
  BY QueueUnderCanary, Invariance, PTL
<1> QED
  BY <1>1, <1>2, <1>3, PTL DEF CanarySpec

-----------------------------------------------------------------------------
\* run_acceptance_canary passes only a canary that the consumer completed in its
\* only attempt and whose object is removed.
THEOREM VerdictEarned == CanarySpec => []PassedMeansDone
<1>1. CanaryInv => PassedMeansDone
  BY DEF CanaryInv, RowSeen, PassedLast, PassedMeansDone, Exited, Row0
<1> QED
  BY <1>1, CanaryInvariance, PTL

\* However the tool ends, it leaves no row in the queue.
THEOREM RowLeftSettled == CanarySpec => []SettledOnExit
<1>1. CanaryInv => SettledOnExit
  BY DEF CanaryInv, RowSettled, SettledOnExit, Exited, Row0
<1> QED
  BY <1>1, CanaryInvariance, PTL

\* Once removed, the object stays away unless a PUT whose call has ended in an error
\* or in a kill, or that was sent again, is done later.
THEOREM ObjectStaysAway == CanarySpec => []NoLitter
<1>1. CanaryInv => NoLitter
  BY DEF CanaryInv, RemovedLast, NoLitter
<1> QED
  BY <1>1, CanaryInvariance, PTL

=============================================================================
