------------------------- MODULE ObjectStoreProofs -------------------------
(***************************************************************************)
(* Theorems about ObjectStore, for every set of workers and rows and every *)
(* assignment of object keys.  What holds of the queue (QueueWorkerProofs) *)
(* holds under the bucket too, as each step here is a step or a stutter    *)
(* there.                                                                  *)
(***************************************************************************)
EXTENDS ObjectStore, QueueWorkerProofs

\* steps from validate_payload to the ACK
PageSteps == {"working", "extended", "fencing", "putting", "acknowledged"}

\* An object a worker found absent is absent still when it sends its PUT: the
\* advisory lock keeps the other workers away from the key.
AbsentStill ==
  \A w \in Workers : pc[w] = "putting" /\ io[w] = "absent" =>
    stored[Key(w)] = None \/ Key(w) \in late

\* Once a worker has written a page, the bucket has it as that worker wrote it.
PageStored ==
  \A w \in Workers :
    pc[w] \in PageSteps /\ Kind[held[w]] = "scrape" /\ left[w] < Rounds[held[w]] =>
      stored[Key(w)] = Body(w) \/ Key(w) \in late

\* the ACK comes after the last remote step
AckCounted == \A w \in Workers : pc[w] = "acknowledged" => left[w] = 0

\* The inductive invariant, next to that of the queue.
StoreInv == ObjectsOK /\ AbsentStill /\ PageStored /\ AckCounted /\ RecordedIsStored

storeVars == <<vars, objects>>

-----------------------------------------------------------------------------
\* The bucket adds nothing to the queue: every step of it is a step of the queue
\* or leaves the queue as it was.
LEMMA StoreSteps ==
  ASSUME [StoreNext]_storeVars
  PROVE  [Next]_vars
<1> USE DEF StoreNext, StoreStep, storeVars, Next
<1>1. ASSUME NEW w \in Workers, Stat(w) \/ Put(w) PROVE UNCHANGED vars
  BY <1>1 DEF Stat, Put
<1>2. ASSUME NEW w \in Workers, WorkerStep(w) \/ KillWorker(w) PROVE Next
  BY <1>2 DEF WorkerStep, KillWorker
<1>3. ASSUME Arrive PROVE UNCHANGED vars
  BY <1>3 DEF Arrive
<1>4. ASSUME NEW w \in Workers, Start(w) PROVE Next
  BY <1>4
<1> QED
  BY <1>1, <1>2, <1>3, <1>4

\* What holds of every behaviour of the queue holds under the bucket.
THEOREM QueueUnderStore == StoreSpec => Spec
<1>1. StoreInit => Init
  BY DEF StoreInit
<1>2. [StoreNext]_<<vars, objects>> => [Next]_vars
  BY StoreSteps DEF storeVars
<1> QED
  BY <1>1, <1>2, PTL DEF StoreSpec, Spec

\* A step of a worker leaves the others where they are.  What it holds, and how
\* many remote steps it has left, changes only at the ends of an attempt, when a
\* page is written and, in a discovery, with the heartbeat.
LEMMA WorkerMoves ==
  ASSUME IInv, NEW w \in Workers, Step(w) \/ Start(w) \/ Crash(w)
  PROVE  /\ \A v \in Workers \ {w} : /\ pc'[v] = pc[v] /\ held'[v] = held[v]
                                     /\ token'[v] = token[v] /\ left'[v] = left[v]
         /\ pc'[w] \in PageSteps =>
              /\ held'[w] = held[w] /\ token'[w] = token[w]
              /\ \/ pc[w] = "loading" /\ left'[w] = Rounds[held[w]]
                 \/ /\ pc[w] \in PageSteps
                    /\ \/ left'[w] = left[w]
                       \/ pc[w] = "putting" /\ pc'[w] = "working"
                       \/ Kind[held[w]] # "scrape"
              /\ pc'[w] = "acknowledged" => left'[w] = 0
<1> USE DEF IInv, LocalsInv, LocalsOK, PageSteps, Goto, Return
<1>1. CASE Recovery(w)
  BY <1>1 DEF Recovery, RecoverLetters, ScanDead, ScanRetryable, CommitRecovery,
     BuryStale, RequeueStale, Visit
<1>2. CASE \E j \in Jobs : Claim(w, j)
  BY <1>2 DEF Claim
<1>3. CASE ClaimNothing(w) \/ CommitClaim(w) \/ Reject(w) \/ RejectRow(w)
  BY <1>3 DEF ClaimNothing, CommitClaim, Reject, RejectRow
<1>4. CASE Accept(w)
  BY <1>4 DEF Accept
<1>5. CASE Heartbeat(w) \/ CommitHeartbeat(w) \/ RemoteError(w)
  BY <1>5 DEF Heartbeat, CommitHeartbeat, RemoteError
<1>6. CASE Fence(w) \/ FenceRejected(w) \/ PutObject(w) \/ PutError(w)
  BY <1>6 DEF Fence, FenceRejected, PutObject, PutError
<1>7. CASE Complete(w) \/ CompleteLate(w) \/ CanaryLate(w)
  BY <1>7 DEF Complete, CompleteLate, CanaryLate
<1>8. CASE LockFailed(w) \/ FailLost(w) \/ Retry(w) \/ Bury(w) \/ CommitOutcome(w)
  BY <1>8 DEF LockFailed, FailLost, Retry, Bury, CommitOutcome
<1>9. CASE Restart(w) \/ Start(w) \/ DeadlockAbort(w) \/ Crash(w)
  <2>1. Restart(w) \/ Start(w) \/ Die(w)
    BY <1>9 DEF DeadlockAbort, Crash
  <2>2. pc[w] \notin PageSteps \/ pc'[w] = "down"
    BY <2>1 DEF Restart, Start, Die
  <2> QED
    BY <2>1, <2>2 DEF Restart, Start, Die
<1> QED
  BY <1>1, <1>2, <1>3, <1>4, <1>5, <1>6, <1>7, <1>8, <1>9 DEF Step, Work

\* A row that a worker's step makes completed is the row it acknowledged.
LEMMA AckCompletes ==
  ASSUME IInv, NEW w \in Workers, Step(w), NEW j \in Jobs,
         queue[j].state # "completed", queue'[j].state = "completed"
  PROVE  pc[w] = "acknowledged" /\ held[w] = j
<1> USE DEF IInv, TablesOK
<1>0. queue[j] \in Row /\ [Next]_vars
  BY DEF Next
<1>1. \A v \in Workers : pc'[v] # pc[v] => v = w
  BY WorkerMoves
<1>2. ASSUME NEW v \in Workers, Commit(v), v = w
      PROVE  pc[w] = "acknowledged" /\ held[w] = j
  <2>1. lock[j] = w /\ draft[j] # None /\ draft[j].state = "completed"
    BY <1>2 DEF Commit
  <2>2. DraftOf(w, j) /\ token[w] \in Nat
    BY <2>1 DEF LocksInv, DraftsWritten, LocalsInv, LocalsOK
  <2>3. pc[w] = "acknowledged"
    BY <1>0, <2>1, <2>2, RowFields DEF DraftOf
  <2> QED
    BY <2>1, <2>3, NoneAssumption DEF LocksInv, LocksHeld, ScanSteps
<1>3. ASSUME NEW i \in Jobs, \/ Enqueue(i) \/ Pause(i) \/ Resume(i) \/ Cancel(i)
                             \/ Expire(i) \/ BecomeReady(i)
      PROVE  FALSE
  <2>1. /\ [queue[j] EXCEPT !.state = "paused"].state = "paused"
        /\ [queue[j] EXCEPT !.state = "pending"].state = "pending"
        /\ [Absent EXCEPT !.state = "pending"].state = "pending"
    BY <1>0 DEF Row, Absent
  <2>2. Buried(queue[j]).state = "dead"
    BY <1>0, RowFields
  <2>3. /\ [queue[j] EXCEPT !.lease = "expired"].state = queue[j].state
        /\ [queue[j] EXCEPT !.ready = TRUE].state = queue[j].state
    BY <1>0, ClockFields
  <2>4. CASE Enqueue(i) \/ Pause(i) \/ Resume(i) \/ Cancel(i)
    BY <2>1, <2>2, <2>4 DEF Enqueue, Pause, Resume, Cancel, Update
  <2>5. CASE Expire(i) \/ BecomeReady(i)
    BY <2>3, <2>5 DEF Expire, BecomeReady
  <2> QED
    BY <1>3, <2>4, <2>5
<1> QED
  BY <1>0, <1>1, <1>2, <1>3, QueueSteps

\* A worker inside its fence has a key and a body.
LEMMA FencedBody ==
  ASSUME IInv, NEW w \in Workers, pc[w] \in PageSteps
  PROVE  held[w] \in Jobs /\ Key(w) \in Keys /\ Body(w) \in Bodies
BY DEF IInv, LocalsInv, LocalsOK, JobsHeld, JobSteps, PageSteps, Keys, Key, Bodies,
       Body, NoToken

\* A PUT that is given up names a key and a body.
LEMMA UnansweredTyped ==
  ASSUME IInv, ObjectsOK, NEW w \in Workers, pc[w] \in PageSteps, Unanswered(w)
  PROVE  flight' \subseteq Keys \X Bodies
BY FencedBody DEF Unanswered, ObjectsOK

\* The variables of the bucket keep their types, and no object is looked at or
\* written outside the fence.
LEMMA ObjectsStep ==
  ASSUME IInv, ObjectsOK, [StoreNext]_storeVars
  PROVE  ObjectsOK'
<1> USE DEF ObjectsOK, Keys
<1>1. ASSUME NEW w \in Workers, Stat(w) PROVE ObjectsOK'
  BY <1>1 DEF Stat, vars, locals
<1>2. ASSUME NEW w \in Workers, Put(w) PROVE ObjectsOK'
  <2>1. Body(w) \in Bodies
    BY <1>2, FencedBody DEF Put, PageSteps
  <2>2. flight' \subseteq Keys \X Bodies
    BY <1>2, UnansweredTyped DEF Put, PageSteps
  <2> QED
    BY <1>2, <2>1, <2>2 DEF Put, vars, locals
<1>3. ASSUME NEW w \in Workers, WorkerStep(w) PROVE ObjectsOK'
  <2>1. \A v \in Workers \ {w} : pc'[v] = pc[v]
    BY <1>3, WorkerMoves DEF WorkerStep
  <2>2. ASSUME NEW j \in Jobs PROVE recorded'[j] \in Bodies \cup {None}
    <3>1. CASE queue[j].state # "completed" /\ queue'[j].state = "completed"
      <4>1. pc[w] = "acknowledged"
        BY <1>3, <3>1, AckCompletes DEF WorkerStep
      <4>2. Body(w) \in Bodies
        BY <4>1, FencedBody DEF PageSteps
      <4> QED
        BY <1>3, <4>2 DEF WorkerStep, Record
    <3> QED
      BY <1>3, <3>1 DEF WorkerStep, Record
  <2>3. recorded' \in [Jobs -> Bodies \cup {None}]
    BY <1>3, <2>2 DEF WorkerStep, Record
  <2>4. flight' \subseteq Keys \X Bodies
    BY <1>3, UnansweredTyped DEF WorkerStep, Sending, PageSteps
  <2> QED
    BY <1>3, <2>1, <2>3, <2>4 DEF WorkerStep
<1>4. ASSUME NEW w \in Workers, KillWorker(w) PROVE ObjectsOK'
  <2>1. \A v \in Workers \ {w} : pc'[v] = pc[v]
    BY <1>4, WorkerMoves DEF KillWorker
  <2>2. flight' \subseteq Keys \X Bodies
    BY <1>4, UnansweredTyped DEF KillWorker, Sending, PageSteps
  <2> QED
    BY <1>4, <2>1, <2>2 DEF KillWorker
<1>5. ASSUME Arrive PROVE ObjectsOK'
  <2>1. PICK f \in flight : /\ stored' = [stored EXCEPT ![f[1]] = f[2]]
                            /\ flight' = flight \ {f}
                            /\ late' = late \cup {f[1]}
                            /\ UNCHANGED <<vars, io, recorded>>
    BY <1>5 DEF Arrive
  <2>2. f[1] \in Keys /\ f[2] \in Bodies
    OBVIOUS
  <2> QED
    BY <2>1, <2>2 DEF vars, locals
<1>6. ASSUME UNCHANGED objects, UNCHANGED pc PROVE ObjectsOK'
  BY <1>6 DEF objects
<1>7. ASSUME NEW w \in Workers, Start(w), UNCHANGED objects PROVE ObjectsOK'
  <2>1. pc[w] # "putting" /\ \A v \in Workers \ {w} : pc'[v] = pc[v]
    BY <1>7, WorkerMoves DEF Start, Goto
  <2> QED
    BY <1>7, <2>1 DEF objects
<1> QED
  BY <1>1, <1>2, <1>3, <1>4, <1>5, <1>6, <1>7
     DEF StoreNext, StoreStep, storeVars, Environment, vars, locals

-----------------------------------------------------------------------------
\* An object that is there is replaced only by a PUT nobody waits for.
LEMMA OnlyLatePutsReplace ==
  ASSUME IInv, ObjectsOK, AbsentStill, [StoreNext]_storeVars,
         NEW k \in Keys, stored[k] # None, stored'[k] # stored[k]
  PROVE  k \in late'
<1> USE DEF ObjectsOK
<1>1. ASSUME NEW w \in Workers, Put(w) PROVE k \in late'
  <2>1. Key(w) = k
    BY <1>1 DEF Put
  <2> QED
    BY <1>1, <2>1 DEF Put, AbsentStill
<1>2. ASSUME Arrive PROVE k \in late'
  BY <1>2 DEF Arrive
<1>3. ASSUME NEW w \in Workers, Stat(w) \/ WorkerStep(w) \/ KillWorker(w)
      PROVE  FALSE
  BY <1>3 DEF Stat, WorkerStep, KillWorker
<1> QED
  BY <1>1, <1>2, <1>3 DEF StoreNext, StoreStep, storeVars, objects

\* What a key has it keeps, or a late PUT has reached it.
LEMMA KeysKeep ==
  ASSUME IInv, ObjectsOK, AbsentStill, [StoreNext]_storeVars,
         NEW k \in Keys, NEW b \in Bodies, stored[k] = b \/ k \in late
  PROVE  stored'[k] = b \/ k \in late'
<1>1. late \subseteq late'
  BY DEF StoreNext, StoreStep, storeVars, objects, Stat, Put, WorkerStep, KillWorker,
         Arrive
<1> QED
  BY <1>1, OnlyLatePutsReplace, NoneIsNoBody

\* Between the look at an object and its PUT nobody else writes the key.
LEMMA AbsentStep ==
  ASSUME IInv, ObjectsOK, AbsentStill, [StoreNext]_storeVars
  PROVE  AbsentStill'
<1> SUFFICES ASSUME NEW w \in Workers, pc'[w] = "putting", io'[w] = "absent"
             PROVE  stored'[Key(w)'] = None \/ Key(w)' \in late'
  BY DEF AbsentStill
<1> USE DEF ObjectsOK, AbsentStill
<1>1. ASSUME NEW v \in Workers, Stat(v)
      PROVE  stored'[Key(w)'] = None \/ Key(w)' \in late'
  BY <1>1 DEF Stat, Key, vars, locals
<1>2. ASSUME NEW v \in Workers, Put(v)
      PROVE  stored'[Key(w)'] = None \/ Key(w)' \in late'
  <2>1. v # w /\ pc[w] = "putting" /\ io[w] = "absent" /\ Key(w)' = Key(w)
    BY <1>2 DEF Put, Key, vars, locals
  <2>2. Key(v) # Key(w)
    BY <1>2, <2>1 DEF Put, Key, IInv, LocalsInv, ObjectsApart
  <2> QED
    BY <1>2, <2>1, <2>2 DEF Put
<1>3. ASSUME NEW v \in Workers, WorkerStep(v) \/ KillWorker(v)
      PROVE  stored'[Key(w)'] = None \/ Key(w)' \in late'
  <2>1. v # w
    BY <1>3 DEF WorkerStep, KillWorker
  <2>2. pc'[w] = pc[w] /\ held'[w] = held[w]
    BY <1>3, <2>1, WorkerMoves DEF WorkerStep, KillWorker
  <2> QED
    BY <1>3, <2>1, <2>2 DEF WorkerStep, KillWorker, Key
<1>4. ASSUME Arrive
      PROVE  stored'[Key(w)'] = None \/ Key(w)' \in late'
  <2>1. PICK f \in flight : /\ stored' = [stored EXCEPT ![f[1]] = f[2]]
                            /\ late' = late \cup {f[1]}
                            /\ UNCHANGED <<vars, io>>
    BY <1>4 DEF Arrive
  <2> QED
    BY <2>1 DEF Key, vars, locals
<1>5. ASSUME UNCHANGED objects, UNCHANGED locals
      PROVE  stored'[Key(w)'] = None \/ Key(w)' \in late'
  BY <1>5 DEF objects, locals, Key
<1>6. ASSUME NEW v \in Workers, Start(v), UNCHANGED objects
      PROVE  stored'[Key(w)'] = None \/ Key(w)' \in late'
  <2>1. v # w /\ pc'[w] = pc[w] /\ held'[w] = held[w]
    BY <1>6, WorkerMoves DEF Start, Goto, objects
  <2> QED
    BY <1>6, <2>1 DEF objects, Key
<1> QED
  BY <1>1, <1>2, <1>3, <1>4, <1>5, <1>6
     DEF StoreNext, StoreStep, storeVars, Environment, vars

\* A step of the bucket's own, or of the environment, moves no worker.
LEMMA StoreMoves ==
  ASSUME [StoreNext]_storeVars
  PROVE  \/ \E w \in Workers : WorkerStep(w) \/ KillWorker(w)
         \/ \E w \in Workers : Start(w) /\ UNCHANGED objects
         \/ UNCHANGED locals /\ UNCHANGED recorded
BY DEF StoreNext, StoreStep, storeVars, objects, Stat, Put, Arrive, Environment, vars

\* A page stays as it was written until its row is acknowledged.
LEMMA PageStep ==
  ASSUME IInv, ObjectsOK, AbsentStill, PageStored, [StoreNext]_storeVars
  PROVE  PageStored'
<1> SUFFICES ASSUME NEW w \in Workers, pc'[w] \in PageSteps,
                    Kind[held'[w]] = "scrape", left'[w] < Rounds[held'[w]]
             PROVE  stored'[Key(w)'] = Body(w)' \/ Key(w)' \in late'
  BY DEF PageStored
<1>1. ASSUME pc[w] \in PageSteps, held'[w] = held[w], token'[w] = token[w],
             left'[w] = left[w]
      PROVE  stored'[Key(w)'] = Body(w)' \/ Key(w)' \in late'
  <2>1. stored[Key(w)] = Body(w) \/ Key(w) \in late
    BY <1>1 DEF PageStored
  <2>2. Key(w)' = Key(w) /\ Body(w)' = Body(w)
    BY <1>1 DEF Key, Body
  <2> QED
    BY <1>1, <2>1, <2>2, FencedBody, KeysKeep
<1>2. ASSUME WorkerStep(w)
      PROVE  stored'[Key(w)'] = Body(w)' \/ Key(w)' \in late'
  <2>1. held'[w] = held[w] /\ token'[w] = token[w]
        /\ pc[w] \in PageSteps
        /\ (left'[w] = left[w] \/ (pc[w] = "putting" /\ pc'[w] = "working"))
    <3>1. held'[w] = held[w] /\ token'[w] = token[w]
          /\ \/ pc[w] = "loading" /\ left'[w] = Rounds[held[w]]
             \/ /\ pc[w] \in PageSteps
                /\ \/ left'[w] = left[w]
                   \/ pc[w] = "putting" /\ pc'[w] = "working"
                   \/ Kind[held[w]] # "scrape"
      BY <1>2, WorkerMoves DEF WorkerStep
    <3>2. ASSUME pc[w] = "loading", left'[w] = Rounds[held[w]], held'[w] = held[w]
          PROVE  FALSE
      <4>1. Rounds[held[w]] \in Nat
        BY <3>2, JobAssumption DEF IInv, LocalsInv, JobsHeld, JobSteps
      <4> QED
        BY <3>2, <4>1
    <3> QED
      BY <3>1, <3>2
  <2>2. CASE pc[w] = "putting" /\ pc'[w] = "working"
    BY <1>2, <2>1, <2>2 DEF WorkerStep, Verified, Key, Body
  <2> QED
    BY <1>1, <2>1, <2>2
<1>3. ASSUME KillWorker(w)
      PROVE  FALSE
  BY <1>3 DEF KillWorker, Crash, Die, Return, Goto, PageSteps, IInv, LocalsInv, LocalsOK
<1>4. ASSUME NEW v \in Workers \ {w}, WorkerStep(v) \/ KillWorker(v) \/ Start(v)
      PROVE  stored'[Key(w)'] = Body(w)' \/ Key(w)' \in late'
  BY <1>1, <1>4, WorkerMoves DEF WorkerStep, KillWorker
<1>5. ASSUME UNCHANGED locals
      PROVE  stored'[Key(w)'] = Body(w)' \/ Key(w)' \in late'
  BY <1>1, <1>5 DEF locals
<1>6. ~Start(w)
  BY DEF Start, Goto, PageSteps, IInv, LocalsInv, LocalsOK
<1> QED
  BY <1>2, <1>3, <1>4, <1>5, <1>6, StoreMoves

\* No remote step is left once the ACK is sent.
LEMMA AckStep ==
  ASSUME IInv, AckCounted, [StoreNext]_storeVars
  PROVE  AckCounted'
<1>1. ASSUME NEW w \in Workers, Step(w) \/ Start(w) \/ Crash(w) PROVE AckCounted'
  BY <1>1, WorkerMoves DEF AckCounted, PageSteps
<1> QED
  BY <1>1, StoreMoves DEF AckCounted, WorkerStep, KillWorker, locals

\* The digest is recorded of a page that is stored, and the page stays.
LEMMA RecordedStep ==
  ASSUME IInv, StoreInv, [StoreNext]_storeVars
  PROVE  RecordedIsStored'
<1> USE DEF StoreInv
<1> SUFFICES ASSUME NEW j \in Jobs, recorded'[j] # None
             PROVE  stored'[Object[j]] = recorded'[j] \/ Object[j] \in late'
  BY DEF RecordedIsStored
<1>1. CASE recorded'[j] = recorded[j]
  <2>1. stored[Object[j]] = recorded[j] \/ Object[j] \in late
    BY <1>1 DEF RecordedIsStored
  <2>2. recorded[j] \in Bodies /\ Object[j] \in Keys
    BY <1>1 DEF ObjectsOK, Keys
  <2> QED
    BY <1>1, <2>1, <2>2, KeysKeep
<1>2. ASSUME NEW w \in Workers, WorkerStep(w), recorded'[j] # recorded[j]
      PROVE  stored'[Object[j]] = recorded'[j] \/ Object[j] \in late'
  <2>1. /\ queue[j].state # "completed" /\ queue'[j].state = "completed"
        /\ Persisted(j) /\ recorded'[j] = Body(w)
    BY <1>2 DEF WorkerStep, Record
  <2>2. pc[w] = "acknowledged" /\ held[w] = j /\ left[w] = 0
    BY <1>2, <2>1, AckCompletes DEF WorkerStep, AckCounted
  <2>3. stored[Object[j]] = Body(w) \/ Object[j] \in late
    BY <2>1, <2>2 DEF Persisted, PageStored, PageSteps, Key
  <2> QED
    BY <1>2, <2>1, <2>3 DEF WorkerStep
<1> QED
  BY <1>1, <1>2, StoreMoves DEF KillWorker, objects

\* The inductive invariants of the queue and of the bucket hold throughout.
LEMMA StoreInvariance == StoreSpec => [](IInv /\ StoreInv)
<1>1. StoreInit => StoreInv
  BY DEF StoreInit, Init, ObjectsInit, StoreInv, ObjectsOK, AbsentStill, PageStored,
         PageSteps, AckCounted, RecordedIsStored
<1>2. IInv /\ StoreInv /\ [StoreNext]_<<vars, objects>> => StoreInv'
  BY ObjectsStep, AbsentStep, PageStep, AckStep, RecordedStep DEF StoreInv, storeVars
<1>3. StoreSpec => []IInv
  BY QueueUnderStore, Invariance, PTL
<1> QED
  BY <1>1, <1>2, <1>3, PTL DEF StoreSpec

-----------------------------------------------------------------------------
\* The variables of the bucket have their types, and a worker looks at an object
\* and writes it only inside its fence.
THEOREM StoreTypeCorrect == StoreSpec => []ObjectsOK
<1>1. StoreInv => ObjectsOK
  BY DEF StoreInv
<1> QED
  BY <1>1, StoreInvariance, PTL

\* put_immutable: an object is replaced by nothing but a PUT whose call has ended in
\* an error or in a kill, or that the client has sent again.
THEOREM WrittenOnce == StoreSpec => WriteOnce
<1> DEFINE A == \A k \in Keys :
                  stored[k] # None /\ stored'[k] # stored[k] => k \in late'
<1>1. IInv /\ StoreInv /\ [StoreNext]_<<vars, objects>> => [A]_<<vars, objects>>
  BY OnlyLatePutsReplace DEF StoreInv, storeVars
<1>2. [][A]_<<vars, objects>> => WriteOnce
  BY PTL DEF WriteOnce
<1> QED
  BY <1>1, <1>2, StoreInvariance, PTL DEF StoreSpec

\* complete_scrape records the digest of the object that is stored, unless such a
\* PUT has been done since.
THEOREM DigestsStored == StoreSpec => []RecordedIsStored
<1>1. StoreInv => RecordedIsStored
  BY DEF StoreInv
<1> QED
  BY <1>1, StoreInvariance, PTL

=============================================================================
