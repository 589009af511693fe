------------------------- MODULE QueueWorkerProofs -------------------------
(***************************************************************************)
(* Theorems about QueueWorker, for every set of workers and rows.          *)
(***************************************************************************)
EXTENDS QueueWorker, TLAPS

\* steps at which a process has a job, may hold the lock of its row, or runs
\* one of the two UPDATEs of recover_stale_leases
JobSteps == {"claimed", "loading", "rejecting", "rejected", "working", "extended",
             "fencing", "putting", "acknowledged", "failing", "failed", "decided"}

LockSteps == {"claimed", "rejected", "extended", "putting", "acknowledged",
              "failed", "decided"}

ScanSteps == {"dead_scan", "requeue_scan"}

\* A process has a row and a token exactly while it works on a job; tokens are
\* never shared.
JobsHeld ==
  /\ \A w \in Workers : pc[w] \in JobSteps => held[w] \in Jobs /\ token[w] # NoToken
  /\ \A w \in Workers : pc[w] \notin JobSteps => token[w] = NoToken
  /\ \A w \in Workers : token[w] <= lastToken
  /\ \A v, w \in Workers : v # w /\ token[v] = token[w] => token[w] = NoToken

RowTokens == \A j \in Jobs : queue[j].token <= lastToken

\* A row that waits to run has no deadline, a row not yet inserted no attempts.
RestingRows ==
  \A j \in Jobs :
    /\ queue[j].state \in {"pending", "paused"} => queue[j].lease = "none"
    /\ queue[j].state = "absent" => queue[j].attempts = 0

\* Only a session inside a statement that locks rows holds row locks, and only
\* a locked row has an uncommitted version.
LocksHeld ==
  /\ \A j \in Jobs : lock[j] = None => draft[j] = None
  /\ \A j \in Jobs : lock[j] # None =>
       \/ pc[lock[j]] \in ScanSteps
       \/ pc[lock[j]] \in LockSteps /\ held[lock[j]] = j

\* SELECT ... FOR UPDATE of the fence and of fail_job: the row stays as it was
\* selected until the session commits.
RowsSelected ==
  \A w \in Workers : pc[w] \in {"putting", "failed"} =>
    /\ lock[held[w]] = w /\ draft[held[w]] = None
    /\ Owned(queue[held[w]], token[w])

HasLetter(w, j) == j \in deadLetter \cup letters[w]

\* The version w wrote of row j is what its statement makes of the committed
\* version, and the WHERE clause of that statement still holds of it.
DraftOf(w, j) ==
  \/ /\ pc[w] = "claimed" /\ queue[j].state = "pending" /\ queue[j].ready
     /\ queue[j].attempts < MaxAttempts[j]
     /\ draft[j] = Leased(queue[j], token[w])
  \/ pc[w] \in ScanSteps /\ Exhausted(j) /\ draft[j] = Buried(queue[j])
  \/ pc[w] \in ScanSteps /\ Retryable(j) /\ draft[j] = Requeued(queue[j])
  \/ /\ Owned(queue[j], token[w])
     /\ \/ pc[w] = "extended" /\ draft[j] = Extended(queue[j])
        \/ pc[w] = "acknowledged" /\ draft[j] = Completed(queue[j])
        \/ /\ pc[w] = "decided" /\ queue[j].attempts < MaxAttempts[j]
           /\ draft[j] = Retried(queue[j])
        \/ /\ pc[w] \in {"decided", "rejected"} /\ HasLetter(w, j)
           /\ draft[j] = Buried(queue[j])

DraftsWritten == \A j \in Jobs : draft[j] # None => DraftOf(lock[j], j)

\* dead_letter_job between its two statements
LetterFirst ==
  \A w \in Workers :
    pc[w] = "rejecting" /\ Owned(queue[held[w]], token[w]) => HasLetter(w, held[w])

\* a remote step in progress is still to be counted
RemoteStep ==
  \A w \in Workers : pc[w] \in {"extended", "fencing", "putting"} => left[w] > 0

\* the advisory lock of the object key
ObjectsApart ==
  \A v, w \in Workers :
    v # w /\ pc[v] = "putting" /\ pc[w] = "putting" => Object[held[v]] # Object[held[w]]

LocalsInv == LocalsOK /\ JobsHeld /\ RemoteStep /\ ObjectsApart

LocksInv == LocksHeld /\ RowsSelected /\ DraftsWritten

\* The inductive invariant.
IInv ==
  /\ TablesOK /\ NeverStranded /\ RowTokens /\ RestingRows
  /\ LocalsInv /\ LocksInv /\ LetterFirst

-----------------------------------------------------------------------------
\* A statement writes a row of the table's type.
LEMMA RowsStayRows ==
  ASSUME NEW r \in Row
  PROVE  /\ \A t \in Nat : Leased(r, t) \in Row
         /\ Extended(r) \in Row /\ Buried(r) \in Row
         /\ Completed(r) \in Row /\ Requeued(r) \in Row /\ Retried(r) \in Row
<1>1. ASSUME NEW t \in Nat PROVE Leased(r, t) \in Row
  <2>1. r.attempts + 1 \in Nat
    BY DEF Row
  <2>2. ASSUME NEW n \in Nat
        PROVE  [r EXCEPT !.state = "processing", !.attempts = n,
                         !.token = t, !.lease = "live"] \in Row
    BY DEF Row, States
  <2> QED
    BY <2>1, <2>2 DEF Leased
<1>2. Extended(r) \in Row
  BY DEF Row, States, Extended
<1>3. \A s \in States, b \in BOOLEAN : Released(r, s, b) \in Row
  BY DEF Row, States, Released, NoToken
<1> QED
  BY <1>1, <1>2, <1>3 DEF States, Buried, Completed, Requeued, Retried

\* What each SET clause leaves in the fields of a row.
LEMMA RowFields ==
  ASSUME NEW r \in Row
  PROVE  /\ \A t \in Nat : /\ Leased(r, t).state = "processing"
                           /\ Leased(r, t).token = t
                           /\ Leased(r, t).attempts = r.attempts + 1
                           /\ Leased(r, t).lease = "live"
         /\ Extended(r).state = r.state /\ Extended(r).attempts = r.attempts
         /\ Extended(r).token = r.token /\ Extended(r).lease = "live"
         /\ Buried(r).state = "dead" /\ Completed(r).state = "completed"
         /\ Requeued(r).state = "pending" /\ Retried(r).state = "pending"
         /\ \A s \in {Buried(r), Completed(r), Requeued(r), Retried(r)} :
              s.attempts = r.attempts /\ s.token = NoToken /\ s.lease = "none"
  BY DEF Row, States, Leased, Extended, Released, NoToken, Buried, Completed,
         Requeued, Retried

\* What the clocks do to a row: a deadline passes, or available_at comes.
LEMMA ClockFields ==
  ASSUME NEW r \in Row
  PROVE  LET e == [r EXCEPT !.lease = "expired"]
             b == [r EXCEPT !.ready = TRUE] IN
         /\ e \in Row /\ e.state = r.state /\ e.attempts = r.attempts
         /\ e.token = r.token
         /\ b \in Row /\ b.state = r.state /\ b.attempts = r.attempts
         /\ b.token = r.token /\ b.lease = r.lease
  BY DEF Row

\* Every statement that writes a processing row overwrites its deadline.
LEMMA DeadlineOverwritten ==
  ASSUME NEW r \in Row, NEW s \in Row, s = [r EXCEPT !.lease = "expired"]
  PROVE  /\ Extended(s) = Extended(r) /\ Buried(s) = Buried(r)
         /\ Completed(s) = Completed(r) /\ Requeued(s) = Requeued(r)
         /\ Retried(s) = Retried(r)
         /\ s.state = r.state /\ s.attempts = r.attempts /\ s.token = r.token
         /\ s.lease = "expired"
  BY DEF Row, Extended, Buried, Completed, Requeued, Retried, Released

\* What a draft may do to its row.
LEMMA DraftFacts ==
  ASSUME IInv, NEW j \in Jobs, draft[j] # None
  PROVE  /\ draft[j] \in Row /\ draft[j].attempts <= MaxAttempts[j]
         /\ draft[j].state \in {"pending", "paused"} =>
              draft[j].attempts < MaxAttempts[j] /\ draft[j].lease = "none"
         /\ draft[j].state # "absent"
         /\ draft[j].token <= lastToken
         /\ draft[j].state = "processing" => draft[j].token = token[lock[j]]
  <1> USE NoneAssumption, MaxAttemptsAssumption
  <1>1. /\ queue[j] \in Row /\ lock[j] \in Workers /\ draft[j] \in Row
        /\ token[lock[j]] \in Nat /\ token[lock[j]] <= lastToken /\ lastToken \in Nat
        /\ queue[j].attempts \in Nat /\ MaxAttempts[j] \in Nat \ {0}
    BY DEF IInv, LocalsInv, LocksInv, TablesOK, LocalsOK, LocksHeld, JobsHeld, Row
  <1>2. DraftOf(lock[j], j)
    BY <1>1 DEF IInv, LocksInv, DraftsWritten
  <1> QED
    BY <1>1, <1>2, RowFields DEF DraftOf, Owned, Exhausted, Retryable, Stale, IInv,
       TablesOK, RowTokens, NoToken

\* Rows change only when a session commits, in a statement of another process
\* that commits at once, or when the clock passes a deadline.
LEMMA QueueSteps ==
  ASSUME IInv, [Next]_vars
  PROVE  /\ \/ UNCHANGED queue
            \/ \E w \in Workers :
                 /\ Commit(w) /\ pc'[w] # pc[w]
                 /\ pc[w] \in ScanSteps => RecoveryCommits(w)
            \/ /\ \E j \in Jobs : \/ Enqueue(j) \/ Pause(j) \/ Resume(j) \/ Cancel(j)
                                  \/ Expire(j) \/ BecomeReady(j)
               /\ UNCHANGED pc
         /\ lastToken' \in Nat /\ lastToken' >= lastToken
<1> USE DEF IInv, TablesOK, LocalsInv, LocalsOK, Goto, Return
<1>1. CASE UNCHANGED vars
  BY <1>1 DEF vars, tables
<1>2. CASE Environment
  BY <1>2
     DEF Environment, Enqueue, Pause, Resume, Cancel, Update, Expire,
     BecomeReady, locals
<1>3. ASSUME NEW w \in Workers, Recovery(w)
      PROVE  /\ \/ UNCHANGED queue
                \/ Commit(w) /\ pc'[w] # pc[w] /\ RecoveryCommits(w)
             /\ lastToken' = lastToken
  BY <1>3 DEF Recovery, RecoverLetters, ScanDead, ScanRetryable, CommitRecovery,
     BuryStale, RequeueStale, Visit, tables, RecoveryCommits
<1>4. ASSUME NEW w \in Workers, Work(w)
      PROVE  /\ \/ UNCHANGED queue
                \/ Commit(w) /\ pc'[w] # pc[w] /\ pc[w] \notin ScanSteps
             /\ lastToken' = lastToken \/ lastToken' = lastToken + 1
  BY <1>4 DEF Work, Claim, ClaimNothing, CommitClaim, Accept, Reject, RejectRow,
     Heartbeat, CommitHeartbeat, RemoteError, Fence, FenceRejected, PutObject,
     PutError, Rollback, Complete, CompleteLate, CanaryLate, LockFailed, FailLost,
     Retry, Bury, CommitOutcome, tables, ScanSteps
<1>5. ASSUME NEW w \in Workers,
             Restart(w) \/ Start(w) \/ DeadlockAbort(w) \/ Crash(w)
      PROVE  UNCHANGED <<queue, lastToken>>
  BY <1>5 DEF Restart, Start, DeadlockAbort, Crash, Die, Rollback, tables
<1> QED
  BY <1>1, <1>2, <1>3, <1>4, <1>5 DEF Next, Step

\* What holds of the committed rows.
RowsInv ==
  /\ queue \in [Jobs -> Row]
  /\ \A j \in Jobs : queue[j].attempts <= MaxAttempts[j]
  /\ NeverStranded /\ RowTokens /\ RestingRows

\* Every step keeps what holds of the committed rows.
LEMMA RowsInvStep ==
  ASSUME IInv, [Next]_vars
  PROVE  RowsInv'
<1> USE NoneAssumption, MaxAttemptsAssumption
    DEF IInv, TablesOK, RowsInv, NeverStranded, RowTokens,
    RestingRows
<1>1. lastToken' \in Nat /\ lastToken' >= lastToken
  BY QueueSteps
<1>2. \A j \in Jobs : queue[j].token \in Nat /\ queue[j].attempts \in Nat
  BY DEF Row
<1>3. CASE UNCHANGED queue
  BY <1>1, <1>2, <1>3
<1>4. ASSUME NEW w \in Workers, Commit(w)
      PROVE  RowsInv'
  <2>1. ASSUME NEW j \in Jobs
        PROVE  /\ queue'[j] \in Row /\ queue'[j].attempts <= MaxAttempts[j]
               /\ queue'[j].state \in {"pending", "paused"}
                    => queue'[j].attempts < MaxAttempts[j] /\ queue'[j].lease = "none"
               /\ queue'[j].state = "absent" => queue'[j].attempts = 0
               /\ queue'[j].token <= lastToken
    BY <1>4, DraftFacts DEF Commit
  <2>2. \A j \in Jobs : queue'[j].token \in Nat
    BY <2>1 DEF Row
  <2>3. queue' \in [Jobs -> Row]
    BY <1>4, <2>1 DEF Commit
  <2> QED
    BY <1>1, <2>1, <2>2, <2>3
<1>5. ASSUME NEW j \in Jobs, Enqueue(j)
      PROVE  RowsInv'
  <2>1. LET r == [Absent EXCEPT !.state = "pending"] IN
          r \in Row /\ r.attempts = 0 /\ r.token = 0 /\ r.lease = "none"
    BY DEF Absent, Row, States, NoToken
  <2>2. queue' = [queue EXCEPT ![j] = [Absent EXCEPT !.state = "pending"]]
    BY <1>5 DEF Enqueue, Update
  <2> QED
    BY <1>1, <1>2, <2>1, <2>2
<1>6. ASSUME NEW j \in Jobs, Pause(j) \/ Resume(j)
      PROVE  RowsInv'
  <2>1. PICK s \in {"pending", "paused"} :
          /\ queue[j].state \in {"pending", "paused"}
          /\ queue' = [queue EXCEPT ![j] = [queue[j] EXCEPT !.state = s]]
    BY <1>6 DEF Pause, Resume, Update
  <2>2. LET r == [queue[j] EXCEPT !.state = s] IN
          r \in Row /\ r.attempts = queue[j].attempts /\ r.token = queue[j].token
          /\ r.lease = queue[j].lease
    BY DEF Row, States
  <2> QED
    BY <1>1, <1>2, <2>1, <2>2
<1>7. ASSUME NEW j \in Jobs, Cancel(j)
      PROVE  RowsInv'
  <2>1. Buried(queue[j]) \in Row
    BY RowsStayRows
  <2>2. Buried(queue[j]).state = "dead" /\ Buried(queue[j]).token = NoToken
        /\ Buried(queue[j]).attempts = queue[j].attempts
    BY RowFields
  <2> QED
    BY <1>1, <1>2, <1>7, <2>1, <2>2 DEF Cancel, Update, NoToken
<1>8. ASSUME NEW j \in Jobs, Expire(j) \/ BecomeReady(j)
      PROVE  RowsInv'
  <2>1. PICK r : /\ queue' = [queue EXCEPT ![j] = r]
                  /\ \/ /\ r = [queue[j] EXCEPT !.lease = "expired"]
                        /\ queue[j].state = "processing"
                     \/ r = [queue[j] EXCEPT !.ready = TRUE]
    BY <1>8 DEF Expire, BecomeReady
  <2>2. /\ r \in Row /\ r.attempts = queue[j].attempts /\ r.token = queue[j].token
        /\ r.state = queue[j].state
        /\ r.lease = queue[j].lease \/ queue[j].state = "processing"
    <3>1. queue[j] \in Row
      OBVIOUS
    <3> QED
      BY ONLY <2>1, <3>1, ClockFields
  <2> QED
    BY <1>1, <1>2, <2>1, <2>2
<1> QED
  BY <1>3, <1>4, <1>5, <1>6, <1>7, <1>8, QueueSteps

\* Every step keeps the types of the tables and the bound on attempts.
LEMMA TablesOKStep ==
  ASSUME IInv, [Next]_vars
  PROVE  TablesOK'
<1> USE NoneAssumption, RowsInvStep, RowsStayRows
    DEF RowsInv, IInv, TablesOK, LocalsInv, LocalsOK, JobsHeld, JobSteps, Mine
<1>1. ASSUME NEW w \in Workers, RecoverLetters(w) PROVE TablesOK'
  BY <1>1 DEF RecoverLetters, Goto, InsertLetters, tables
<1>2. ASSUME NEW w \in Workers, ScanDead(w) PROVE TablesOK'
  BY <1>2 DEF ScanDead, Goto, tables
<1>3. ASSUME NEW w \in Workers, ScanRetryable(w) PROVE TablesOK'
  BY <1>3 DEF ScanRetryable, Goto, tables
<1>4. ASSUME NEW w \in Workers, CommitRecovery(w) PROVE TablesOK'
  BY <1>4 DEF CommitRecovery, Goto, Commit, Unlock, tables
<1>5. ASSUME NEW w \in Workers, ClaimNothing(w) PROVE TablesOK'
  BY <1>5 DEF ClaimNothing, Goto, tables
<1>6. ASSUME NEW w \in Workers, CommitClaim(w) PROVE TablesOK'
  BY <1>6 DEF CommitClaim, Goto, Commit, Unlock, tables
<1>7. ASSUME NEW w \in Workers, Accept(w) PROVE TablesOK'
  BY <1>7 DEF Accept, Goto, tables
<1>8. ASSUME NEW w \in Workers, Reject(w) PROVE TablesOK'
  BY <1>8 DEF Reject, Goto, InsertLetters, Mine, tables
<1>9. ASSUME NEW w \in Workers, RejectRow(w) PROVE TablesOK'
  BY <1>9 DEF RejectRow, Goto, Write, Mine, tables
<1>10. ASSUME NEW w \in Workers, Heartbeat(w) PROVE TablesOK'
  <2>1. CASE ~OwnedLive(Mine(w), token[w])
    BY <1>10, <2>1 DEF Heartbeat, Goto
  <2>2. CASE OwnedLive(Mine(w), token[w])
    <3>1. held[w] \in Jobs
      BY <1>10 DEF Heartbeat
    <3>2. Extended(queue[held[w]]) \in Row
      BY <3>1
    <3>3. /\ lock' = [lock EXCEPT ![held[w]] = w]
          /\ draft' = [draft EXCEPT ![held[w]] = Extended(queue[held[w]])]
          /\ UNCHANGED <<queue, deadLetter, letters, lastToken>>
      BY <1>10, <2>2 DEF Heartbeat, Write
    <3>4. queue' \in [Jobs -> Row]
          /\ (\A j \in Jobs : queue'[j].attempts <= MaxAttempts[j])
      BY <3>3
    <3>5. draft' \in [Jobs -> Row \cup {None}]
          /\ lock' \in [Jobs -> Workers \cup {None}]
      BY <3>2, <3>3
    <3> QED
      BY <3>3, <3>4, <3>5
  <2> QED
    BY <2>1, <2>2
<1>11. ASSUME NEW w \in Workers, CommitHeartbeat(w) PROVE TablesOK'
  BY <1>11 DEF CommitHeartbeat, Goto, Commit, Unlock, tables
<1>12. ASSUME NEW w \in Workers, RemoteError(w) PROVE TablesOK'
  BY <1>12 DEF RemoteError, Goto, tables
<1>13. ASSUME NEW w \in Workers, Fence(w) PROVE TablesOK'
  BY <1>13 DEF Fence, Goto, Write, Mine, tables
<1>14. ASSUME NEW w \in Workers, FenceRejected(w) PROVE TablesOK'
  BY <1>14 DEF FenceRejected, Return, Goto, Mine, tables
<1>15. ASSUME NEW w \in Workers, PutObject(w) PROVE TablesOK'
  BY <1>15 DEF PutObject, Goto, Commit, Unlock, tables
<1>16. ASSUME NEW w \in Workers, PutError(w) PROVE TablesOK'
  BY <1>16 DEF PutError, Goto, Rollback, Unlock, tables
<1>17. ASSUME NEW w \in Workers, Complete(w) PROVE TablesOK'
  BY <1>17 DEF Complete, Goto, Write, Mine, tables
<1>18. ASSUME NEW w \in Workers, CompleteLate(w) PROVE TablesOK'
  BY <1>18 DEF CompleteLate, Goto, Mine, tables
<1>19. ASSUME NEW w \in Workers, CanaryLate(w) PROVE TablesOK'
  BY <1>19 DEF CanaryLate, Return, Goto, Mine, tables
<1>20. ASSUME NEW w \in Workers, LockFailed(w) PROVE TablesOK'
  BY <1>20 DEF LockFailed, Goto, Write, Mine, tables
<1>21. ASSUME NEW w \in Workers, FailLost(w) PROVE TablesOK'
  BY <1>21 DEF FailLost, Return, Goto, Mine, tables
<1>22. ASSUME NEW w \in Workers, Retry(w) PROVE TablesOK'
  BY <1>22 DEF Retry, Goto, Write, Mine, tables
<1>23. ASSUME NEW w \in Workers, Bury(w) PROVE TablesOK'
  BY <1>23 DEF Bury, Goto, Write, Mine, InsertLetters, tables
<1>24. ASSUME NEW w \in Workers, CommitOutcome(w) PROVE TablesOK'
  BY <1>24 DEF CommitOutcome, Return, Goto, Commit, Unlock, tables
<1>25. ASSUME NEW w \in Workers, Crash(w) PROVE TablesOK'
  BY <1>25 DEF Crash, Die, Return, Goto, Rollback, Unlock, tables
<1>26. ASSUME NEW w \in Workers, Restart(w) \/ Start(w) PROVE TablesOK'
  BY <1>26 DEF Restart, Start, Goto, tables
<1>27. ASSUME NEW w \in Workers, DeadlockAbort(w) PROVE TablesOK'
  BY <1>27 DEF DeadlockAbort, Die, Return, Goto, Rollback, Unlock, tables
<1>28. ASSUME NEW w \in Workers, NEW j \in Jobs, BuryStale(w, j) PROVE TablesOK'
  <2>1. Buried(queue[j]) \in Row
    BY RowsStayRows
  <2> QED
    BY <1>28, <2>1 DEF BuryStale, Visit, Write
<1>29. ASSUME NEW w \in Workers, NEW j \in Jobs, RequeueStale(w, j) PROVE TablesOK'
  BY <1>29 DEF RequeueStale, Visit, Write
<1>30. ASSUME NEW w \in Workers, NEW j \in Jobs, Claim(w, j) PROVE TablesOK'
  <2>1. lastToken' \in Nat
    BY <1>30 DEF Claim
  <2>2. Leased(queue[j], lastToken') \in Row
    BY <2>1, RowsStayRows
  <2> QED
    BY <1>30, <2>1, <2>2 DEF Claim, Goto, Write
<1>31. ASSUME NEW j \in Jobs, Enqueue(j), UNCHANGED <<locals, crashes>>
      PROVE  TablesOK'
  BY <1>31 DEF Enqueue, Update, Absent, locals
<1>32. ASSUME NEW j \in Jobs, Pause(j), UNCHANGED <<locals, crashes>>
      PROVE  TablesOK'
  BY <1>32 DEF Pause, Update, locals
<1>33. ASSUME NEW j \in Jobs, Resume(j), UNCHANGED <<locals, crashes>>
      PROVE  TablesOK'
  BY <1>33 DEF Resume, Update, locals
<1>34. ASSUME NEW j \in Jobs, Cancel(j), UNCHANGED <<locals, crashes>>
      PROVE  TablesOK'
  BY <1>34 DEF Cancel, Update, locals
<1>35. ASSUME NEW j \in Jobs, Expire(j), UNCHANGED <<locals, crashes>>
      PROVE  TablesOK'
  BY <1>35 DEF Expire, locals
<1>36. ASSUME NEW j \in Jobs, BecomeReady(j), UNCHANGED <<locals, crashes>>
      PROVE  TablesOK'
  BY <1>36 DEF BecomeReady, locals
<1>37. ASSUME UNCHANGED vars PROVE TablesOK'
  BY <1>37 DEF vars, tables, locals
<1> QED
  BY <1>1, <1>2, <1>3, <1>4, <1>5, <1>6, <1>7, <1>8, <1>9, <1>10, <1>11,
     <1>12, <1>13, <1>14, <1>15, <1>16, <1>17, <1>18, <1>19, <1>20, <1>21,
     <1>22, <1>23, <1>24, <1>25, <1>26, <1>27, <1>28, <1>29, <1>30, <1>31,
     <1>32, <1>33, <1>34, <1>35, <1>36, <1>37
     DEF Next, Step, Recovery, Work, Environment

\* Every step keeps what holds of the processes: their types, the row and the
\* token of each, and the advisory locks of the fence.
LEMMA LocalsInvStep ==
  ASSUME IInv, [Next]_vars
  PROVE  LocalsInv'
<1> USE NoneAssumption, JobAssumption
    DEF IInv, TablesOK, LocalsInv, LocalsOK, JobsHeld, RemoteStep,
    ObjectsApart, AdvisoryFree, NoToken, JobSteps, Steps, IsCanary
<1>1. ASSUME NEW w \in Workers, RecoverLetters(w) PROVE LocalsInv'
  BY <1>1 DEF RecoverLetters, Goto, InsertLetters, tables
<1>2. ASSUME NEW w \in Workers, ScanDead(w) PROVE LocalsInv'
  BY <1>2 DEF ScanDead, Goto, tables
<1>3. ASSUME NEW w \in Workers, ScanRetryable(w) PROVE LocalsInv'
  BY <1>3 DEF ScanRetryable, Goto, tables
<1>4. ASSUME NEW w \in Workers, CommitRecovery(w) PROVE LocalsInv'
  BY <1>4 DEF CommitRecovery, Goto, Commit, Unlock, tables
<1>5. ASSUME NEW w \in Workers, ClaimNothing(w) PROVE LocalsInv'
  BY <1>5 DEF ClaimNothing, Goto, tables
<1>6. ASSUME NEW w \in Workers, CommitClaim(w) PROVE LocalsInv'
  BY <1>6 DEF CommitClaim, Goto, Commit, Unlock, tables
<1>7. ASSUME NEW w \in Workers, Accept(w) PROVE LocalsInv'
  BY <1>7 DEF Accept, Goto, tables
<1>8. ASSUME NEW w \in Workers, Reject(w) PROVE LocalsInv'
  BY <1>8 DEF Reject, Goto, InsertLetters, Mine, tables
<1>9. ASSUME NEW w \in Workers, RejectRow(w) PROVE LocalsInv'
  BY <1>9 DEF RejectRow, Goto, Write, Mine, tables
<1>10. ASSUME NEW w \in Workers, Heartbeat(w) PROVE LocalsInv'
  <2>1. /\ pc[w] = "working" /\ left[w] > 0
        /\ \E s \in {"extended", "failing"} : pc' = [pc EXCEPT ![w] = s]
        /\ UNCHANGED <<held, token, left, todo, crashes, lastToken>>
    BY ONLY <1>10 DEF Heartbeat, Goto
  <2> HIDE <1>10
  <2>2. LocalsOK' /\ RemoteStep'
    BY <2>1
  <2>3. JobsHeld'
    BY <2>1
  <2>4. ObjectsApart'
    BY <2>1
  <2> QED
    BY <2>2, <2>3, <2>4
<1>11. ASSUME NEW w \in Workers, CommitHeartbeat(w) PROVE LocalsInv'
  BY <1>11 DEF CommitHeartbeat, Goto, Commit, Unlock, tables
<1>12. ASSUME NEW w \in Workers, RemoteError(w) PROVE LocalsInv'
  BY <1>12 DEF RemoteError, Goto, tables
<1>13. ASSUME NEW w \in Workers, Fence(w) PROVE LocalsInv'
  BY <1>13 DEF Fence, Goto, Write, Mine, tables
<1>14. ASSUME NEW w \in Workers, FenceRejected(w) PROVE LocalsInv'
  BY <1>14 DEF FenceRejected, Return, Goto, Mine, tables
<1>15. ASSUME NEW w \in Workers, PutObject(w) PROVE LocalsInv'
  BY <1>15 DEF PutObject, Goto, Commit, Unlock, tables
<1>16. ASSUME NEW w \in Workers, PutError(w) PROVE LocalsInv'
  BY <1>16 DEF PutError, Goto, Rollback, Unlock, tables
<1>17. ASSUME NEW w \in Workers, Complete(w) PROVE LocalsInv'
  BY <1>17 DEF Complete, Goto, Write, Mine, tables
<1>18. ASSUME NEW w \in Workers, CompleteLate(w) PROVE LocalsInv'
  BY <1>18 DEF CompleteLate, Goto, Mine, tables
<1>19. ASSUME NEW w \in Workers, CanaryLate(w) PROVE LocalsInv'
  BY <1>19 DEF CanaryLate, Return, Goto, Mine, tables
<1>20. ASSUME NEW w \in Workers, LockFailed(w) PROVE LocalsInv'
  BY <1>20 DEF LockFailed, Goto, Write, Mine, tables
<1>21. ASSUME NEW w \in Workers, FailLost(w) PROVE LocalsInv'
  BY <1>21 DEF FailLost, Return, Goto, Mine, tables
<1>22. ASSUME NEW w \in Workers, Retry(w) PROVE LocalsInv'
  BY <1>22 DEF Retry, Goto, Write, Mine, tables
<1>23. ASSUME NEW w \in Workers, Bury(w) PROVE LocalsInv'
  BY <1>23 DEF Bury, Goto, Write, Mine, InsertLetters, tables
<1>24. ASSUME NEW w \in Workers, CommitOutcome(w) PROVE LocalsInv'
  BY <1>24 DEF CommitOutcome, Return, Goto, Commit, Unlock, tables
<1>25. ASSUME NEW w \in Workers, Crash(w) PROVE LocalsInv'
  BY <1>25 DEF Crash, Die, Return, Goto, Rollback, Unlock, tables
<1>26. ASSUME NEW w \in Workers, Restart(w) \/ Start(w) PROVE LocalsInv'
  <2>1. /\ Goto(w, "down", "idle")
        /\ UNCHANGED <<tables, held, token, left, todo, crashes>>
    BY <1>26 DEF Restart, Start
  <2> QED
    BY <2>1 DEF Goto, tables
<1>27. ASSUME NEW w \in Workers, DeadlockAbort(w) PROVE LocalsInv'
  BY <1>27 DEF DeadlockAbort, Die, Return, Goto, Rollback, Unlock, tables
<1>28. ASSUME NEW w \in Workers, NEW j \in Jobs, BuryStale(w, j) PROVE LocalsInv'
  BY <1>28 DEF BuryStale, Visit, Write
<1>29. ASSUME NEW w \in Workers, NEW j \in Jobs, RequeueStale(w, j) PROVE LocalsInv'
  BY <1>29 DEF RequeueStale, Visit, Write
<1>30. ASSUME NEW w \in Workers, NEW j \in Jobs, Claim(w, j) PROVE LocalsInv'
  BY <1>30 DEF Claim, Goto, Write, Candidate
<1>31. ASSUME NEW j \in Jobs, Enqueue(j), UNCHANGED <<locals, crashes>>
      PROVE  LocalsInv'
  BY <1>31 DEF Enqueue, Update, Absent, locals
<1>32. ASSUME NEW j \in Jobs, Pause(j), UNCHANGED <<locals, crashes>>
      PROVE  LocalsInv'
  BY <1>32 DEF Pause, Update, locals
<1>33. ASSUME NEW j \in Jobs, Resume(j), UNCHANGED <<locals, crashes>>
      PROVE  LocalsInv'
  BY <1>33 DEF Resume, Update, locals
<1>34. ASSUME NEW j \in Jobs, Cancel(j), UNCHANGED <<locals, crashes>>
      PROVE  LocalsInv'
  BY <1>34 DEF Cancel, Update, locals
<1>35. ASSUME NEW j \in Jobs, Expire(j), UNCHANGED <<locals, crashes>>
      PROVE  LocalsInv'
  BY <1>35 DEF Expire, locals
<1>36. ASSUME NEW j \in Jobs, BecomeReady(j), UNCHANGED <<locals, crashes>>
      PROVE  LocalsInv'
  BY <1>36 DEF BecomeReady, locals
<1>37. ASSUME UNCHANGED vars PROVE LocalsInv'
  BY <1>37 DEF vars, tables, locals
<1> QED
  BY <1>1, <1>2, <1>3, <1>4, <1>5, <1>6, <1>7, <1>8, <1>9, <1>10, <1>11,
     <1>12, <1>13, <1>14, <1>15, <1>16, <1>17, <1>18, <1>19, <1>20, <1>21,
     <1>22, <1>23, <1>24, <1>25, <1>26, <1>27, <1>28, <1>29, <1>30, <1>31,
     <1>32, <1>33, <1>34, <1>35, <1>36, <1>37
     DEF Next, Step, Recovery, Work, Environment

\* Every step keeps the row locks and the uncommitted versions as the sessions'
\* statements left them.
LEMMA LocksInvStep ==
  ASSUME IInv, [Next]_vars
  PROVE  LocksInv'
<1> USE NoneAssumption, NoneIsNoRow, RowsStayRows
    DEF IInv, TablesOK, LocalsInv, LocksInv, LocalsOK, LocksHeld, JobsHeld,
    RowsSelected, DraftsWritten, LetterFirst, DraftOf, JobSteps, LockSteps,
    ScanSteps, Free, Owned, OwnedLive, Mine, HasLetter, Exhausted, Retryable,
    Stale
<1>1. ASSUME NEW w \in Workers, RecoverLetters(w) PROVE LocksInv'
  BY <1>1 DEF RecoverLetters, Goto, InsertLetters, tables
<1>2. ASSUME NEW w \in Workers, ScanDead(w) PROVE LocksInv'
  BY <1>2 DEF ScanDead, Goto, tables
<1>3. ASSUME NEW w \in Workers, ScanRetryable(w) PROVE LocksInv'
  BY <1>3 DEF ScanRetryable, Goto, tables
<1>4. ASSUME NEW w \in Workers, CommitRecovery(w) PROVE LocksInv'
  BY <1>4 DEF CommitRecovery, Goto, Commit, Unlock, tables
<1>5. ASSUME NEW w \in Workers, ClaimNothing(w) PROVE LocksInv'
  BY <1>5 DEF ClaimNothing, Goto, tables
<1>6. ASSUME NEW w \in Workers, CommitClaim(w) PROVE LocksInv'
  BY <1>6 DEF CommitClaim, Goto, Commit, Unlock, tables
<1>7. ASSUME NEW w \in Workers, Accept(w) PROVE LocksInv'
  BY <1>7 DEF Accept, Goto, tables
<1>8. ASSUME NEW w \in Workers, Reject(w) PROVE LocksInv'
  BY <1>8 DEF Reject, Goto, InsertLetters, Mine, tables
<1>9. ASSUME NEW w \in Workers, RejectRow(w) PROVE LocksInv'
  <2>1. /\ pc[w] = "rejecting" /\ Free(w, held[w])
        /\ pc' = [pc EXCEPT ![w] = "rejected"]
        /\ UNCHANGED <<queue, deadLetter, letters, held, token>>
    BY ONLY <1>9 DEF RejectRow, Goto
  <2>2. CASE Owned(Mine(w), token[w])
    <3>1. /\ lock' = [lock EXCEPT ![held[w]] = w]
          /\ draft' = [draft EXCEPT ![held[w]] = Buried(queue[held[w]])]
      BY ONLY <1>9, <2>2 DEF RejectRow, Write, Mine
    <3>2. LocksHeld' /\ RowsSelected'
      BY <2>1, <3>1
    <3>3. DraftsWritten'
      BY <2>1, <2>2, <3>1
    <3> QED
      BY <3>2, <3>3
  <2>3. CASE ~Owned(Mine(w), token[w])
    <3>1. UNCHANGED <<lock, draft>>
      BY ONLY <1>9, <2>3 DEF RejectRow
    <3> QED
      BY <2>1, <3>1
  <2> QED
    BY <2>2, <2>3
<1>10. ASSUME NEW w \in Workers, Heartbeat(w) PROVE LocksInv'
  <2>1. /\ pc[w] = "working"
        /\ UNCHANGED <<queue, deadLetter, letters, held, token>>
    BY ONLY <1>10 DEF Heartbeat, Goto
  <2>2. CASE OwnedLive(Mine(w), token[w])
    <3>1. /\ pc' = [pc EXCEPT ![w] = "extended"] /\ Free(w, held[w])
          /\ lock' = [lock EXCEPT ![held[w]] = w]
          /\ draft' = [draft EXCEPT ![held[w]] = Extended(queue[held[w]])]
      BY ONLY <1>10, <2>2 DEF Heartbeat, Goto, Write, Mine
    <3>2. LocksHeld'
      BY <2>1, <3>1
    <3>3. RowsSelected'
      BY <2>1, <3>1
    <3>4. DraftsWritten'
      BY <2>1, <2>2, <3>1
    <3> QED
      BY <3>2, <3>3, <3>4
  <2>3. CASE ~OwnedLive(Mine(w), token[w])
    <3>1. /\ pc' = [pc EXCEPT ![w] = "failing"]
          /\ UNCHANGED <<lock, draft>>
      BY ONLY <1>10, <2>3 DEF Heartbeat, Goto
    <3> QED
      BY <2>1, <3>1
  <2> QED
    BY <2>2, <2>3
<1>11. ASSUME NEW w \in Workers, CommitHeartbeat(w) PROVE LocksInv'
  BY <1>11 DEF CommitHeartbeat, Goto, Commit, Unlock, tables
<1>12. ASSUME NEW w \in Workers, RemoteError(w) PROVE LocksInv'
  BY <1>12 DEF RemoteError, Goto, tables
<1>13. ASSUME NEW w \in Workers, Fence(w) PROVE LocksInv'
  BY <1>13 DEF Fence, Goto, Write, Mine, tables
<1>14. ASSUME NEW w \in Workers, FenceRejected(w) PROVE LocksInv'
  BY <1>14 DEF FenceRejected, Return, Goto, Mine, tables
<1>15. ASSUME NEW w \in Workers, PutObject(w) PROVE LocksInv'
  BY <1>15 DEF PutObject, Goto, Commit, Unlock, tables
<1>16. ASSUME NEW w \in Workers, PutError(w) PROVE LocksInv'
  BY <1>16 DEF PutError, Goto, Rollback, Unlock, tables
<1>17. ASSUME NEW w \in Workers, Complete(w) PROVE LocksInv'
  BY <1>17 DEF Complete, Goto, Write, Mine, tables
<1>18. ASSUME NEW w \in Workers, CompleteLate(w) PROVE LocksInv'
  BY <1>18 DEF CompleteLate, Goto, Mine, tables
<1>19. ASSUME NEW w \in Workers, CanaryLate(w) PROVE LocksInv'
  BY <1>19 DEF CanaryLate, Return, Goto, Mine, tables
<1>20. ASSUME NEW w \in Workers, LockFailed(w) PROVE LocksInv'
  BY <1>20 DEF LockFailed, Goto, Write, Mine, tables
<1>21. ASSUME NEW w \in Workers, FailLost(w) PROVE LocksInv'
  BY <1>21 DEF FailLost, Return, Goto, Mine, tables
<1>22. ASSUME NEW w \in Workers, Retry(w) PROVE LocksInv'
  BY <1>22 DEF Retry, Goto, Write, Mine, tables
<1>23. ASSUME NEW w \in Workers, Bury(w) PROVE LocksInv'
  BY <1>23 DEF Bury, Goto, Write, Mine, InsertLetters, tables
<1>24. ASSUME NEW w \in Workers, CommitOutcome(w) PROVE LocksInv'
  BY <1>24 DEF CommitOutcome, Return, Goto, Commit, Unlock, tables
<1>25. ASSUME NEW w \in Workers, Crash(w) PROVE LocksInv'
  BY <1>25 DEF Crash, Die, Return, Goto, Rollback, Unlock, tables
<1>26. ASSUME NEW w \in Workers, Restart(w) \/ Start(w) PROVE LocksInv'
  BY <1>26 DEF Restart, Start, Goto, tables
<1>27. ASSUME NEW w \in Workers, DeadlockAbort(w) PROVE LocksInv'
  BY <1>27 DEF DeadlockAbort, Die, Return, Goto, Rollback, Unlock, tables
<1>28. ASSUME NEW w \in Workers, NEW j \in Jobs, BuryStale(w, j) PROVE LocksInv'
  <2>1. /\ pc[w] = "dead_scan" /\ Free(w, j)
        /\ UNCHANGED <<queue, deadLetter, letters, pc, held, token>>
    BY ONLY <1>28 DEF BuryStale, Visit
  <2>2. CASE Exhausted(j)
    <3>1. /\ lock' = [lock EXCEPT ![j] = w]
          /\ draft' = [draft EXCEPT ![j] = Buried(queue[j])]
      BY ONLY <1>28, <2>2 DEF BuryStale, Visit, Write
    <3>2. LocksHeld' /\ RowsSelected'
      BY <2>1, <3>1
    <3>3. DraftsWritten'
      BY <2>1, <2>2, <3>1
    <3> QED
      BY <3>2, <3>3
  <2>3. CASE ~Exhausted(j)
    <3>1. UNCHANGED <<lock, draft>>
      BY ONLY <1>28, <2>3 DEF BuryStale, Visit
    <3> QED
      BY <2>1, <3>1
  <2> QED
    BY <2>2, <2>3
<1>29. ASSUME NEW w \in Workers, NEW j \in Jobs, RequeueStale(w, j) PROVE LocksInv'
  <2>1. /\ pc[w] = "requeue_scan" /\ Free(w, j)
        /\ UNCHANGED <<queue, deadLetter, letters, pc, held, token>>
    BY ONLY <1>29 DEF RequeueStale, Visit
  <2>2. CASE Retryable(j)
    <3>1. /\ lock' = [lock EXCEPT ![j] = w]
          /\ draft' = [draft EXCEPT ![j] = Requeued(queue[j])]
      BY ONLY <1>29, <2>2 DEF RequeueStale, Visit, Write
    <3>2. LocksHeld' /\ RowsSelected'
      BY <2>1, <3>1
    <3>3. DraftsWritten'
      BY <2>1, <2>2, <3>1
    <3> QED
      BY <3>2, <3>3
  <2>3. CASE ~Retryable(j)
    <3>1. UNCHANGED <<lock, draft>>
      BY ONLY <1>29, <2>3 DEF RequeueStale, Visit
    <3> QED
      BY <2>1, <3>1
  <2> QED
    BY <2>2, <2>3
<1>30. ASSUME NEW w \in Workers, NEW j \in Jobs, Claim(w, j) PROVE LocksInv'
  BY <1>30 DEF Claim, Goto, Write, Candidate
<1>31. ASSUME NEW j \in Jobs, Enqueue(j), UNCHANGED <<locals, crashes>>
      PROVE  LocksInv'
  BY <1>31 DEF Enqueue, Update, Absent, locals
<1>32. ASSUME NEW j \in Jobs, Pause(j), UNCHANGED <<locals, crashes>>
      PROVE  LocksInv'
  BY <1>32 DEF Pause, Update, locals
<1>33. ASSUME NEW j \in Jobs, Resume(j), UNCHANGED <<locals, crashes>>
      PROVE  LocksInv'
  BY <1>33 DEF Resume, Update, locals
<1>34. ASSUME NEW j \in Jobs, Cancel(j), UNCHANGED <<locals, crashes>>
      PROVE  LocksInv'
  BY <1>34 DEF Cancel, Update, locals
<1>35. ASSUME NEW j \in Jobs, Expire(j), UNCHANGED <<locals, crashes>>
      PROVE  LocksInv'
  <2>1. queue[j] \in Row /\ queue'[j] = [queue[j] EXCEPT !.lease = "expired"]
    BY <1>35 DEF Expire
  <2>2. queue'[j] \in Row
    BY <2>1 DEF Row
  <2>3. /\ Extended(queue'[j]) = Extended(queue[j])
        /\ Buried(queue'[j]) = Buried(queue[j])
        /\ Completed(queue'[j]) = Completed(queue[j])
        /\ Requeued(queue'[j]) = Requeued(queue[j])
        /\ Retried(queue'[j]) = Retried(queue[j])
        /\ queue'[j].state = queue[j].state /\ queue'[j].attempts = queue[j].attempts
        /\ queue'[j].token = queue[j].token /\ queue'[j].lease = "expired"
    BY <2>1, <2>2, DeadlineOverwritten
  <2>4. \A i \in Jobs \ {j} : queue'[i] = queue[i]
    BY <1>35 DEF Expire
  <2>5. LocksHeld' /\ RowsSelected'
    BY <1>35, <2>3, <2>4 DEF Expire, locals
  <2>6. DraftsWritten'
    BY <1>35, <2>3, <2>4 DEF Expire, locals
  <2> QED
    BY <2>5, <2>6
<1>36. ASSUME NEW j \in Jobs, BecomeReady(j), UNCHANGED <<locals, crashes>>
      PROVE  LocksInv'
  BY <1>36 DEF BecomeReady, locals
<1>37. ASSUME UNCHANGED vars PROVE LocksInv'
  BY <1>37 DEF vars, tables, locals
<1> QED
  BY <1>1, <1>2, <1>3, <1>4, <1>5, <1>6, <1>7, <1>8, <1>9, <1>10, <1>11,
     <1>12, <1>13, <1>14, <1>15, <1>16, <1>17, <1>18, <1>19, <1>20, <1>21,
     <1>22, <1>23, <1>24, <1>25, <1>26, <1>27, <1>28, <1>29, <1>30, <1>31,
     <1>32, <1>33, <1>34, <1>35, <1>36, <1>37
     DEF Next, Step, Recovery, Work, Environment

\* Every step keeps the letter of dead_letter_job ahead of its UPDATE.
LEMMA LetterFirstStep ==
  ASSUME IInv, [Next]_vars
  PROVE  LetterFirst'
<1> USE NoneAssumption, NoneIsNoRow, RowFields
    DEF IInv, TablesOK, LocalsInv, LocksInv, LocalsOK, JobsHeld, RowTokens,
    LocksHeld, LetterFirst, HasLetter, JobSteps, LockSteps, ScanSteps, Owned,
    NoToken, Mine
<1>1. ASSUME NEW w \in Workers, RecoverLetters(w) PROVE LetterFirst'
  BY <1>1 DEF RecoverLetters, Goto, InsertLetters, tables
<1>2. ASSUME NEW w \in Workers, ScanDead(w) PROVE LetterFirst'
  BY <1>2 DEF ScanDead, Goto, tables
<1>3. ASSUME NEW w \in Workers, ScanRetryable(w) PROVE LetterFirst'
  BY <1>3 DEF ScanRetryable, Goto, tables
<1>4. ASSUME NEW w \in Workers, CommitRecovery(w) PROVE LetterFirst'
  BY <1>4, DraftFacts DEF CommitRecovery, Goto, Commit, Unlock, tables
<1>5. ASSUME NEW w \in Workers, ClaimNothing(w) PROVE LetterFirst'
  BY <1>5 DEF ClaimNothing, Goto, tables
<1>6. ASSUME NEW w \in Workers, CommitClaim(w) PROVE LetterFirst'
  BY <1>6, DraftFacts DEF CommitClaim, Goto, Commit, Unlock, tables
<1>7. ASSUME NEW w \in Workers, Accept(w) PROVE LetterFirst'
  BY <1>7 DEF Accept, Goto, tables
<1>8. ASSUME NEW w \in Workers, Reject(w) PROVE LetterFirst'
  BY <1>8 DEF Reject, Goto, InsertLetters, Mine, tables
<1>9. ASSUME NEW w \in Workers, RejectRow(w) PROVE LetterFirst'
  BY <1>9 DEF RejectRow, Goto, Write, Mine, tables
<1>10. ASSUME NEW w \in Workers, Heartbeat(w) PROVE LetterFirst'
  BY <1>10 DEF Heartbeat, Goto, Write, Mine, tables
<1>11. ASSUME NEW w \in Workers, CommitHeartbeat(w) PROVE LetterFirst'
  BY <1>11, DraftFacts DEF CommitHeartbeat, Goto, Commit, Unlock, tables
<1>12. ASSUME NEW w \in Workers, RemoteError(w) PROVE LetterFirst'
  BY <1>12 DEF RemoteError, Goto, tables
<1>13. ASSUME NEW w \in Workers, Fence(w) PROVE LetterFirst'
  BY <1>13 DEF Fence, Goto, Write, Mine, tables
<1>14. ASSUME NEW w \in Workers, FenceRejected(w) PROVE LetterFirst'
  BY <1>14 DEF FenceRejected, Return, Goto, Mine, tables
<1>15. ASSUME NEW w \in Workers, PutObject(w) PROVE LetterFirst'
  BY <1>15, DraftFacts DEF PutObject, Goto, Commit, Unlock, tables
<1>16. ASSUME NEW w \in Workers, PutError(w) PROVE LetterFirst'
  BY <1>16 DEF PutError, Goto, Rollback, Unlock, tables
<1>17. ASSUME NEW w \in Workers, Complete(w) PROVE LetterFirst'
  BY <1>17 DEF Complete, Goto, Write, Mine, tables
<1>18. ASSUME NEW w \in Workers, CompleteLate(w) PROVE LetterFirst'
  BY <1>18 DEF CompleteLate, Goto, Mine, tables
<1>19. ASSUME NEW w \in Workers, CanaryLate(w) PROVE LetterFirst'
  BY <1>19 DEF CanaryLate, Return, Goto, Mine, tables
<1>20. ASSUME NEW w \in Workers, LockFailed(w) PROVE LetterFirst'
  BY <1>20 DEF LockFailed, Goto, Write, Mine, tables
<1>21. ASSUME NEW w \in Workers, FailLost(w) PROVE LetterFirst'
  BY <1>21 DEF FailLost, Return, Goto, Mine, tables
<1>22. ASSUME NEW w \in Workers, Retry(w) PROVE LetterFirst'
  BY <1>22 DEF Retry, Goto, Write, Mine, tables
<1>23. ASSUME NEW w \in Workers, Bury(w) PROVE LetterFirst'
  BY <1>23 DEF Bury, Goto, Write, Mine, InsertLetters, tables
<1>24. ASSUME NEW w \in Workers, CommitOutcome(w) PROVE LetterFirst'
  BY <1>24, DraftFacts DEF CommitOutcome, Return, Goto, Commit, Unlock, tables
<1>25. ASSUME NEW w \in Workers, Crash(w) PROVE LetterFirst'
  BY <1>25 DEF Crash, Die, Return, Goto, Rollback, Unlock, tables
<1>26. ASSUME NEW w \in Workers, Restart(w) \/ Start(w) PROVE LetterFirst'
  BY <1>26 DEF Restart, Start, Goto, tables
<1>27. ASSUME NEW w \in Workers, DeadlockAbort(w) PROVE LetterFirst'
  BY <1>27 DEF DeadlockAbort, Die, Return, Goto, Rollback, Unlock, tables
<1>28. ASSUME NEW w \in Workers, NEW j \in Jobs, BuryStale(w, j) PROVE LetterFirst'
  BY <1>28 DEF BuryStale, Visit, Write
<1>29. ASSUME NEW w \in Workers, NEW j \in Jobs, RequeueStale(w, j)
      PROVE  LetterFirst'
  BY <1>29 DEF RequeueStale, Visit, Write
<1>30. ASSUME NEW w \in Workers, NEW j \in Jobs, Claim(w, j) PROVE LetterFirst'
  BY <1>30 DEF Claim, Goto, Write, Candidate
<1>31. ASSUME NEW j \in Jobs, Enqueue(j), UNCHANGED <<locals, crashes>>
      PROVE  LetterFirst'
  BY <1>31 DEF Enqueue, Update, Absent, locals
<1>32. ASSUME NEW j \in Jobs, Pause(j), UNCHANGED <<locals, crashes>>
      PROVE  LetterFirst'
  BY <1>32 DEF Pause, Update, locals
<1>33. ASSUME NEW j \in Jobs, Resume(j), UNCHANGED <<locals, crashes>>
      PROVE  LetterFirst'
  BY <1>33 DEF Resume, Update, locals
<1>34. ASSUME NEW j \in Jobs, Cancel(j), UNCHANGED <<locals, crashes>>
      PROVE  LetterFirst'
  BY <1>34 DEF Cancel, Update, locals
<1>35. ASSUME NEW j \in Jobs, Expire(j), UNCHANGED <<locals, crashes>>
      PROVE  LetterFirst'
  BY <1>35 DEF Expire, locals
<1>36. ASSUME NEW j \in Jobs, BecomeReady(j), UNCHANGED <<locals, crashes>>
      PROVE  LetterFirst'
  BY <1>36 DEF BecomeReady, locals
<1>37. ASSUME UNCHANGED vars PROVE LetterFirst'
  BY <1>37 DEF vars, tables, locals
<1> QED
  BY <1>1, <1>2, <1>3, <1>4, <1>5, <1>6, <1>7, <1>8, <1>9, <1>10, <1>11,
     <1>12, <1>13, <1>14, <1>15, <1>16, <1>17, <1>18, <1>19, <1>20, <1>21,
     <1>22, <1>23, <1>24, <1>25, <1>26, <1>27, <1>28, <1>29, <1>30, <1>31,
     <1>32, <1>33, <1>34, <1>35, <1>36, <1>37
     DEF Next, Step, Recovery, Work, Environment

\* The inductive invariant holds throughout.
LEMMA Invariance == Spec => []IInv
<1>1. Init => IInv
  <2> USE NoneAssumption, MaxAttemptsAssumption, JobAssumption
  <2>1. ASSUME Init PROVE TablesOK /\ NeverStranded /\ RowTokens /\ RestingRows
    <3>1. Absent \in Row /\ Absent.state = "absent" /\ Absent.attempts = 0
          /\ Absent.token = 0
      BY DEF Absent, Row, States, NoToken
    <3> QED
      BY <2>1, <3>1 DEF Init, TablesInit, TablesOK, NeverStranded, RowTokens,
         RestingRows, NoToken
  <2>2. ASSUME Init PROVE LocalsInv /\ LocksInv /\ LetterFirst
    BY <2>2 DEF Init, TablesInit, LocalsInv, LocalsOK, Steps, JobsHeld, JobSteps,
       RemoteStep, ObjectsApart, LocksInv, LocksHeld, RowsSelected, DraftsWritten,
       LetterFirst, NoToken
  <2> QED
    BY <2>1, <2>2 DEF IInv
<1>2. IInv /\ [Next]_vars => IInv'
  BY RowsInvStep, TablesOKStep, LocalsInvStep, LocksInvStep, LetterFirstStep
     DEF IInv, RowsInv
<1> QED
  BY <1>1, <1>2, PTL DEF Spec

\* Every variable of the queue and of its workers has its type, and no row is
\* claimed more often than max_attempts allows.
THEOREM TypeCorrect == Spec => []TypeOK
<1>1. IInv => TypeOK
  BY DEF IInv, TypeOK, LocalsInv
<1> QED
  BY <1>1, Invariance, PTL

\* A pending or paused row can still be claimed.
THEOREM RowsClaimable == Spec => []NeverStranded
<1>1. IInv => NeverStranded
  BY DEF IInv
<1> QED
  BY <1>1, Invariance, PTL

\* Inside lease_write_fence the worker owns its row, and nobody else writes for
\* the row or to the object.
THEOREM FenceExcludes == Spec => []FencedWriteIsOwned
<1>1. IInv => FencedWriteIsOwned
  BY DEF IInv, LocalsInv, ObjectsApart, LocksInv, RowsSelected, Mine,
     FencedWriteIsOwned
<1> QED
  BY <1>1, Invariance, PTL

\* A live lease ends only in a step of its owner, or with the cancellation of a
\* canary.
THEOREM LeasesRespected == Spec => LeaseRespected
<1> DEFINE A == \A j \in Jobs :
                  queue[j].state = "processing" /\ queue[j].lease = "live"
                    /\ ~Owned(queue'[j], queue[j].token)
                  => \/ \E w \in Workers : token[w] = queue[j].token /\ held[w] = j
                                           /\ pc'[w] # pc[w]
                     \/ IsCanary(j) /\ queue'[j].state = "dead"
<1>1. ASSUME IInv, [Next]_vars PROVE A
  <2> SUFFICES ASSUME NEW j \in Jobs, queue[j].state = "processing",
                      queue[j].lease = "live", ~Owned(queue'[j], queue[j].token)
               PROVE  \/ \E w \in Workers : token[w] = queue[j].token /\ held[w] = j
                                            /\ pc'[w] # pc[w]
                      \/ IsCanary(j) /\ queue'[j].state = "dead"
    OBVIOUS
  <2> USE <1>1 DEF IInv, TablesOK
  <2>0. queue[j] \in Row
    OBVIOUS
  <2>1. CASE UNCHANGED queue
    BY <2>1 DEF Owned
  <2>2. ASSUME NEW w \in Workers, Commit(w), pc'[w] # pc[w]
        PROVE  token[w] = queue[j].token /\ held[w] = j
    <3>1. lock[j] = w /\ draft[j] # None
      BY <2>2 DEF Commit, Owned
    <3>2. DraftOf(w, j)
      BY <3>1 DEF LocksInv, DraftsWritten
    <3>3. Owned(queue[j], token[w]) /\ pc[w] \notin ScanSteps
      BY <3>2 DEF DraftOf, Owned, Exhausted, Retryable, Stale, ScanSteps
    <3> QED
      BY <3>1, <3>3, NoneAssumption DEF LocksInv, LocksHeld, Owned
  <2>3. ASSUME NEW i \in Jobs, Cancel(i)
        PROVE  IsCanary(j) /\ queue'[j].state = "dead"
    BY <2>3, <2>0, RowFields DEF Cancel, Update, Owned
  <2>4. ASSUME NEW i \in Jobs, Expire(i) \/ BecomeReady(i)
        PROVE  FALSE
    <3>1. [queue[j] EXCEPT !.lease = "expired"].state = "processing"
          /\ [queue[j] EXCEPT !.lease = "expired"].token = queue[j].token
      BY <2>0 DEF Row
    <3> QED
      BY <3>1, <2>4 DEF Expire, BecomeReady, Owned
  <2>5. ASSUME NEW i \in Jobs, Enqueue(i) \/ Pause(i) \/ Resume(i)
        PROVE  FALSE
    BY <2>5 DEF Enqueue, Pause, Resume, Update, Owned
  <2> QED
    BY <2>1, <2>2, <2>3, <2>4, <2>5, QueueSteps
<1>2. IInv /\ [Next]_vars => [A]_vars
  BY <1>1
<1>3. [][A]_vars => LeaseRespected
  BY PTL DEF LeaseRespected
<1> QED
  BY <1>2, <1>3, Invariance, PTL DEF Spec

\* Whoever holds a row and whatever became of its lease, fail_job and
\* dead_letter_job never make it dead without its letter: a row that dies without
\* one was buried by recovery's commit, its lease having expired, or cancelled.
THEOREM LettersWritten == Spec => BuriedWithLetter
<1> DEFINE A == \A j \in Jobs :
                  queue'[j].state = "dead" /\ queue[j].state # "dead"
                  => \/ j \in deadLetter'
                     \/ Stale(queue[j]) /\ \E w \in Workers : RecoveryCommits(w)
                     \/ IsCanary(j) /\ UNCHANGED pc
<1>1. ASSUME IInv, [Next]_vars PROVE A
  <2> SUFFICES ASSUME NEW j \in Jobs, queue'[j].state = "dead", queue[j].state # "dead"
               PROVE  \/ j \in deadLetter'
                      \/ Stale(queue[j]) /\ \E w \in Workers : RecoveryCommits(w)
                      \/ IsCanary(j) /\ UNCHANGED pc
    OBVIOUS
  <2> USE <1>1 DEF IInv, TablesOK
  <2>0. queue[j] \in Row
    OBVIOUS
  <2>1. ASSUME NEW w \in Workers, Commit(w), pc[w] \in ScanSteps => RecoveryCommits(w)
        PROVE  \/ j \in deadLetter'
               \/ Stale(queue[j]) /\ RecoveryCommits(w)
    <3>1. lock[j] = w /\ draft[j] # None /\ draft[j].state = "dead"
      BY <2>1 DEF Commit
    <3>2. DraftOf(w, j)
      BY <3>1 DEF LocksInv, DraftsWritten
    <3>3. token[w] \in Nat
      BY DEF LocalsInv, LocalsOK
    <3>4. HasLetter(w, j) \/ (pc[w] \in ScanSteps /\ Stale(queue[j]))
      BY <2>0, <3>1, <3>2, <3>3, RowFields
         DEF DraftOf, Exhausted, Retryable, Owned
    <3> QED
      BY <2>1, <3>4 DEF Commit, HasLetter
  <2>2. ASSUME NEW i \in Jobs, Expire(i) \/ BecomeReady(i)
        PROVE  FALSE
    <3>1. /\ [queue[j] EXCEPT !.lease = "expired"].state = queue[j].state
          /\ [queue[j] EXCEPT !.ready = TRUE].state = queue[j].state
      BY <2>0 DEF Row
    <3> QED
      BY <3>1, <2>2 DEF Expire, BecomeReady
  <2>3. ASSUME NEW i \in Jobs, Enqueue(i) \/ Pause(i) \/ Resume(i) \/ Cancel(i)
        PROVE  IsCanary(j)
    <3>1. /\ [queue[j] EXCEPT !.state = "paused"].state = "paused"
          /\ [queue[j] EXCEPT !.state = "pending"].state = "pending"
          /\ [Absent EXCEPT !.state = "pending"].state = "pending"
      BY <2>0 DEF Row, Absent
    <3> QED
      BY <3>1, <2>3 DEF Enqueue, Pause, Resume, Cancel, Update
  <2> QED
    BY <2>1, <2>2, <2>3, QueueSteps
<1>2. IInv /\ [Next]_vars => [A]_vars
  BY <1>1
<1>3. [][A]_vars => BuriedWithLetter
  BY PTL DEF BuriedWithLetter
<1> QED
  BY <1>2, <1>3, Invariance, PTL DEF Spec

View(r) == [state |-> r.state, attempts |-> r.attempts, lease |-> r.lease]

\* What each statement does to a row is a move of its life cycle.
LEMMA StatementMoves ==
  ASSUME NEW j \in Jobs, NEW r \in Row
  PROVE  LET to(s) == Lifecycle!Move(j, View(r), View(s)) IN
         /\ \A t \in Nat : r.state = "pending" /\ r.attempts < MaxAttempts[j]
                           => to(Leased(r, t))
         /\ r.state = "processing" =>
              /\ to(Extended(r)) /\ to(Completed(r)) /\ to(Buried(r))
              /\ r.attempts < MaxAttempts[j] => to(Requeued(r)) /\ to(Retried(r))
              /\ to([r EXCEPT !.lease = "expired"])
         /\ r.state = "pending" /\ r.lease = "none" => to([r EXCEPT !.state = "paused"])
         /\ r.state = "paused" /\ r.lease = "none" => to([r EXCEPT !.state = "pending"])
         /\ IsCanary(j) /\ r.state \in {"pending", "paused", "processing"}
              => to(Buried(r))
         /\ View([r EXCEPT !.ready = TRUE]) = View(r)
<1> USE DEF View, Lifecycle!Move
<1>1. ASSUME NEW t \in Nat, r.state = "pending", r.attempts < MaxAttempts[j]
      PROVE  Lifecycle!Lease(j, View(r), View(Leased(r, t)))
  BY <1>1, RowFields DEF Lifecycle!Lease, Lifecycle!Running
<1>2. ASSUME r.state = "processing"
      PROVE  /\ Lifecycle!Renew(View(r), View(Extended(r)))
             /\ Lifecycle!Finish(View(r), View(Completed(r)))
             /\ Lifecycle!Finish(View(r), View(Buried(r)))
             /\ r.attempts < MaxAttempts[j] =>
                  /\ Lifecycle!Yield(j, View(r), View(Requeued(r)))
                  /\ Lifecycle!Yield(j, View(r), View(Retried(r)))
             /\ Lifecycle!Renew(View(r), View([r EXCEPT !.lease = "expired"]))
  <2>1. LET s == [r EXCEPT !.lease = "expired"] IN
          s.state = r.state /\ s.attempts = r.attempts /\ s.lease = "expired"
    BY DEF Row
  <2> QED
    BY <1>2, <2>1, RowFields
       DEF Lifecycle!Renew, Lifecycle!Finish, Lifecycle!Yield, Lifecycle!Rest,
           Lifecycle!Running
<1>3. ASSUME r.lease = "none", NEW s \in {"pending", "paused"},
             r.state \in {"pending", "paused"}, r.state # s
      PROVE  Lifecycle!Hold(View(r), View([r EXCEPT !.state = s]))
  <2>1. LET q == [r EXCEPT !.state = s] IN
          q.state = s /\ q.attempts = r.attempts /\ q.lease = "none"
    BY <1>3 DEF Row
  <2> QED
    BY <1>3, <2>1 DEF Lifecycle!Hold, Lifecycle!Rest
<1>4. ASSUME IsCanary(j), r.state \in {"pending", "paused"}
      PROVE  Lifecycle!Withdraw(j, View(r), View(Buried(r)))
  BY <1>4, RowFields DEF Lifecycle!Withdraw, Lifecycle!Rest
<1>5. View([r EXCEPT !.ready = TRUE]) = View(r)
  BY DEF Row
<1> QED
  BY <1>1, <1>2, <1>3, <1>4, <1>5

\* The queue implements the life cycle of JobLifecycle: claims, renewals, recovery,
\* acknowledgements, retries, burials, pauses and cancellations move a row only as
\* that specification allows.
THEOREM LifecycleRefined == Spec => Refinement
<1> DEFINE moved(j) == \/ View(queue'[j]) = View(queue[j])
                       \/ Lifecycle!Move(j, View(queue[j]), View(queue'[j]))
<1>1. Init => Lifecycle!Init
  BY DEF Init, TablesInit, Absent, Lifecycle!Init
<1>2. ASSUME IInv, [Next]_vars
      PROVE  \A j \in Jobs : moved(j)
  <2> TAKE j \in Jobs
  <2> USE <1>2 DEF IInv, TablesOK
  <2>0. queue[j] \in Row
    OBVIOUS
  <2>1. CASE UNCHANGED queue
    BY <2>1
  <2>2. ASSUME NEW w \in Workers, Commit(w)
        PROVE  moved(j)
    <3>1. CASE lock[j] = w /\ draft[j] # None
      <4>1. queue'[j] = draft[j] /\ DraftOf(w, j)
        BY <2>2, <3>1 DEF Commit, LocksInv, DraftsWritten
      <4>2. token[w] \in Nat
        BY DEF LocalsInv, LocalsOK
      <4>3. \/ /\ queue[j].state = "pending" /\ queue[j].attempts < MaxAttempts[j]
               /\ queue'[j] = Leased(queue[j], token[w])
            \/ /\ queue[j].state = "processing"
               /\ \/ queue'[j] \in {Extended(queue[j]), Completed(queue[j]),
                                    Buried(queue[j])}
                  \/ /\ queue[j].attempts < MaxAttempts[j]
                     /\ queue'[j] \in {Requeued(queue[j]), Retried(queue[j])}
        BY <4>1 DEF DraftOf, Owned, Exhausted, Retryable, Stale
      <4>4. CASE queue[j].state = "pending"
        <5>1. queue'[j] = Leased(queue[j], token[w])
              /\ queue[j].attempts < MaxAttempts[j]
          BY <4>3, <4>4
        <5>2. Lifecycle!Move(j, View(queue[j]), View(Leased(queue[j], token[w])))
          BY <2>0, <4>2, <4>4, <5>1, StatementMoves
        <5> QED
          BY <5>1, <5>2
      <4>5. CASE queue[j].state = "processing"
        BY <2>0, <4>3, <4>5, StatementMoves
      <4> QED
        BY <4>3, <4>4, <4>5
    <3> QED
      BY <2>2, <3>1 DEF Commit
  <2>3. ASSUME NEW i \in Jobs,
               \/ Enqueue(i) \/ Pause(i) \/ Resume(i) \/ Cancel(i)
               \/ Expire(i) \/ BecomeReady(i)
        PROVE  moved(j)
    <3>1. CASE i # j
      BY <2>3, <3>1 DEF Enqueue, Pause, Resume, Cancel, Update, Expire, BecomeReady
    <3>2. CASE i = j /\ Enqueue(j)
      <4>1. LET s == [Absent EXCEPT !.state = "pending"] IN
              s.state = "pending" /\ s.attempts = 0 /\ s.lease = "none"
        BY DEF Absent
      <4>2. queue[j].state = "absent" /\ queue[j].attempts = 0
        BY <3>2 DEF Enqueue, RestingRows
      <4> QED
        BY <3>2, <4>1, <4>2
           DEF Enqueue, Update, View, Lifecycle!Move, Lifecycle!Submit, Lifecycle!Rest
    <3>3. CASE i = j /\ (Pause(j) \/ Resume(j))
      BY <2>0, <3>3, StatementMoves DEF Pause, Resume, Update, RestingRows
    <3>4. CASE i = j /\ (Cancel(j) \/ Expire(j) \/ BecomeReady(j))
      BY <2>0, <3>4, StatementMoves DEF Cancel, Update, Expire, BecomeReady
    <3> QED
      BY <2>3, <3>1, <3>2, <3>3, <3>4
  <2> QED
    BY <2>1, <2>2, <2>3, QueueSteps
<1>3. ASSUME IInv, [Next]_vars
      PROVE  Lifecycle!Next
  BY <1>2, <1>3 DEF Lifecycle!Next, View
<1> QED
  BY <1>1, <1>3, Invariance, PTL DEF Spec, Refinement, Lifecycle!Spec

=============================================================================
