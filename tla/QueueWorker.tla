---------------------------- MODULE QueueWorker ----------------------------
(***************************************************************************)
(* queue_worker.py: the loop of each consumer process, statement by        *)
(* statement.  claim_job first recovers stale leases in a transaction of   *)
(* its own, then claims one row with SKIP LOCKED; process_once validates   *)
(* the payload, extends the lease between remote steps, writes each page   *)
(* object inside a lease fence, and acknowledges, fails or dead-letters    *)
(* the row.  Any process may be killed between two statements.             *)
(***************************************************************************)
EXTENDS WorkQueue

CONSTANTS
  Kind,        \* job_kind of each row
  Target,      \* payload targetWorkerId (read for acceptance canaries only)
  Isolated,    \* workers started with --claim-kind acceptance_canary
  Object,      \* object key each row writes
  Rounds,      \* remote steps between claim and ACK, one heartbeat each
  MaxCrashes   \* bound on the kills explored

Kinds == {"discover", "scrape", "acceptance_canary"}

ASSUME JobAssumption ==
  /\ Kind \in [Jobs -> Kinds]
  /\ Target \in [Jobs -> Workers]
  /\ Isolated \subseteq Workers
  /\ Rounds \in [Jobs -> Nat]
  /\ \A j \in Jobs : Kind[j] = "acceptance_canary" => Rounds[j] = 1
  /\ MaxCrashes \in Nat

VARIABLES
  pc,       \* what each process does next
  held,     \* the row its QueueJob names, or None
  token,    \* the lease_token of its QueueJob
  left,     \* remote steps still to do
  todo,     \* rows the current UPDATE of recover_stale_leases still visits
  crashes

locals == <<pc, held, token, left, todo>>

vars == <<tables, locals, crashes>>

IsCanary(j) == Kind[j] = "acceptance_canary"

Goto(w, from, to) == pc[w] = from /\ pc' = [pc EXCEPT ![w] = to]

\* process_once returns: the loop starts over without a job
Return(w, from, to) ==
  /\ Goto(w, from, to)
  /\ held' = [held EXCEPT ![w] = None]
  /\ token' = [token EXCEPT ![w] = NoToken]
  /\ left' = [left EXCEPT ![w] = 0]
  /\ todo' = [todo EXCEPT ![w] = {}]

\* the committed row w works on
Mine(w) == queue[held[w]]

Init ==
  /\ TablesInit
  /\ pc = [w \in Workers |-> "idle"]
  /\ held = [w \in Workers |-> None]
  /\ token = [w \in Workers |-> NoToken]
  /\ left = [w \in Workers |-> 0]
  /\ todo = [w \in Workers |-> {}]
  /\ crashes = 0

-----------------------------------------------------------------------------
(* recover_stale_leases: three statements, each with a snapshot of its own *)
(* and a clock_timestamp() of its own, in one transaction.                 *)

RecoverLetters(w) ==
  LET js == {j \in Jobs : Exhausted(j)} IN
  /\ Goto(w, "idle", "lettered")
  /\ \A j \in js \ deadLetter : LetterFree(w, j)
  /\ InsertLetters(w, js)
  /\ UNCHANGED <<queue, draft, lock, deadLetter, lastToken>>
  /\ UNCHANGED <<held, token, left, todo, crashes>>

ScanDead(w) ==
  /\ Goto(w, "lettered", "dead_scan")
  /\ todo' = [todo EXCEPT ![w] = {j \in Jobs : Exhausted(j)}]
  /\ UNCHANGED <<tables, held, token, left, crashes>>

\* A slip the properties must catch: recovery only buries.
ScanNothing(w) ==
  /\ Goto(w, "dead_scan", "requeue_scan")
  /\ todo[w] = {}
  /\ UNCHANGED <<tables, held, token, left, todo, crashes>>

ScanRetryable(w) ==
  /\ Goto(w, "dead_scan", "requeue_scan")
  /\ todo[w] = {}
  /\ todo' = [todo EXCEPT ![w] = {j \in Jobs : Retryable(j)}]
  /\ UNCHANGED <<tables, held, token, left, crashes>>

\* the UPDATE reaches row j: it waits for the row lock, evaluates its WHERE
\* clause again and writes the row or skips it
Visit(w, j, matches, r) ==
  /\ j \in todo[w] /\ Free(w, j)
  /\ todo' = [todo EXCEPT ![w] = @ \ {j}]
  /\ IF matches THEN Write(w, j, r) ELSE UNCHANGED <<lock, draft>>
  /\ UNCHANGED <<queue, deadLetter, letters, lastToken>>
  /\ UNCHANGED <<pc, held, token, left, crashes>>

BuryStale(w, j) ==
  pc[w] = "dead_scan" /\ Visit(w, j, Exhausted(j), Buried(queue[j]))

RequeueStale(w, j) ==
  pc[w] = "requeue_scan" /\ Visit(w, j, Retryable(j), Requeued(queue[j]))

CommitRecovery(w) ==
  /\ Goto(w, "requeue_scan", "claiming")
  /\ todo[w] = {}
  /\ Commit(w)
  /\ UNCHANGED <<lastToken, held, token, left, todo, crashes>>

-----------------------------------------------------------------------------
(* claim_job: one UPDATE of one unlocked candidate.  Priority, available_at*)
(* and id only order the candidates; any of them may come first here.      *)

Candidate(w, j) ==
  /\ queue[j].state = "pending" /\ queue[j].ready
  /\ queue[j].attempts < MaxAttempts[j]
  /\ IsCanary(j) => Target[j] = w
  /\ w \in Isolated => IsCanary(j)
  /\ lock[j] = None

Claim(w, j) ==
  /\ Goto(w, "claiming", "claimed")
  /\ Candidate(w, j)
  /\ lastToken' = lastToken + 1
  /\ Write(w, j, Leased(queue[j], lastToken'))
  /\ held' = [held EXCEPT ![w] = j]
  /\ token' = [token EXCEPT ![w] = lastToken']
  /\ UNCHANGED <<queue, deadLetter, letters, left, todo, crashes>>

ClaimNothing(w) ==
  /\ Goto(w, "claiming", "idle")
  /\ \A j \in Jobs : ~Candidate(w, j)
  /\ UNCHANGED <<tables, held, token, left, todo, crashes>>

CommitClaim(w) ==
  /\ Goto(w, "claimed", "loading")
  /\ Commit(w)
  /\ UNCHANGED <<lastToken, held, token, left, todo, crashes>>

-----------------------------------------------------------------------------
(* process_once after the claim.                                           *)

\* validate_payload and load_job_context succeed
Accept(w) ==
  /\ Goto(w, "loading", IF IsCanary(held[w]) THEN "fencing" ELSE "working")
  /\ left' = [left EXCEPT ![w] = Rounds[held[w]]]
  /\ UNCHANGED <<tables, held, token, todo, crashes>>

\* they raise: dead_letter_job inserts the letter without locking the row ...
Reject(w) ==
  /\ Goto(w, "loading", "rejecting")
  /\ LET js == IF Owned(Mine(w), token[w]) THEN {held[w]} ELSE {} IN
       /\ \A j \in js \ deadLetter : LetterFree(w, j)
       /\ InsertLetters(w, js)
  /\ UNCHANGED <<queue, draft, lock, deadLetter, lastToken>>
  /\ UNCHANGED <<held, token, left, todo, crashes>>

\* ... and then updates the row, which may have changed hands in between
RejectRow(w) ==
  /\ Goto(w, "rejecting", "rejected")
  /\ Free(w, held[w])
  /\ IF Owned(Mine(w), token[w])
       THEN Write(w, held[w], Buried(Mine(w)))
       ELSE UNCHANGED <<lock, draft>>
  /\ UNCHANGED <<queue, deadLetter, letters, lastToken>>
  /\ UNCHANGED <<held, token, left, todo, crashes>>

\* extend_lease; a lost lease raises RuntimeError
Heartbeat(w) ==
  /\ pc[w] = "working" /\ left[w] > 0 /\ Free(w, held[w])
  /\ IF OwnedLive(Mine(w), token[w])
       THEN Goto(w, "working", "extended") /\ Write(w, held[w], Extended(Mine(w)))
       ELSE Goto(w, "working", "failing") /\ UNCHANGED <<lock, draft>>
  /\ UNCHANGED <<queue, deadLetter, letters, lastToken>>
  /\ UNCHANGED <<held, token, left, todo, crashes>>

\* a page is written after the heartbeat; discovery has nothing to write
CommitHeartbeat(w) ==
  LET writes == Kind[held[w]] = "scrape" IN
  /\ Goto(w, "extended", IF writes THEN "fencing" ELSE "working")
  /\ left' = [left EXCEPT ![w] = IF writes THEN @ ELSE @ - 1]
  /\ Commit(w)
  /\ UNCHANGED <<lastToken, held, token, todo, crashes>>

\* the relay or the scraper raises
RemoteError(w) ==
  /\ Goto(w, "working", "failing")
  /\ ~IsCanary(held[w])
  /\ UNCHANGED <<tables, held, token, left, todo, crashes>>

\* A slip the properties must catch: no advisory lock on the object key.
AdvisoryJobFree(w) ==
  \A v \in Workers \ {w} : pc[v] = "putting" => held[v] # held[w]

\* the advisory locks of the job and of the object key, which only another
\* fence can hold
AdvisoryFree(w) ==
  \A v \in Workers \ {w} :
    pc[v] = "putting" =>
      held[v] # held[w] /\ Object[held[v]] # Object[held[w]]

\* lease_write_fence: both advisory locks, then SELECT ... FOR UPDATE
Fence(w) ==
  /\ Goto(w, "fencing", "putting")
  /\ AdvisoryFree(w) /\ Free(w, held[w])
  /\ OwnedLive(Mine(w), token[w])
  /\ Write(w, held[w], None)
  /\ UNCHANGED <<queue, deadLetter, letters, lastToken>>
  /\ UNCHANGED <<held, token, left, todo, crashes>>

\* LeaseFenceRejected: the row is left as it is
FenceRejected(w) ==
  /\ Return(w, "fencing", "idle")
  /\ AdvisoryFree(w) /\ Free(w, held[w])
  /\ ~OwnedLive(Mine(w), token[w])
  /\ UNCHANGED <<tables, crashes>>

\* the object is stored and verified, the fence commits
PutObject(w) ==
  /\ Goto(w, "putting", "working")
  /\ left' = [left EXCEPT ![w] = @ - 1]
  /\ Commit(w)
  /\ UNCHANGED <<lastToken, held, token, todo, crashes>>

\* ObjectStoreError inside the fence rolls it back
PutError(w) ==
  /\ Goto(w, "putting", "failing")
  /\ Rollback(w)
  /\ UNCHANGED <<lastToken, held, token, left, todo, crashes>>

-----------------------------------------------------------------------------
(* The ACK, and fail_job.                                                  *)

\* complete_job, complete_discovery or complete_scrape
Complete(w) ==
  /\ Goto(w, "working", "acknowledged")
  /\ left[w] = 0 /\ Free(w, held[w])
  /\ OwnedLive(Mine(w), token[w])
  /\ Write(w, held[w], Completed(Mine(w)))
  /\ UNCHANGED <<queue, deadLetter, letters, lastToken>>
  /\ UNCHANGED <<held, token, left, todo, crashes>>

\* complete_job returns False: the canary is "stale", its row left as it is
CanaryLate(w) ==
  /\ Return(w, "working", "idle")
  /\ left[w] = 0 /\ Free(w, held[w])
  /\ ~OwnedLive(Mine(w), token[w])
  /\ IsCanary(held[w])
  /\ UNCHANGED <<tables, crashes>>

\* complete_discovery and complete_scrape raise LookupError, which rolls their
\* transaction back and goes to fail_job
CompleteLate(w) ==
  /\ Goto(w, "working", "failing")
  /\ left[w] = 0 /\ Free(w, held[w])
  /\ ~OwnedLive(Mine(w), token[w])
  /\ ~IsCanary(held[w])
  /\ UNCHANGED <<tables, held, token, left, todo, crashes>>

\* fail_job: SELECT ... FOR UPDATE with the token and without the deadline
LockFailed(w) ==
  /\ Goto(w, "failing", "failed")
  /\ Free(w, held[w])
  /\ Owned(Mine(w), token[w])
  /\ Write(w, held[w], None)
  /\ UNCHANGED <<queue, deadLetter, letters, lastToken>>
  /\ UNCHANGED <<held, token, left, todo, crashes>>

\* no row: LookupError leaves process_once and ends the process
FailLost(w) ==
  /\ Return(w, "failing", "down")
  /\ Free(w, held[w])
  /\ ~Owned(Mine(w), token[w])
  /\ UNCHANGED <<tables, crashes>>

Retry(w) ==
  /\ Goto(w, "failed", "decided")
  /\ Mine(w).attempts < MaxAttempts[held[w]]
  /\ Write(w, held[w], Retried(Mine(w)))
  /\ UNCHANGED <<queue, deadLetter, letters, lastToken>>
  /\ UNCHANGED <<held, token, left, todo, crashes>>

\* A slip the properties must catch: no INSERT once the lease has expired.
BuryExpiredUnlettered(w) ==
  LET js == IF OwnedLive(Mine(w), token[w]) THEN {held[w]} ELSE {} IN
  /\ Goto(w, "failed", "decided")
  /\ Mine(w).attempts >= MaxAttempts[held[w]]
  /\ \A j \in js \ deadLetter : LetterFree(w, j)
  /\ InsertLetters(w, js)
  /\ Write(w, held[w], Buried(Mine(w)))
  /\ UNCHANGED <<queue, deadLetter, lastToken>>
  /\ UNCHANGED <<held, token, left, todo, crashes>>

Bury(w) ==
  /\ Goto(w, "failed", "decided")
  /\ Mine(w).attempts >= MaxAttempts[held[w]]
  /\ held[w] \in deadLetter \/ LetterFree(w, held[w])
  /\ InsertLetters(w, {held[w]})
  /\ Write(w, held[w], Buried(Mine(w)))
  /\ UNCHANGED <<queue, deadLetter, lastToken>>
  /\ UNCHANGED <<held, token, left, todo, crashes>>

\* COMMIT of complete_*, fail_job or dead_letter_job; process_once returns
CommitOutcome(w) ==
  /\ \E from \in {"acknowledged", "decided", "rejected"} : Return(w, from, "idle")
  /\ Commit(w)
  /\ UNCHANGED <<lastToken, crashes>>

-----------------------------------------------------------------------------
(* Kills, restarts and deadlocks.                                          *)

\* the server rolls the open transaction back and releases its locks
Die(w) ==
  /\ Return(w, pc[w], "down")
  /\ Rollback(w)
  /\ UNCHANGED lastToken

Crash(w) ==
  /\ pc[w] # "down"
  /\ crashes < MaxCrashes
  /\ crashes' = crashes + 1
  /\ Die(w)

\* systemd starts the general consumer again (Restart=always)
Restart(w) ==
  /\ w \notin Isolated
  /\ Goto(w, "down", "idle")
  /\ UNCHANGED <<tables, held, token, left, todo, crashes>>

\* nothing restarts a canary-only worker (Restart=no, systemd-run); a later
\* deployment may start it
Start(w) ==
  /\ w \in Isolated
  /\ Goto(w, "down", "idle")
  /\ UNCHANGED <<tables, held, token, left, todo, crashes>>

\* w waits for v: for a letter v inserted, or for a row v has locked
WaitsForLetter(w, v) ==
  /\ pc[w] = "failed" /\ held[w] \in letters[v] \ deadLetter
  /\ Mine(w).attempts >= MaxAttempts[held[w]]

WaitsForRow(w, v) ==
  \/ pc[w] \in {"dead_scan", "requeue_scan"} /\ \E j \in todo[w] : lock[j] = v
  \/ pc[w] = "rejecting" /\ lock[held[w]] = v

\* PostgreSQL aborts one session of a cycle (of two: the deployment runs two
\* consumers); the error ends the process, as fail_job and dead_letter_job are
\* called in except clauses and claim_job outside the try
DeadlockAbort(w) ==
  /\ \E v \in Workers \ {w} :
       \/ WaitsForLetter(w, v) /\ WaitsForRow(v, w)
       \/ WaitsForRow(w, v) /\ (WaitsForLetter(v, w) \/ WaitsForRow(v, w))
  /\ Die(w)
  /\ UNCHANGED crashes

-----------------------------------------------------------------------------

Recovery(w) ==
  \/ RecoverLetters(w) \/ ScanDead(w) \/ ScanRetryable(w) \/ CommitRecovery(w)
  \/ \E j \in Jobs : BuryStale(w, j) \/ RequeueStale(w, j)

Work(w) ==
  \/ \E j \in Jobs : Claim(w, j)
  \/ ClaimNothing(w) \/ CommitClaim(w)
  \/ Accept(w) \/ Reject(w) \/ RejectRow(w)
  \/ Heartbeat(w) \/ CommitHeartbeat(w) \/ RemoteError(w)
  \/ Fence(w) \/ FenceRejected(w) \/ PutObject(w) \/ PutError(w)
  \/ Complete(w) \/ CompleteLate(w) \/ CanaryLate(w)
  \/ LockFailed(w) \/ FailLost(w) \/ Retry(w) \/ Bury(w)
  \/ CommitOutcome(w)

Step(w) == Recovery(w) \/ Work(w) \/ Restart(w) \/ DeadlockAbort(w)

\* cancel_acceptance_canary: no token, and no dead-letter row
Cancel(j) ==
  /\ IsCanary(j)
  /\ queue[j].state \in {"pending", "paused", "processing"}
  /\ Update(j, Buried(queue[j]))

Environment ==
  /\ \E j \in Jobs : \/ Enqueue(j) \/ Pause(j) \/ Resume(j) \/ Cancel(j)
                     \/ Expire(j) \/ BecomeReady(j)
  /\ UNCHANGED <<locals, crashes>>

Next == (\E w \in Workers : Step(w) \/ Start(w) \/ Crash(w)) \/ Environment

Spec == Init /\ [][Next]_vars

-----------------------------------------------------------------------------
(* Properties.                                                             *)

Steps == {"idle", "lettered", "dead_scan", "requeue_scan", "claiming", "claimed",
          "loading", "rejecting", "rejected", "working", "extended", "fencing",
          "putting", "acknowledged", "failing", "failed", "decided", "down"}

\* The variables of the processes have their types.
LocalsOK ==
  /\ pc \in [Workers -> Steps]
  /\ held \in [Workers -> Jobs \cup {None}]
  /\ token \in [Workers -> Nat]
  /\ left \in [Workers -> Nat]
  /\ todo \in [Workers -> SUBSET Jobs]
  /\ crashes \in Nat

\* Every variable has its type, and no row is run more often than its
\* max_attempts allows (claim_job, recover_stale_leases, fail_job).
TypeOK == TablesOK /\ LocalsOK

\* No row is stranded: a row that waits to run can still be claimed, because
\* it has an attempt left.  A row that every retry, recovery, pause and resume
\* left pending with its attempts used up would never be claimed and would
\* keep the hourly scheduler from enqueuing anything ever again.
NeverStranded ==
  \A j \in Jobs :
    queue[j].state \in {"pending", "paused"} => queue[j].attempts < MaxAttempts[j]

\* While a worker writes an object inside lease_write_fence its row is neither
\* recovered nor reassigned, even when the lease runs out during the write, and
\* no other worker writes for the same row or to the same object key.
FencedWriteIsOwned ==
  \A w \in Workers : pc[w] = "putting" =>
    /\ Owned(Mine(w), token[w])
    /\ \A v \in Workers \ {w} :
         pc[v] = "putting" => held[v] # held[w] /\ Object[held[v]] # Object[held[w]]

\* A live lease is left alone by everyone but the worker that holds its token:
\* a row whose lease has not expired leaves processing, or changes token, only
\* in a step of that worker, except when the release tool cancels its canary.
LeaseRespected ==
  [][\A j \in Jobs :
       queue[j].state = "processing" /\ queue[j].lease = "live"
         /\ ~Owned(queue'[j], queue[j].token)
       => \/ \E w \in Workers : token[w] = queue[j].token /\ held[w] = j
                                /\ pc'[w] # pc[w]
          \/ IsCanary(j) /\ queue'[j].state = "dead"]_vars

\* Recovery alone buries a row without looking at its dead-letter row again, in
\* its commit, and only rows whose lease had expired.
RecoveryCommits(w) == pc[w] = "requeue_scan" /\ pc'[w] = "claiming"

\* A row that a worker makes dead by fail_job or dead_letter_job, whether its lease
\* still runs or not, has its dead-letter row in the same commit.  The only other
\* ends of a row are the commit of recover_stale_leases, of a row whose lease had
\* expired, and the release tool's cancellation of a canary, no worker's step.
BuriedWithLetter ==
  [][\A j \in Jobs :
       queue'[j].state = "dead" /\ queue[j].state # "dead"
       => \/ j \in deadLetter'
          \/ Stale(queue[j]) /\ \E w \in Workers : RecoveryCommits(w)
          \/ IsCanary(j) /\ UNCHANGED pc]_vars

\* The rows follow the life cycle JobLifecycle promises.
Lifecycle == INSTANCE JobLifecycle WITH
  job <- [j \in Jobs |-> [state |-> queue[j].state, attempts |-> queue[j].attempts,
                          lease |-> queue[j].lease]],
  Cancellable <- {j \in Jobs : IsCanary(j)}

Refinement == Lifecycle!Spec

\* recover_stale_leases "Requeue[s] expired leases or dead-letter[s] jobs whose
\* attempts are exhausted": a row that is not a canary is dead only with its
\* dead-letter row.
DeadHasLetter ==
  \A j \in Jobs : queue[j].state = "dead" /\ ~IsCanary(j) => j \in deadLetter

\* Fairness: each process takes its next step when it can, the general consumers
\* are restarted when they have ended (systemd; the canary-only ones are not), and
\* time passes.  An INSERT that waits for another session's uncommitted letter goes
\* through once that session has ended, even if a restarted process could insert it
\* again (3 s later, RestartSec).  No fairness for the clients of the API, for
\* kills, for cancellation or for the start of a canary-only worker.
Fairness ==
  /\ \A w \in Workers : WF_vars(Step(w)) /\ SF_vars(Bury(w))
  /\ \A j \in Jobs : /\ WF_vars(Expire(j) /\ UNCHANGED <<locals, crashes>>)
                     /\ WF_vars(BecomeReady(j) /\ UNCHANGED <<locals, crashes>>)

FairSpec == Spec /\ Fairness

\* nobody but the worker it is for runs a canary, and that one may be down for good
Servable(j) == IsCanary(j) => Target[j] \notin Isolated

\* Every row that is running settles, and every row that waits for a worker that is
\* kept running: it completes, dies or is paused by a client, whatever is killed,
\* rejected, fails or expires on the way.  A canary that runs when its canary-only
\* worker ends for good is settled by a general consumer's recovery.
JobsSettle ==
  \A j \in Jobs :
    queue[j].state = "processing" \/ (queue[j].state = "pending" /\ Servable(j))
      ~> queue[j].state \in {"completed", "dead", "paused"}

=============================================================================
