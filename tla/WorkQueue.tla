----------------------------- MODULE WorkQueue -----------------------------
(***************************************************************************)
(* The tables cf_shadowglass_v35.work_queue and work_queue_dead_letter as  *)
(* the sessions of storage.py see them: PostgreSQL READ COMMITTED, one row *)
(* lock per queue row, an uncommitted version per locked row, uncommitted  *)
(* dead-letter inserts per session.  This module has the state and the SQL *)
(* statements; QueueWorker has the control of the sessions that issue them.*)
(*                                                                         *)
(* Time is not a number.  A lease is "live" until the clock passes its     *)
(* deadline and "expired" from then on, and a pending row is `ready' once  *)
(* its available_at has passed: Expire and BecomeReady may happen whenever *)
(* they are enabled, so every speed of the clock is covered.  A statement  *)
(* evaluates its WHERE clause on the version it locks, and a version that  *)
(* is written but not committed does not expire before its COMMIT, which   *)
(* follows at once (leases are at least 30 s long).                        *)
(***************************************************************************)
EXTENDS Integers, FiniteSets

CONSTANTS
  Workers,      \* sessions of queue_worker.py processes
  Jobs,         \* the work_queue rows that may ever be inserted
  MaxAttempts,  \* max_attempts of each row
  None          \* SQL NULL, "no session" and "no uncommitted version"

ASSUME MaxAttemptsAssumption == MaxAttempts \in [Jobs -> Nat \ {0}]

ASSUME NoneAssumption == None \notin Workers /\ None \notin Jobs

VARIABLES
  queue,        \* committed version of each work_queue row
  draft,        \* version written by the session that locks the row, or None
  lock,         \* session that holds the row lock, or None
  deadLetter,   \* committed work_queue_dead_letter rows, by queue_id
  letters,      \* uncommitted work_queue_dead_letter inserts of each session
  lastToken     \* lease tokens (uuid4) are fresh: the last one generated

tables == <<queue, draft, lock, deadLetter, letters, lastToken>>

NoToken == 0

States == {"absent", "pending", "paused", "processing", "completed", "dead"}

Row == [state : States, attempts : Nat, token : Nat,
        lease : {"none", "live", "expired"}, ready : BOOLEAN]

ASSUME NoneIsNoRow == None \notin Row

Absent == [state |-> "absent", attempts |-> 0, token |-> NoToken,
           lease |-> "none", ready |-> TRUE]

TablesInit ==
  /\ queue = [j \in Jobs |-> Absent]
  /\ draft = [j \in Jobs |-> None]
  /\ lock = [j \in Jobs |-> None]
  /\ deadLetter = {}
  /\ letters = [w \in Workers |-> {}]
  /\ lastToken = NoToken

-----------------------------------------------------------------------------
(* WHERE clauses.                                                          *)

\* the row is processing under this token, whatever its deadline
Owned(r, t) == r.state = "processing" /\ r.token = t

\* ... and lease_expires_at > clock_timestamp()
OwnedLive(r, t) == Owned(r, t) /\ r.lease = "live"

\* A slip the properties must catch: a lease is taken back before its deadline.
StaleBeforeDeadline(r) == r.state = "processing"

Stale(r) == r.state = "processing" /\ r.lease = "expired"

Exhausted(j) == Stale(queue[j]) /\ queue[j].attempts >= MaxAttempts[j]

\* A slip the properties must catch: <= for <.
RetryableOnceMore(j) == Stale(queue[j]) /\ queue[j].attempts <= MaxAttempts[j]

Retryable(j) == Stale(queue[j]) /\ queue[j].attempts < MaxAttempts[j]

\* a statement of session w would not wait for the row lock of j
Free(w, j) == lock[j] \in {None, w}

\* INSERT ... ON CONFLICT (queue_id) DO NOTHING waits for an uncommitted
\* insert of the same queue_id by another session
LetterFree(w, j) == \A v \in Workers \ {w} : j \notin letters[v]

-----------------------------------------------------------------------------
(* SET clauses: the new version of a row.                                  *)

Leased(r, t) == [r EXCEPT !.state = "processing", !.attempts = @ + 1,
                          !.token = t, !.lease = "live"]

Extended(r) == [r EXCEPT !.lease = "live"]

\* A slip the properties must catch: giving a row back counts as an attempt.
ReleasedCounted(r, s, now) ==
  [r EXCEPT !.state = s, !.token = NoToken, !.lease = "none", !.ready = now,
            !.attempts = @ + 1]

Released(r, s, now) == [r EXCEPT !.state = s, !.token = NoToken,
                                 !.lease = "none", !.ready = now]

Buried(r) == Released(r, "dead", TRUE)

\* A slip the properties must catch: the ACK leaves lease_expires_at.
CompletedWithDeadline(r) == [r EXCEPT !.state = "completed", !.token = NoToken]

Completed(r) == Released(r, "completed", TRUE)

Requeued(r) == Released(r, "pending", TRUE)

\* available_at is set past the clock by the backoff
Retried(r) == Released(r, "pending", FALSE)

-----------------------------------------------------------------------------
(* Effects of one statement, COMMIT and ROLLBACK of session w.             *)

Write(w, j, r) ==
  /\ lock' = [lock EXCEPT ![j] = w]
  /\ draft' = [draft EXCEPT ![j] = r]

InsertLetters(w, js) ==
  letters' = [letters EXCEPT ![w] = @ \cup (js \ deadLetter)]

Unlock(w) ==
  /\ lock' = [j \in Jobs |-> IF lock[j] = w THEN None ELSE lock[j]]
  /\ draft' = [j \in Jobs |-> IF lock[j] = w THEN None ELSE draft[j]]
  /\ letters' = [letters EXCEPT ![w] = {}]

Commit(w) ==
  /\ queue' = [j \in Jobs |-> IF lock[j] = w /\ draft[j] # None
                                THEN draft[j] ELSE queue[j]]
  /\ deadLetter' = deadLetter \cup letters[w]
  /\ Unlock(w)

Rollback(w) == Unlock(w) /\ UNCHANGED <<queue, deadLetter>>

-----------------------------------------------------------------------------
(* Autocommitted statements of other processes, and the clock.             *)

\* a single UPDATE committed at once, by a session outside Workers
Update(j, r) ==
  /\ lock[j] = None
  /\ queue' = [queue EXCEPT ![j] = r]
  /\ UNCHANGED <<draft, lock, deadLetter, letters, lastToken>>

\* INSERT ... ON CONFLICT (idempotency_key) DO NOTHING: a row is inserted
\* once, every later call with its key changes nothing
Enqueue(j) ==
  /\ queue[j].state = "absent"
  /\ Update(j, [Absent EXCEPT !.state = "pending"])

\* A slip the properties must catch: running rows are paused too.
PauseRunning(j) ==
  /\ queue[j].state \in {"pending", "processing"}
  /\ Update(j, [queue[j] EXCEPT !.state = "paused"])

Pause(j) ==
  /\ queue[j].state = "pending"
  /\ Update(j, [queue[j] EXCEPT !.state = "paused"])

Resume(j) ==
  /\ queue[j].state = "paused"
  /\ Update(j, [queue[j] EXCEPT !.state = "pending"])

\* the clock passes lease_expires_at of the committed version
Expire(j) ==
  /\ queue[j].state = "processing" /\ queue[j].lease = "live"
  /\ queue' = [queue EXCEPT ![j].lease = "expired"]
  /\ UNCHANGED <<draft, lock, deadLetter, letters, lastToken>>

\* the clock passes available_at
BecomeReady(j) ==
  /\ queue[j].state \in {"pending", "paused"} /\ ~queue[j].ready
  /\ queue' = [queue EXCEPT ![j].ready = TRUE]
  /\ UNCHANGED <<draft, lock, deadLetter, letters, lastToken>>

-----------------------------------------------------------------------------

\* Every table has its type, and no row is run more often than its max_attempts
\* allows (claim_job, recover_stale_leases, fail_job).
TablesOK ==
  /\ queue \in [Jobs -> Row]
  /\ \A j \in Jobs : queue[j].attempts <= MaxAttempts[j]
  /\ draft \in [Jobs -> Row \cup {None}]
  /\ lock \in [Jobs -> Workers \cup {None}]
  /\ deadLetter \subseteq Jobs
  /\ letters \in [Workers -> SUBSET Jobs]
  /\ lastToken \in Nat

=============================================================================
