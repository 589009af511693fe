--------------------------- MODULE ScrapeProgress ---------------------------
(***************************************************************************)
(* How a county/instrument pair is scraped: the hourly scheduler and the   *)
(* API insert discovery rows, complete_discovery fans a search out into    *)
(* page rows, complete_scrape acknowledges a page and moves the checkpoint *)
(* cf_shadowglass_v35.scrape_jobs of the pair, and the scheduler reads the *)
(* checkpoint to pick the next pair.  QueueWorker has the leases; here a   *)
(* row is held by one consumer until it is taken back.                     *)
(*                                                                         *)
(* Transactions are READ COMMITTED: every statement reads what is committed*)
(* when it starts, an upsert waits for the row lock of the checkpoint.     *)
(* Each page has one record; r2_uploads, deed_records and scrape_logs are  *)
(* written in the same commit as the ACK and read by nobody here.          *)
(***************************************************************************)
EXTENDS Integers, FiniteSets

CONSTANTS
  Consumers,   \* queue_worker.py processes
  Schedulers,  \* scheduled_job.py processes that may overlap
  Pairs,       \* active county/instrument pairs
  Id,          \* the order of their county and instrument ids
  Hours,       \* UTC hours explored, consecutive numbers
  Requests,    \* idempotency keys of API discoveries, one pair each
  RequestPair, \* the pair of each of them
  Scraped,     \* pairs for which the API also requests page 0 directly
  MaxPages,    \* bound on the pages a discovery finds
  None

ASSUME ScopeAssumption ==
  /\ Hours \subseteq Nat /\ Hours # {}
  /\ Id \in [Pairs -> Nat]
  /\ RequestPair \in [Requests -> Pairs]
  /\ Scraped \subseteq Pairs
  /\ MaxPages \in Nat
  /\ None \notin Consumers

Hourly == [kind : {"hourly"}, pair : Pairs, key : Hours]

Requested ==
  {[kind |-> "requested", pair |-> RequestPair[k], key |-> k] : k \in Requests}

Searches == Hourly \cup Requested

\* idempotency key discovery:{job.id}:page:{page}
PageRow(s, n) == [kind |-> "page", pair |-> s.pair, key |-> <<s, n>>]

Found == {PageRow(s, n) : s \in Searches, n \in 0..MaxPages - 1}

Direct == [kind : {"direct"}, pair : Scraped, key : {0}]

Scrapes == Found \cup Direct

Rows == Searches \cup Scrapes

VARIABLES
  rows,      \* committed state of each work_queue row
  holder,    \* consumer whose lease token the row carries, or None
  progress,  \* committed scrape_jobs row of each pair
  jobLock,   \* consumer that holds the row lock of scrape_jobs, or None
  pc, job,   \* what each consumer does next, the row it works on
  seen,      \* pages found, or has_remaining, as read by its transaction
  draft,     \* the scrape_jobs version it has written
  spc, pick, \* what each scheduler does next, its hour and the pair it picked
  hour,
  counted    \* history: pages added to each checkpoint since its last reset

consumers == <<pc, job, seen, draft>>
schedulers == <<spc, pick>>
vars == <<rows, holder, progress, jobLock, consumers, schedulers, hour, counted>>

States == {"absent", "waiting", "processing", "completed", "dead"}

\* pending and paused are both "waiting": nothing here tells them apart
Unsettled(r) == rows[r] \in {"waiting", "processing"}

\* no scrape_jobs row yet; `due`: completed_at is 24 hours old
Untouched == [status |-> "none", total |-> 0, scraped |-> 0, due |-> FALSE]

Init ==
  /\ rows = [r \in Rows |-> "absent"]
  /\ holder = [r \in Rows |-> None]
  /\ progress = [p \in Pairs |-> Untouched]
  /\ jobLock = [p \in Pairs |-> None]
  /\ pc = [c \in Consumers |-> "idle"]
  /\ job = [c \in Consumers |-> None]
  /\ seen = [c \in Consumers |-> 0]
  /\ draft = [c \in Consumers |-> Untouched]
  /\ spc = [s \in Schedulers |-> "idle"]
  /\ pick = [s \in Schedulers |-> None]
  /\ hour \in Hours /\ \A h \in Hours : hour <= h
  /\ counted = [p \in Pairs |-> {}]

Goto(c, from, to) == pc[c] = from /\ pc' = [pc EXCEPT ![c] = to]

PairOf(c) == job[c].pair

-----------------------------------------------------------------------------
(* Leases, as far as the checkpoint can tell.                              *)

\* claim_job
Take(c, r) ==
  /\ Goto(c, "idle", "working")
  /\ rows[r] = "waiting"
  /\ rows' = [rows EXCEPT ![r] = "processing"]
  /\ holder' = [holder EXCEPT ![r] = c]
  /\ job' = [job EXCEPT ![c] = r]
  /\ UNCHANGED <<progress, jobLock, seen, draft, schedulers, hour, counted>>

\* the ACK of complete_scrape holds the row lock until the commit
Acknowledging(r) ==
  \E c \in Consumers :
    /\ job[c] = r /\ holder[r] = c
    /\ pc[c] \in {"acknowledged", "looked", "recorded"}

\* A slip the properties must catch: the row keeps its lease.
GiveBackLeased(r) ==
  /\ rows[r] = "processing" /\ ~Acknowledging(r)
  /\ \E s \in {"waiting", "dead"} : rows' = [rows EXCEPT ![r] = s]
  /\ UNCHANGED <<holder, progress, jobLock, consumers, schedulers, hour, counted>>

\* recover_stale_leases takes the row back, or fail_job gives it back: it runs
\* again or is dead.  The consumer may not know.
GiveBack(r) ==
  /\ rows[r] = "processing" /\ ~Acknowledging(r)
  /\ \E s \in {"waiting", "dead"} : rows' = [rows EXCEPT ![r] = s]
  /\ holder' = [holder EXCEPT ![r] = None]
  /\ UNCHANGED <<progress, jobLock, consumers, schedulers, hour, counted>>

Unlock(c) ==
  jobLock' = [p \in Pairs |-> IF jobLock[p] = c THEN None ELSE jobLock[p]]

\* the consumer drops its job: an exception rolls its transaction back, its ACK
\* finds the lease lost, or the process is killed
Drop(c) ==
  /\ pc[c] # "idle"
  /\ pc' = [pc EXCEPT ![c] = "idle"]
  /\ job' = [job EXCEPT ![c] = None]
  /\ seen' = [seen EXCEPT ![c] = 0]
  /\ draft' = [draft EXCEPT ![c] = Untouched]
  /\ Unlock(c)
  /\ UNCHANGED <<rows, holder, progress, schedulers, hour, counted>>

\* COMMIT of a transaction that acknowledged its row
Finish(c) ==
  /\ holder' = [holder EXCEPT ![job[c]] = None]
  /\ progress' = [progress EXCEPT ![PairOf(c)] = draft[c]]
  /\ pc' = [pc EXCEPT ![c] = "idle"]
  /\ job' = [job EXCEPT ![c] = None]
  /\ seen' = [seen EXCEPT ![c] = 0]
  /\ draft' = [draft EXCEPT ![c] = Untouched]
  /\ Unlock(c)
  /\ UNCHANGED <<schedulers, hour>>

\* A slip the properties must catch: a plain UPDATE of a value read earlier, which
\* overwrites what another transaction commits meanwhile.
Overwrite(c, row) ==
  /\ jobLock' = jobLock
  /\ draft' = [draft EXCEPT ![c] = row]

\* an upsert of the pair's scrape_jobs row: it waits for the row lock and
\* sees the version committed last
Upsert(c, row) ==
  /\ jobLock[PairOf(c)] = None
  /\ jobLock' = [jobLock EXCEPT ![PairOf(c)] = c]
  /\ draft' = [draft EXCEPT ![c] = row]

-----------------------------------------------------------------------------
(* complete_discovery.                                                     *)

\* the upsert resets the checkpoint of the pair
Reset(c, n) ==
  /\ job[c] \in Searches
  /\ Goto(c, "working", "reset")
  /\ seen' = [seen EXCEPT ![c] = n]
  /\ Upsert(c, [status |-> IF n = 0 THEN "completed" ELSE "pending",
                total |-> n, scraped |-> 0, due |-> FALSE])
  /\ UNCHANGED <<rows, holder, progress, job, schedulers, hour, counted>>

\* page rows are inserted, the lease is acknowledged, the transaction commits
FanOut(c) ==
  LET pages == {PageRow(job[c], n) : n \in 0..seen[c] - 1} IN
  /\ pc[c] = "reset" /\ holder[job[c]] = c
  /\ rows' = [r \in Rows |-> IF r = job[c] THEN "completed"
                             ELSE IF r \in pages /\ rows[r] = "absent" THEN "waiting"
                             ELSE rows[r]]
  /\ counted' = [counted EXCEPT ![PairOf(c)] = {}]
  /\ Finish(c)

-----------------------------------------------------------------------------
(* complete_scrape.                                                        *)

\* the UPDATE of its own row, after the pages and records are upserted
Acknowledge(c) ==
  /\ job[c] \in Scrapes /\ holder[job[c]] = c
  /\ Goto(c, "working", "acknowledged")
  /\ UNCHANGED <<rows, holder, progress, jobLock, job, seen, draft, schedulers,
                 hour, counted>>

\* A slip the properties must catch: only the rows being worked on remain.
RemainingProcessing(c) ==
  {r \in Scrapes \ {job[c]} : r.pair = PairOf(c) /\ rows[r] = "processing"}

\* A slip the properties must catch: the row itself is not excluded.
RemainingWithSelf(c) == {r \in Scrapes : r.pair = PairOf(c) /\ Unsettled(r)}

\* has_remaining: other scrape rows of the pair that are committed as unsettled
Remaining(c) ==
  {r \in Scrapes \ {job[c]} : r.pair = PairOf(c) /\ Unsettled(r)}

Look(c) ==
  /\ Goto(c, "acknowledged", "looked")
  /\ seen' = [seen EXCEPT ![c] = IF Remaining(c) = {} THEN 0 ELSE 1]
  /\ UNCHANGED <<rows, holder, progress, jobLock, job, draft, schedulers, hour,
                 counted>>

\* the upsert adds its record to whatever count it finds, and overwrites the
\* status with the one it looked up before it waited
Record(c) ==
  LET old == progress[PairOf(c)] IN
  /\ Goto(c, "looked", "recorded")
  /\ Upsert(c, [status |-> IF seen[c] = 0 THEN "completed" ELSE "running",
                total |-> IF old.status = "none" THEN 1 ELSE old.total,
                scraped |-> old.scraped + 1, due |-> FALSE])
  /\ UNCHANGED <<rows, holder, progress, job, seen, schedulers, hour, counted>>

CommitScrape(c) ==
  /\ pc[c] = "recorded"
  /\ rows' = [rows EXCEPT ![job[c]] = "completed"]
  /\ counted' = [counted EXCEPT ![PairOf(c)] = @ \cup {job[c]}]
  /\ Finish(c)

-----------------------------------------------------------------------------
(* run_hourly, one transaction under a try-lock.                           *)

SGoto(s, from, to) == spc[s] = from /\ spc' = [spc EXCEPT ![s] = to]

\* pg_try_advisory_xact_lock succeeds; a scheduler that fails returns at once
Begin(s) ==
  /\ SGoto(s, "idle", "locked")
  /\ \A t \in Schedulers : spc[t] = "idle"
  /\ pick' = [pick EXCEPT ![s] = [hour |-> hour, pair |-> None]]
  /\ UNCHANGED <<rows, holder, progress, jobLock, consumers, hour, counted>>

\* it returns, or its process is killed
Quit(s) ==
  /\ spc[s] # "idle" /\ SGoto(s, spc[s], "idle")
  /\ pick' = [pick EXCEPT ![s] = None]
  /\ UNCHANGED <<rows, holder, progress, jobLock, consumers, hour, counted>>

\* A slip the properties must catch: the busy query forgets rows being worked on.
CheckWaiting(s) ==
  /\ SGoto(s, "locked", "clear")
  /\ \A r \in Rows : rows[r] # "waiting"
  /\ UNCHANGED <<rows, holder, progress, jobLock, consumers, pick, hour, counted>>

Check(s) ==
  /\ SGoto(s, "locked", "clear")
  /\ \A r \in Rows : ~Unsettled(r)
  /\ UNCHANGED <<rows, holder, progress, jobLock, consumers, pick, hour, counted>>

\* pairs without a completed_at come first, in the order of their ids; the order
\* of those that are due is left open
Candidates ==
  LET new == {p \in Pairs : progress[p].status = "none"} IN
  IF new # {} THEN {p \in new : \A q \in new : Id[p] <= Id[q]}
  ELSE {p \in Pairs : progress[p].status = "completed" /\ progress[p].due}

Choose(s) ==
  /\ SGoto(s, "clear", "chosen")
  /\ \E p \in Candidates : pick' = [pick EXCEPT ![s].pair = p]
  /\ UNCHANGED <<rows, holder, progress, jobLock, consumers, hour, counted>>

HourlyRow(s) == [kind |-> "hourly", pair |-> pick[s].pair, key |-> pick[s].hour]

\* INSERT ... ON CONFLICT (idempotency_key) DO NOTHING, and the commit
Insert(s) ==
  /\ SGoto(s, "chosen", "idle")
  /\ rows' = [rows EXCEPT ![HourlyRow(s)] = IF @ = "absent" THEN "waiting" ELSE @]
  /\ pick' = [pick EXCEPT ![s] = None]
  /\ UNCHANGED <<holder, progress, jobLock, consumers, hour, counted>>

-----------------------------------------------------------------------------
(* The API, and the clock.                                                 *)

\* enqueue_scrape, and each row of enqueue_county and enqueue_discovery, which
\* commit row by row
Request(r) ==
  /\ rows[r] = "absent"
  /\ rows' = [rows EXCEPT ![r] = "waiting"]
  /\ UNCHANGED <<holder, progress, jobLock, consumers, schedulers, hour, counted>>

NextHour ==
  /\ hour + 1 \in Hours
  /\ hour' = hour + 1
  /\ UNCHANGED <<rows, holder, progress, jobLock, consumers, schedulers, counted>>

\* completed_at becomes 24 hours old
ComeDue(p) ==
  /\ progress[p].status = "completed" /\ ~progress[p].due /\ jobLock[p] = None
  /\ progress' = [progress EXCEPT ![p].due = TRUE]
  /\ UNCHANGED <<rows, holder, jobLock, consumers, schedulers, hour, counted>>

-----------------------------------------------------------------------------

Consume(c) ==
  \/ \E r \in Rows : Take(c, r)
  \/ \E n \in 0..MaxPages : Reset(c, n)
  \/ FanOut(c) \/ Acknowledge(c) \/ Look(c) \/ Record(c) \/ CommitScrape(c)
  \/ Drop(c)

Schedule(s) ==
  Begin(s) \/ Quit(s) \/ Check(s) \/ Choose(s) \/ Insert(s)

Next ==
  \/ \E c \in Consumers : Consume(c)
  \/ \E s \in Schedulers : Schedule(s)
  \/ \E r \in Rows : GiveBack(r)
  \/ \E r \in Requested \cup Direct : Request(r)
  \/ \E p \in Pairs : ComeDue(p)
  \/ NextHour

Spec == Init /\ [][Next]_vars

-----------------------------------------------------------------------------
(* Properties.                                                             *)

Checkpoint == [status : {"none", "pending", "running", "completed"},
               total : Nat, scraped : Nat, due : BOOLEAN]

\* Every variable has its type, and a row carries a lease exactly while it is
\* processing (the CHECK of work_queue, and its converse).
TypeOK ==
  /\ rows \in [Rows -> States]
  /\ holder \in [Rows -> Consumers \cup {None}]
  /\ \A r \in Rows : rows[r] = "processing" <=> holder[r] # None
  /\ progress \in [Pairs -> Checkpoint]
  /\ jobLock \in [Pairs -> Consumers \cup {None}]
  /\ pc \in [Consumers -> {"idle", "working", "reset", "acknowledged", "looked",
                           "recorded"}]
  /\ job \in [Consumers -> Rows \cup {None}]
  /\ seen \in [Consumers -> Nat]
  /\ draft \in [Consumers -> Checkpoint]
  /\ spc \in [Schedulers -> {"idle", "locked", "clear", "chosen"}]
  /\ pick \in [Schedulers -> [hour : Hours, pair : Pairs \cup {None}] \cup {None}]
  /\ hour \in Hours
  /\ counted \in [Pairs -> SUBSET Scrapes]

\* scraped_records is the number of pages acknowledged since the discovery that
\* reset it: concurrent complete_scrape transactions of one pair lose no page
\* and count none twice.
CountsAddUp ==
  \A p \in Pairs : progress[p].scraped = Cardinality(counted[p])

\* The scheduler works off one pair at a time: of all the discoveries it ever
\* enqueued, in any hour and by any overlapping run, at most one is unsettled.
OneAtATime ==
  \A r, q \in Hourly : Unsettled(r) /\ Unsettled(q) => r = q

\* With the single general consumer of the deployment, a checkpoint says
\* completed only when no page found by a discovery of the pair is unsettled,
\* unless a later discovery of the pair found nothing at all and said so.
CompletedMeansSettled ==
  \A p \in Pairs : progress[p].status = "completed" /\ progress[p].total > 0 =>
    \A r \in Found : r.pair = p => ~Unsettled(r)

\* With the single general consumer, a checkpoint that still says pending or
\* running when nothing of the pair is left in the queue is the work of a page
\* that died: only then does the scheduler lose the pair for good.
StuckOnlyByDeath ==
  \A p \in Pairs :
    progress[p].status \in {"pending", "running"} =>
      \E r \in Scrapes : r.pair = p /\ (Unsettled(r) \/ rows[r] = "dead")

=============================================================================
