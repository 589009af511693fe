# ShadowGlass v35 runtime: a TLA+ verification project

ShadowGlass v35 scrapes county records. Discoveries and page scrapes are rows of a
PostgreSQL queue; consumer processes lease them, store each page as an immutable object in
MinIO and acknowledge the row together with the extracted records; an hourly scheduler
feeds the queue. A release is staged, rehearsed, provisioned, accepted by a canary and
finalised; rescued data is imported on the way, and a cutover tool takes the legacy
Cloudflare Worker out of service. The modules here model these parts statement by
statement (SQL), request by request (provider API) or command by command (scripts), TLC
checks them on small instances, and TLAPS proves every safety property of the passing runs
for every value of the constants.

`PROJECT.json` maps each definition to the lines it models and lists the runs, mutants,
findings, hazards and theorems. Paths below are relative to the repository.

## Inventory

| part | state | operations | what is hard |
|---|---|---|---|
| durable queue, `storage.py`, `schema.sql` | `work_queue`, `work_queue_dead_letter` | enqueue, claim, extend, complete, fail, dead-letter, recover, cancel, write fence | statements with snapshots and clocks of their own, row locks, expired leases that still match a token, deadlocks |
| consumer, `queue_worker.py`, systemd unit | the claimed job of each process | claim, validate, heartbeat, fence, ACK, fail | kills between statements, lost leases, exceptions inside exception handlers |
| checkpoint, `complete_discovery`, `complete_scrape` | `scrape_jobs` | reset and fan-out, count and status | write skew, read-then-upsert, overlapping discoveries |
| scheduler, `scheduled_job.py` | advisory lock | pick and enqueue the next pair | overlap with itself, with the API, with the queue |
| API, `app.py`, `service.py` | none of its own (limiter in memory) | enqueue, pause, resume, reads | partial failure, retries by clients |
| object store, `object_store.py` | the bucket | check, put, verify, remove | a PUT outlives its sender's wait and its lock |
| release canary, `consumer_canary.py` | what it has seen so far | submit, poll, judge, cancel, remove | its time-out races the consumer |
| cutover tool, `cloudflare_reconcile.py`, `legacy_quarantine.js` | two backups and a marker on disk; consumer, module and edge at the provider | backup, disable, restore | lost answers, changes that land late, half-done cutovers, messages in flight |
| deployment, `deploy_shadowglass_v35.sh` | release link, units, receipts, flags of `on_error` | stage, rehearse, promote, cut over, roll back | failure after every step, failures ignored while rolling back, kills, repeated attempts |
| finalisation, `finalize_*` | registry row | check receipts and host, prove the data again, write registry | order of gates across attempts |
| importers and seeds, `import_d1.py`, `import_kv.py`, `seed_instrument_types.py`, `apply_endpoint_overrides.py` | imported tables, sequences, `migration_receipts` | import, or prove again what was imported | re-run after a kill, growth by the live service, several releases |
| provisioning, `provision_credentials.py` | databases, bucket users, credential files | create, stage, clean up | failure or kill between three stores, one of which is asked without being believed |
| scraper, `scraper.py`; relay, `relay.py` | a session | page through a site; one bounded call | paging arithmetic; bounded retries |

How they meet: every process talks to the queue tables only; the consumer calls the
scraper between two statements and the object store inside a lease fence; the scheduler
reads the checkpoint the consumer writes; the canary is a row like any other, addressed to
one worker; the deployment runs provisioning, importers, canary, scheduler and the cutover
tool in turn, while the release installed before goes on serving; finalisation reads what
the deployment left in the database and runs the importers once more.

Correctness, in one line each: a live lease belongs to one worker, and an expired one is
taken back without losing or duplicating its effect; every row settles; a checkpoint says
what the queue says; an object is written once; a canary's verdict is earned and leaves
nothing behind; the legacy Worker is never changed without a way back, never loses a
message, and is either in service or wholly out of it; a red attempt leaves the host as it
found it where its rollback could, and what stands was rehearsed; what staging leaves is
reported; an import is whole or absent and never taken over
by the service's ids; the registry row is written on one attempt's receipts.

## Modules

| module | models |
|---|---|
| `JobLifecycle` | abstract: what the queue promises for each row |
| `WorkQueue` | the two tables: row versions, row locks, SQL `WHERE` and `SET` clauses, commit, rollback, clock; the one-statement operations of other processes |
| `QueueWorker` (extends `WorkQueue`) | `queue_worker.py` over `storage.py`, one action per statement; kills, restarts, deadlocks; refines `JobLifecycle` |
| `ObjectStore` (extends `QueueWorker`) | `_put_immutable` inside the fence, the bucket, late PUTs |
| `AcceptanceCanary` (extends `ObjectStore`) | `run_acceptance_canary` against all of the above |
| `ScrapeProgress` | discoveries, pages, checkpoint, scheduler, API requests |
| `CloudflareCutover` | the cutover tool and the provider |
| `ReleaseCutover` (extends `CloudflareCutover`) | the deployment script around it, kills and the operator |
| `StagingResources` | `provision_credentials.py` in its staging modes: a release's database, bucket and identity, and the one credential directory |
| `ReleaseGates` (extends `StagingResources`) | all modes of the deployment script over several attempts and releases, its receipts, `on_error`, rollback, and finalisation |
| `RowImport` | the data steps: D1 tables, taxonomy, endpoints and KV namespace, run again and again beside the live service |
| `MC*` | rows, kinds, targets, limits and symmetries for TLC; the cutover needs numbers only |
| `QueueWorkerProofs`, `ObjectStoreProofs`, `AcceptanceCanaryProofs`, `ScrapeProgressProofs`, `ReleaseCutoverProofs`, `ReleaseGatesProofs`, `RowImportProofs` | theorems about the module each is named after |

**Queue and workers.** `queue[j]` is the committed row (`state`, `attempts`, `token`,
`lease`, `ready`); `draft[j]` the version written by the session holding `lock[j]`;
`letters[w]` the dead-letter rows session `w` has inserted and not committed. A lease is
`live` until the clock passes its deadline, then `expired`; a row is `ready` once
`available_at` has passed. So no bound on time is needed: every speed of the clock is
one behaviour. Each `pc` value is the point between two statements.
`recover_stale_leases` is `RecoverLetters` (INSERT), `ScanDead` and `BuryStale` (UPDATE,
row by row, waiting for locks and evaluating the WHERE clause again), `ScanRetryable`
and `RequeueStale`, and `CommitRecovery`. `claim_job` is `Claim`/`ClaimNothing`,
`extend_lease` is `Heartbeat`, `lease_write_fence` is `Fence`/`FenceRejected` until
`PutObject`/`PutError`, the ACKs are `Complete`/`CompleteLate`/`CanaryLate`, `fail_job`
is `LockFailed`/`FailLost` and `Retry`/`Bury`, `dead_letter_job` is
`Reject`/`RejectRow`. `FailLost` ends the process, as the LookupError does. `Restart` is
systemd's, of the general consumer; a worker in `Isolated` runs under
`shadowglass-v35-consumer-proof.service` (`Restart=no`) or `systemd-run`, stays down
when it ends, and may be started by a later deployment (`Start`). `BuriedWithLetter`
tells the ends of a row apart by who makes them: a worker's `fail_job` or
`dead_letter_job` needs the letter whatever the row or its lease, the commit of
`recover_stale_leases` (`RecoveryCommits`) and the tool's cancellation do not.
Priorities only order candidates and are left out: any candidate may be claimed. A
statement that writes a version is not overtaken by that version's own expiry before
COMMIT (leases are at least 30 s long).

**Objects.** `stored` is the bucket, `io` how far `_put_immutable` is, `flight` the PUTs
nobody waits for any more. There are three ways into it: `put_object` times out or loses
its connection and raises, the worker goes on to `fail_job` and releases the fence; the
worker is killed; or the MinIO client has sent the same PUT before the one that was
answered. Each may be lost or done later (`Unanswered`, `Arrive`). A body is identified
by its row and, for pages, by the lease token: `page_document` puts the time of
rendering into every document, so that two attempts never render the same bytes. Each
row writes one object here; ranges of pages repeat the same fence for each page.
`recorded` is the digest `complete_scrape` logs with each page (`object_sha256`); a
discovery and a canary record none, nor does a scrape that yielded no page.

**Canary.** The tool's steps interleave with the workers'. `GiveUp` may happen at any
poll: the time-out needs no clock. `removed` and `late` tell an object left behind by the
tool from one that arrives with a late PUT. The canary is addressed to a canary-only worker,
which nothing restarts.

**Checkpoint and scheduler.** Leases are reduced to `holder`: a row is held until it is
taken back, and a consumer that lost it finds out at its ACK. `complete_discovery` is
`Reset` (the upsert, first) and `FanOut` (pages, ACK, commit); `complete_scrape` is
`Acknowledge`, `Look` (`has_remaining`), `Record` (upsert under the checkpoint's lock with
the status looked up before) and `CommitScrape`. Records per page are 1, so that
`scraped_records` counts pages. `due` stands for a `completed_at` older than 24 hours.

**Cutover.** One provider request per action; the answer may be lost (the mutation took
effect and the tool sees a failure), the request may fail for good, or the tool gives up on
it after 30 s and it takes effect later. That holds for every change, the module PUTs, the
subdomain's DELETE and POST, the consumer's DELETE and POST: `late` counts those that may
still land (`LandModule`, `LandEdge`, `LandAttach`, `LandDetach`), at any time, also after
the deployment has ended. A DELETE names the consumer whose id `disable` read (`target`), so
that it cannot hit a consumer created afterwards. `landed` remembers the kinds that did
since the last cutover began; the properties exempt the kinds that break them and no other.
What then happens is real: a quarantine PUT that times out, a `restore` that reads the
legacy module and returns, and the PUT landing afterwards leave the Worker quarantined with
consumer and edge on, without a marker. Identity checks that only refuse to continue on drift are
abstracted to "nothing drifts". Backups are `none`, `partial` or `good`: files are created
with `O_EXCL` before they are written. `then` is the caller of a restore or a save.
`ReleaseCutover` adds the script's flags `CF_MUTATED` and `PROMOTED`, the local units, the
recovery marker and an operator.

**Deployment and finalisation.** `pc` of `ReleaseGates` is the script's next command; one
action is one command or a run of commands that nobody else can see between. `production`
is what `snapshot_production` records (link, unit files, active units) with the attempt
that installed it. `receipts[r][g]` is the attempt that last filed gate `g` of release `r`
on disk, `events` the copy in the database; times of receipts are the attempt and, within
it, the rank of the gate. `Red` is any command under the ERR trap that fails, its handling
is `RestoreProvider`, `StopUnits`, `RestoreUnits`, `Judge`, and `Exit` is the EXIT trap.
Bash's details are in these actions. `rollback_local` runs with errexit off: `RestoreUnits`
puts back the unit files, then the link, then the states, and at each of the three the
commands may fail and leave a part (`HalfPutBack`: mixed files, the candidate's link, some
units not started), whereupon the script goes on; `ignored` remembers the attempts this
happened to. Only a rehearsal's verdict tells (`verify_production_snapshot`); any other red
attempt ends the same with or without it. Errors are ignored in the EXIT trap too; the red
path of a rehearsal is its green end. A killed attempt leaves units, staging and receipts as
they are, and its staging unit keeps its database connections, so that the next cleanup may
fail (`Clear`). An attempt may also fail before its first cleanup, in `prepare_release`, the
first receipt or `create_staging_user` (`Red` at `"clear"`), and then leaves what an earlier
one left. The cutover is one step here and each request in
`ReleaseCutover`. `Finalize` is one step, since the release lock is held and nothing but
its own attestation is written before its last transaction.

**Staging.** `staged[r]` is what exists under the names of release `r`; the directory of
credentials is the same for all releases, so that the cleanup of one release removes it and
not the rest of another's. `_staging_cleanup` checks its database commands, but runs the
removals at MinIO unchecked and takes a probe that fails for absence: `CleanedBlind` is a
MinIO that does not answer, `NotCleaned` a probe or a database command that raises.
`reported` remembers the releases an attempt of which ended with "staging resource cleanup
requires attention", `overlooked` those killed or cleaned blindly since a cleanup of them
converged. `StagingRemoved` says that whatever is left is in one of the two. What it does
not say, because the code does not do it: a report may be the only trace, since a later
attempt of the release may fail before its cleanup, and another release's cleanup removes
the directory.

**Data steps.** A run of `RowImport` goes through `Provisioning` (in `provision_data`) or
`Recheck` (the compatibility check and the finalisation). Per store: `Preserve` proves what
is there, `BeginImport`, `InsertBatch`, `SetVal`, `CommitImport` are the one transaction,
whose `setval` outlives a rollback; `Refuse` is every `raise` on the state met. `r2_uploads`
stands for `scrape_jobs` and `scrape_logs` too: like it they are empty in the rescue and
written by the service only. Rows are their ids; `changed` tells the rescued deeds that
`complete_scrape` rewrote. The interesting neighbour is `SavePage`, the live service.

## Runs

| run | instance | shows |
|---|---|---|
| `queue_safety` | 2 workers, 2 page rows under one object key (limits 2 and 1), 1 kill; 559k states | types and attempt limits, no stranded row, fences exclude, leases respected, letters with burials, refinement of `JobLifecycle` |
| `queue_live` | a general and a canary-only worker, a discovery (limit 2) and a canary, 1 kill, fairness; 158k states | every row settles that runs or has a worker kept running |
| `store` | as `queue_safety` with the bucket, 1 PUT on its way that nobody waits for; 5.7M states | objects written once, recorded digest is the stored one |
| `canary` | a general and a canary-only worker, the canary, 1 kill, 1 late PUT, the tool may be killed; 31k states | verdict earned, row settled, object gone, tool ends |
| `progress` | 1 pair, 1 consumer, 2 schedulers, an API discovery, a direct scrape, up to 2 pages; 210k states | completed and stuck checkpoints mean what they say |
| `progress_shared` | 2 consumers, 2 schedulers, 2 hours, up to 2 pages; 61k states | no page lost or counted twice, one hourly discovery at a time |
| `cutover` | backlog up to 2, 2 requests that fail or land late, 1 kill, fairness; 1.9M states | backed up before mutated, drained before detached, edge last, settled or marked, recovery ends |
| `gates` | 2 releases (symmetric), 5 attempts, 1 kill, 1 failing command of a rollback or cleanup; 10.9M states | red is undone unless a failure was ignored, what stands was rehearsed, staging removed or reported, registry row from one attempt |
| `import` | 2 rescued deeds, 1 county, 1 key, 2 taxonomy entries, 2 manifests (symmetric), 5 runs, ids up to 4; 132k states | imports whole or absent, ids free, refusals with a cause, green runs prove everything |
| `dead_letter_gap`, `store_retry`, `dual_producers` | smallest instances that show them | the findings below |

Why the bounds are enough for the cases meant: every race modelled is between two
sessions, or a session and a clock, so two workers have all of them; two rows are the
least with a shared object key; limits 1 and 2 have a first, a retried and a last
attempt; one kill leaves every prefix of a transaction, and its recovery is run by the
other worker or the restarted one; one PUT that nobody waits for, of either worker and
at any time, is enough to replace or bring back an object, and another may follow once
it has been done; two pages are the least where one is last; two hours the least where a
discovery outlives its hour. Two requests that fail are a change that lands late and a
failure in `disable`'s own restore or `on_error`'s, and by `cutover`'s kill the recovery
starts from any point between; the theorems about the cutover hold for any number. In
`gates` one fault is one command that fails while an attempt cleans up or rolls back, or
all of one rollback: whatever made one fail may make the others. Five attempts are two
rehearsals, a full deployment and two more that disturb it, of the same release or of
another; finalisation, which needs three of one release, is met on the way. Five runs of
the data steps import, prove again, change the manifest, change it back and leave one to
be killed; two rescued deeds are the least of which one can be inserted without the
other, and two ids beyond them are what the service may draw. `gates`, `import` and
`dual_producers` switch deadlock checking off, since their systems stop when the bounds
on attempts or runs are used up, or when a recovery marker waits for an operator; all
other runs check it.

**Fairness.** `queue_live` assumes that each process takes its next step when it can and
that systemd restarts the general consumer when it ended (`Restart=always`), that clocks
advance, and that an INSERT waiting for another session's letter gets through when that
session ends (strong fairness of `Bury`: a restarted process needs `RestartSec` to come
back and insert again). Nothing is assumed of clients, errors, kills or cancellations,
nor of a canary-only worker that has ended (`Restart=no`): it may stay down for good.
Accordingly `JobsSettle` claims nothing of a canary that waits for such a worker (the
tool's time-out cancels it, which is `canary`'s `ToolEnds`), but does of one that runs
when its worker ends, which a general consumer recovers. It allows a paused row: only a
client can resume it. `canary` assumes the same of the workers and that the tool goes
on. `cutover` assumes that the tool ends (its loops have deadlines, its requests
time-outs), that provider faults stop (their bound), and that an operator runs the
verified restore the marker's message asks for.

**Assumptions.** The deployment runs one general consumer: `CompletedMeansSettled` and
`StuckOnlyByDeath` are claimed of that (two consumers can each see the other's last page as
remaining). `SavePage` starts once a release has been installed on provisioned data. The
database answers: a process that loses its connection is a killed process, and so is a
canary tool whose cancellation raises. PostgreSQL breaks cycles of two sessions. The cutover
tool's quiet window (15 minutes) outlasts any legacy handler that had started. The tool
takes no lock: an operator is taken to use it only while no deployment runs. A unit that is
told to stop stops (systemd kills it in the end); which release's code a running process
executes is not tracked, only the link and the unit files. `ReleaseCutover` has the rollback
of the local units in one step that succeeds: its properties are about the provider, and
`ReleaseGates` has the failing one.

## Findings

- `dead_letter_gap`: `recover_stale_leases` reads the clock once per statement; a lease
  that expires between the INSERT and the UPDATE leaves a dead row without its letter.
- `store_retry`: an attempt after a stored page renders another timestamp and meets its
  own object as divergent content; so does every later scrape of the page.
- `dual_producers`: redeploying over a system that is cut over sets `CF_MUTATED` before
  `disable` has said that nothing needs mutating. When `disable` fails there, `on_error`
  restores the legacy Worker and then the snapshot, in which the local consumer and timer
  are active: both schedulers produce, and no marker is left.

Behaviour the models have that no run claims otherwise, listed under hazards:

- a second scheduler run in an hour, after the first discovery is worked off, enqueues
  another pair under another key of the same hour, although the docstring of `run_hourly`
  says at most one (`ScrapeProgress`);
- a consumer creation is never replayed within one `restore`, but `on_error` runs a second
  `restore` after `disable`'s own has given up (`CloudflareCutover`);
- a rescued deed rewritten by a live page, or the endpoints of another release applied
  since, make every later provisioning or finalisation of the release refuse; README calls
  provisioning "deliberately monotonic and idempotent". `RefusedForCause` states that
  these are the only causes;
- an attempt that goes red after its last sync has copied the closing receipts is rolled
  back, but its events stay; if an earlier attempt had installed the same release with the
  triggers on, finalisation accepts that installation on the later attempt's receipts
  (`production.by` before `last` in `FinalizedByOneAttempt`: the bytes are the same);
- README says that staging resources are "all removed on exit": an unreachable MinIO keeps
  bucket and identity while the attempt ends green, and an attempt that fails before its
  first cleanup keeps what an earlier one left. `StagingRemoved` states what is true instead;
- README says that a red production path "restores the prior `current` target, exact unit
  files, and prior enabled/active states": a `cp`, `rm`, `atomic_link` or start that fails in
  `rollback_local` is ignored, and nothing but a rehearsal's verdict tells. `RedIsUndone` and
  `StandingIsRehearsed` exempt those attempts (`ignored`) and no other, and so does
  `FinalizedByOneAttempt` of what such an attempt left installed;
- a change of the provider that takes effect after the tool gave up on it, see **Cutover**;
- a letter of a row that was requeued meanwhile, the API enqueuing between the scheduler's
  busy query and its insert, and the write skew of two consumers on the last two pages.

## Proofs

All 34 theorems are `Spec => [](...)`, `Spec => [][...]_vars` or a refinement, for
every value of the constants that satisfies the named assumptions of the modules:

- `MaxAttemptsAssumption`, `JobAssumption`: attempt limits are positive, canaries have one
  round; `NoneAssumption`, `NoneIsNoRow`, `NoneIsNoBody`: `None` is no worker, no row, no
  row version and no body; `CanaryAssumption`: the canary is watched alone, with its limit
  of one attempt;
- `ScopeAssumption`: hours, pages and ids are naturals. `CompletedSettled` and
  `StuckByDeath` assume `Single` besides, one general consumer, which is what is deployed;
- `CutoverAssumption`, `KillsAssumption`, `GatesAssumption`, `MaxLateAssumption`: the bounds
  are naturals, and no release is called `None` or `mixed`;
- `ImportAssumption`: the taxonomy fits the ids, and the rescue has no instrument types, as
  `seed_instrument_types.py` presupposes.

The bounds of the runs on attempts, kills and faults are constants like the others, so the
theorems hold for all of them.

`QueueWorkerProofs`. No property of the queue is inductive by itself. The inductive
invariant `IInv` joins the type invariant with: where each process is determines what it
holds (a row and a fresh token from the claim on, nothing while idle or down); a row is locked by
`w` only at the points where `w` has an open transaction that touched it; each draft is the
row `w` means to write at that point (so that a commit writes what was decided under the
lock); a process that wrote or fenced its row still owns the committed version, because no
one else can write a locked row; tokens are never reused, so that owning by token is owning
by process; a pending or paused row, or a draft of one, has an attempt left; and a burial by
`fail_job` or `dead_letter_job` has its letter in the same transaction, stale lease or not.
From it follow `TypeCorrect`,
`RowsClaimable`, `FenceExcludes`, `LeasesRespected`, `LettersWritten` and
`LifecycleRefined`: each step moves each row by a move of `JobLifecycle` or not at all, an
argument that needs the invariant for COMMIT, which publishes drafts written several steps
earlier.

`ObjectStoreProofs`. Each step of the bucket is a step of the queue or leaves the queue
alone (`QueueUnderStore`), so that the invariant of the queue is there to be used. The
bucket needs three more facts, all about what stays true between two remote calls.
`AbsentStill`: what a worker found absent is absent when it sends its PUT, since the
advisory lock keeps every other fence off the key. `PageStored`: from the first verified
page to the ACK the bucket has the page under this worker's token; no other worker can
replace it, by `AbsentStill` of theirs (`OnlyLatePutsReplace`, which is `WrittenOnce`).
`AckCounted`: the ACK is sent when no remote step is left. A digest is recorded by COMMIT,
two steps after the last write; `AckCompletes` shows from the drafts of the queue that the
row completed there is the one this worker acknowledged, and `PageStored` that its page is
in the bucket: `DigestsStored`. In every clause a PUT that nobody waits for any more is the
exception, and the only one; `StoreTypeCorrect` and the others hold for any `MaxLate`.

`AcceptanceCanaryProofs`. Again every step is a step of the queue, and all but the removal
one of the bucket. `SettledStays`: a completed or dead row is never written again, whatever
transactions are open on it, because a draft is only ever made of a pending or processing
row and its lock is held until COMMIT. Hence what the tool saw (`RowSeen`) stays so while it
verifies and removes, which gives `VerdictEarned`, and what it settled stays settled
(`RowLeftSettled`). `ObjectStaysAway` follows from the fence: a worker inside it owns a
processing row, so once the row is settled nobody can still send a PUT; what comes after is
one that was sent before, and `late` has its key.

`ScrapeProgressProofs`. `TypeCorrect` carries the equivalence of lease and processing.
`SchedulerOneAtATime` needs that at most one scheduler is past its try-lock and that a
scheduler past the busy query saw no unsettled hourly row, which stays true because only
the lock holder inserts hourly rows and no settled row becomes unsettled. `NoPageLost`
needs that a recorded draft is the committed count plus one, that the checkpoint's lock is
held from the upsert to the commit, and that a page being acknowledged is not yet in
`counted`. With a single consumer (`Single`) two more facts hold and make the status of the
checkpoint provable. `PagesLast`: a search has pages only once it is completed, so a reset
finds none of its own and waits for all of them. `LookedAt`: what `has_remaining` answered
is true until the commit of the status derived from it, because nobody else can settle a
page meanwhile and no page of a looked-at pair starts to wait. With two consumers
`LookedAt` fails (the write skew above).

`ReleaseCutoverProofs`. The properties speak of the provider; the inductive invariant
ties it to where the tool and the script are. `BackupsKept`: how far the two files are
at each step before the first mutation, and that both are complete from there on.
`ConsumerKept`: the tool detaches only from a silenced Worker with an empty queue, and
opens the edge only over the legacy module with a consumer. `ScriptControl`: which steps
of the tool each step of the script waits for and where each restore returns to, so that
a `restore` inside `disable` is not taken for the one of `on_error`. `Sides`: on which
side the Worker is wherever the script passes or may stop; in service or wholly out of
it, or `CF_MUTATED` tells `on_error` to restore. It is claimed while nothing given up on
has landed (`landed = {}`), as in `MarkerOrSettled`; the clauses of `ConsumerKept`
exempt the kinds of late change that break them, one by one. `TargetHeld`: the consumer
whose id was read is attached, so that a late DELETE never takes the last one twice.

`RowImportProofs`. The properties of `RowImport` join the inductive invariant with three
more facts. `PassedHolds`: what the steps before `at` have proved still holds, namely the
store has its receipt and the run's number in `proved`, although the service goes on
writing (it only adds rows and never touches `counties` or `active`). `OpenImport`: while
a transaction is open its store has no receipt and no rows, `written` is a part of the
rescued ids, and after `setval` the sequence is past them (a rollback leaves it there, and
no row). `Settled`: the service runs only once every store is imported, so that a table
without a receipt is empty whenever it is imported, and the taxonomy is whole or absent.
From these, `ImportedWhole`, `SequencesAhead`, `RefusalsHaveCause` and `GreenRunsProve`:
a run can be refused at a store only if `Kept` fails there, which leaves rewritten deeds;
at the taxonomy never; at the endpoints only by a receipt whose manifest is not active.

`ReleaseGatesProofs`. The properties of `ReleaseGates` speak of the end of an attempt;
the inductive invariant says what leads there. `Control`: where the attempt is
determines its flags (`promoted` from the first unit copied until the rollback is
verified, `mutated` only after a promotion and never while units are restored), and no
receipt is later than the running attempt. `Standing`: the current release and the one
in the snapshot were rehearsed, except the release that a rehearsal has itself installed
and is about to undo, and one that a failing rollback left; it stays true because
receipts are only ever overwritten by later ones. `RollingHolds`: what is installed is
the snapshot's or this attempt's own, and after each step of the rollback its part is
the snapshot's or the attempt is among the `ignored`. `Undone`: hence production is the
snapshot before the promotion and after a rollback that ignored nothing. `StagingHolds`:
what is left under a release's name was reported or overlooked before, or the running
attempt left it and the directory is there, which its EXIT trap will report. The lemmas
`Cleaning`, `NotCleaning`, `Halves` and `PuttingBack` say what a cleanup and a step of
the rollback may leave. `ChainHolds`: the closing receipts of an attempt are no later
than the copies of everything it proved, because it goes past the last sync before the
cutover only when all of them are copied with its own number. `TriggersHold`: an
installation with active triggers is no later than the copied staging receipt of its
release, unless a rollback started them on a link it could not put back. `OneAttempt`
follows: the SQL of the finalisation demands that the copies be ordered, `ChainHolds`
bounds the last by the first, so all are equal; and `TriggersHold` bounds the
installation by them.

Only model-checked: liveness (`JobsSettle`, `ToolEnds`, `RecoveryEnds`), which is out of
the prover's reach. The three findings are counterexamples and need no proof. No module
uses recursion.

## Not modelled, and why

- The API's read endpoints are one SELECT each; authentication, body limits and request
  normalisation (`core.py`) keep no state. The rate limiter is a dictionary under one lock
  in one process: its calls are atomic and no other part sees it.
- Paging over Tyler and PublicSearch (`scraper.py`) and the relay client (`relay.py`) are
  sequential code over remote answers; their failures and delays are the remote steps of
  `QueueWorker`, what they return is data.
- The production mode of `provision_credentials.py` reads or creates files and sets roles
  and policies from them; it rotates nothing, and running it again changes nothing.
- `prepare_release` builds into a directory of its own; it can only fail. The verification
  scripts (`smoke_live.py`, `verify_endpoints.py`, `verify_recovered_contract.py`) are
  read-only; their verdict is a choice between a step and `Red`.
- Identity checks that only refuse to go on (digests of the release tree, settings and
  multipart digests at the provider, the audit script) are abstracted to "nothing drifts".
- An hourly run that changes the state of its unit between snapshot and verification can
  make a rehearsal red without cause: `Judge` allows it as a red end and nothing more.
- Pins, packaging and the evidence files are static data.
