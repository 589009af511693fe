-------------------------- MODULE AcceptanceCanary --------------------------
(***************************************************************************)
(* consumer_canary.py: the release tool enqueues a canary row for one      *)
(* consumer, polls its state, judges it, verifies the object, and in any   *)
(* case cancels what is left and removes the object, while the consumers,  *)
(* their leases, kills and late PUTs go on underneath (ObjectStore).  The  *)
(* canary-only workers of the deployments are not restarted when they end. *)
(***************************************************************************)
EXTENDS ObjectStore

CONSTANT Canary    \* the row of the run that is watched

ASSUME CanaryAssumption ==
  Jobs = {Canary} /\ IsCanary(Canary) /\ MaxAttempts[Canary] = 1

VARIABLES
  tool,      \* what run_acceptance_canary does next
  success,   \* should_cleanup: the row was seen completed
  verdict,   \* how it ends: "passed", or an exception
  removed    \* remove_object returned

release == <<tool, success, verdict, removed>>

CanaryInit ==
  /\ StoreInit
  /\ tool = "start" /\ success = FALSE /\ verdict = "failed" /\ removed = FALSE

CanaryBody == [row |-> Canary, stamp |-> NoToken]

ToolGoto(from, to) == tool = from /\ tool' = to

Submit ==
  /\ ToolGoto("start", "polling")
  /\ Enqueue(Canary)
  /\ UNCHANGED <<locals, crashes, objects, success, verdict, removed>>

\* A slip the properties must catch: a terminal row is taken for a completed one.
SeeTerminal ==
  /\ ToolGoto("polling", IF queue[Canary].attempts = 1 THEN "verifying" ELSE "removing")
  /\ queue[Canary].state \in {"completed", "dead"}
  /\ success' = TRUE
  /\ UNCHANGED <<vars, objects, verdict, removed>>

\* get_queue_job_state finds a terminal row; only one attempt without a
\* dead-letter row is good enough to look at the object
SeeCompleted ==
  /\ ToolGoto("polling", IF queue[Canary].attempts = 1 /\ Canary \notin deadLetter
                           THEN "verifying" ELSE "removing")
  /\ queue[Canary].state = "completed"
  /\ success' = TRUE
  /\ UNCHANGED <<vars, objects, verdict, removed>>

\* A slip the properties must catch: the wait has no deadline.
GiveUpNever ==
  /\ ToolGoto("polling", "cancelling")
  /\ queue[Canary].state \in {"dead", "paused"}
  /\ UNCHANGED <<vars, objects, success, verdict, removed>>

\* the row is dead or paused, or time is up
GiveUp ==
  /\ ToolGoto("polling", "cancelling")
  /\ UNCHANGED <<vars, objects, success, verdict, removed>>

VerifyCanary ==
  /\ ToolGoto("verifying", "removing")
  /\ verdict' = IF stored[Object[Canary]] = CanaryBody THEN "passed" ELSE "failed"
  /\ UNCHANGED <<vars, objects, success, removed>>

\* A slip the properties must catch: a row being worked on is not cancelled.
CancelWaiting ==
  /\ ToolGoto("cancelling", "removing")
  /\ IF queue[Canary].state \in {"pending", "paused"}
       THEN Cancel(Canary)
       ELSE UNCHANGED tables
  /\ UNCHANGED <<locals, crashes, objects, success, verdict, removed>>

\* A slip the properties must catch: a locked row is skipped, not waited for.
CancelUnlessLocked ==
  /\ ToolGoto("cancelling", "removing")
  /\ \/ Cancel(Canary)
     \/ lock[Canary] # None /\ UNCHANGED tables
     \/ queue[Canary].state \in {"completed", "dead"} /\ UNCHANGED tables
  /\ UNCHANGED <<locals, crashes, objects, success, verdict, removed>>

\* the UPDATE of cancel_acceptance_canary waits for the row lock, then matches
\* the row or finds it terminal
CancelCanary ==
  /\ ToolGoto("cancelling", "removing")
  /\ lock[Canary] = None
  /\ \/ Cancel(Canary)
     \/ queue[Canary].state \in {"completed", "dead"} /\ UNCHANGED tables
  /\ UNCHANGED <<locals, crashes, objects, success, verdict, removed>>

RemoveCanary ==
  /\ ToolGoto("removing", "done")
  /\ stored' = [stored EXCEPT ![Object[Canary]] = None]
  /\ late' = late \ {Object[Canary]}
  /\ removed' = TRUE
  /\ UNCHANGED <<vars, io, flight, recorded, success, verdict>>

\* remove_object raises, the object removed or not; the exception replaces the
\* result only if the canary completed
RemoveError ==
  /\ ToolGoto("removing", "done")
  /\ stored' \in {stored, [stored EXCEPT ![Object[Canary]] = None]}
  /\ verdict' = IF success THEN "failed" ELSE verdict
  /\ UNCHANGED <<vars, io, flight, recorded, late, success, removed>>

Release ==
  \/ Submit \/ SeeCompleted \/ GiveUp \/ VerifyCanary \/ CancelCanary
  \/ RemoveCanary \/ RemoveError

\* the tool itself is killed
KillTool ==
  /\ tool \notin {"start", "done", "killed"} /\ tool' = "killed"
  /\ UNCHANGED <<vars, objects, success, verdict, removed>>

\* operators of the API, the clock, and whoever starts a canary-only worker
\* (other rows would only keep a worker busy, and the tool may find its time up
\* at any moment as it is)
Clients ==
  /\ \/ /\ \E j \in Jobs : Pause(j) \/ Resume(j) \/ Expire(j) \/ BecomeReady(j)
        /\ UNCHANGED <<locals, crashes>>
     \/ \E w \in Workers : Start(w)
  /\ UNCHANGED objects

CanaryNext ==
  \/ StoreStep /\ UNCHANGED release
  \/ Clients /\ UNCHANGED release
  \/ Release \/ KillTool

canaryVars == <<vars, objects, release>>

\* The tool keeps going unless it is killed, and each worker does as in QueueWorker.
CanarySpec ==
  /\ CanaryInit /\ [][CanaryNext]_canaryVars
  /\ WF_canaryVars(Release)
  /\ \A w \in Workers :
       /\ WF_canaryVars((Stat(w) \/ Put(w) \/ WorkerStep(w)) /\ UNCHANGED release)
       /\ SF_canaryVars(Bury(w) /\ WorkerStep(w) /\ UNCHANGED release)

-----------------------------------------------------------------------------
(* Properties.                                                             *)

Exited == tool = "done"

\* A release passes only when the consumer completed the canary in its first
\* attempt and nothing is left of it in the bucket.
PassedMeansDone ==
  Exited /\ verdict = "passed" =>
    queue[Canary].state = "completed" /\ queue[Canary].attempts = 1 /\ removed

\* Whatever the tool ran into (time up, row paused, dead or completed at the very
\* last moment), it leaves a row that is settled: neither the hourly scheduler nor
\* the next --require-empty-queue finds it in the queue.
SettledOnExit ==
  Exited => queue[Canary].state \in {"completed", "dead"}

\* A worker that was still inside its fence when the tool gave up cannot leave the
\* object behind: once removed it stays away, unless a PUT that no worker waits for
\* any more, of a call that raised or was killed or sent it again, is done later.
NoLitter ==
  Exited /\ removed => stored[Object[Canary]] = None \/ Object[Canary] \in late

\* The tool comes to an end, even if it has to wait for a worker's row lock.
ToolEnds == tool = "polling" ~> tool \in {"done", "killed"}

=============================================================================
