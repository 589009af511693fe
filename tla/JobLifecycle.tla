---------------------------- MODULE JobLifecycle ----------------------------
(***************************************************************************)
(* What the queue promises for each work_queue row, whatever sessions do   *)
(* to it: a row runs at most MaxAttempts times, only a row with attempts   *)
(* left ever waits to run, an expired lease is the only one taken back     *)
(* without its owner, and completed and dead are final.  The rows are      *)
(* independent: one step may move any number of them.                      *)
(***************************************************************************)
EXTENDS Integers

CONSTANTS Jobs, MaxAttempts, Cancellable

VARIABLE job    \* [state, attempts, lease] of each row

Init == job = [j \in Jobs |-> [state |-> "absent", attempts |-> 0, lease |-> "none"]]

\* row r goes to state s without a lease, its attempts kept
Rest(r, s) == [state |-> s, attempts |-> r.attempts, lease |-> "none"]

Running(a, lease) == [state |-> "processing", attempts |-> a, lease |-> lease]

Submit(r, s) == r.state = "absent" /\ s = Rest(r, "pending")

Lease(j, r, s) ==
  /\ r.state = "pending" /\ r.attempts < MaxAttempts[j]
  /\ s = Running(r.attempts + 1, "live")

\* the deadline of a running attempt passes, or its owner moves it
Renew(r, s) ==
  r.state = "processing" /\ \E l \in {"live", "expired"} : s = Running(r.attempts, l)

Yield(j, r, s) ==
  r.state = "processing" /\ r.attempts < MaxAttempts[j] /\ s = Rest(r, "pending")

Finish(r, s) ==
  r.state = "processing" /\ \E end \in {"completed", "dead"} : s = Rest(r, end)

Hold(r, s) ==
  \/ r.state = "pending" /\ s = Rest(r, "paused")
  \/ r.state = "paused" /\ s = Rest(r, "pending")

Withdraw(j, r, s) ==
  j \in Cancellable /\ r.state \in {"pending", "paused"} /\ s = Rest(r, "dead")

Move(j, r, s) ==
  \/ Submit(r, s) \/ Lease(j, r, s) \/ Renew(r, s) \/ Yield(j, r, s)
  \/ Finish(r, s) \/ Hold(r, s) \/ Withdraw(j, r, s)

Next ==
  /\ job' = [j \in Jobs |-> job'[j]]
  /\ \A j \in Jobs : job'[j] = job[j] \/ Move(j, job[j], job'[j])

Spec == Init /\ [][Next]_job

=============================================================================
