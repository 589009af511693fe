--------------------------- MODULE ReleaseCutover ---------------------------
(***************************************************************************)
(* deploy_shadowglass_v35.sh from install_production_units on, around the  *)
(* cutover tool: the script installs the release with the local triggers   *)
(* stopped, takes the legacy Worker out of service, starts the local       *)
(* consumer and timer, and on an error restores the provider first and the *)
(* local units after.  Deployments repeat; one may be killed, its tool     *)
(* with it; an operator runs the tool by hand while no deployment does.    *)
(* The staging gates before promotion are not part of this module.         *)
(***************************************************************************)
EXTENDS CloudflareCutover

CONSTANT MaxKills    \* bound: deployments or tool runs killed half way

ASSUME KillsAssumption == MaxKills \in Nat

VARIABLES
  deploy,     \* what the script does next; "idle" when none runs
  cfMutated,  \* CF_MUTATED
  promoted,   \* PROMOTED
  timer,      \* the local consumer and timer are active
  prior,      \* the snapshot's state of them
  kills

script == <<deploy, cfMutated, promoted, timer, prior>>
vars == <<cutover, script, kills>>

Init ==
  /\ CutoverInit
  /\ deploy = "idle" /\ cfMutated = FALSE /\ promoted = FALSE
  /\ timer = FALSE /\ prior = FALSE /\ kills = 0

ScriptSteps == {"idle", "install", "proofs", "backup", "disable", "activate",
                "receipts", "on_error", "restore", "rollback"}

\* A run of the tool by the script: the command starts, and its exit status is
\* read when it has ended.
Ended == at = "idle"
Proceed(from, to) == deploy = from /\ deploy' = to

-----------------------------------------------------------------------------

Begin ==
  /\ Proceed("idle", "install") /\ Ended /\ ~marker
  /\ prior' = timer
  /\ UNCHANGED <<cutover, cfMutated, promoted, timer, kills>>

\* install_production_units stops the timer and the consumer.
InstallUnits ==
  /\ Proceed("install", "proofs")
  /\ promoted' = TRUE /\ timer' = FALSE
  /\ UNCHANGED <<cutover, cfMutated, prior, kills>>

\* Smoke test, consumer canary and scheduler proof, which may be red; then
\* --skip-cloudflare ends here, and a cutover starts with the tool's backup.
Prove ==
  /\ deploy = "proofs"
  /\ \/ deploy' = "on_error" /\ UNCHANGED <<cutover, promoted>>
     \/ deploy' = "idle" /\ promoted' = FALSE /\ UNCHANGED cutover
     \/ deploy' = "backup" /\ Start("backup") /\ UNCHANGED promoted
  /\ UNCHANGED <<cfMutated, timer, prior, kills>>

BackedUp ==
  /\ deploy = "backup" /\ Ended
  /\ \/ result = "ok"
        /\ deploy' = "disable" /\ cfMutated' = TRUE /\ Start("disable")
     \/ result = "failed"
        /\ deploy' = "on_error" /\ UNCHANGED <<cutover, cfMutated>>
  /\ UNCHANGED <<promoted, timer, prior, kills>>

\* A slip the properties must catch: the script does not wait for the tool.
CutOverEarly ==
  /\ deploy = "disable"
  /\ deploy' = IF result = "failed" THEN "on_error" ELSE "activate"
  /\ cfMutated' = (result # "already")
  /\ UNCHANGED <<cutover, promoted, timer, prior, kills>>

\* A slip the properties must catch: a failed disable is taken to have undone itself.
CutOverTrusting ==
  /\ deploy = "disable" /\ Ended
  /\ deploy' = IF result = "failed" THEN "on_error" ELSE "activate"
  /\ cfMutated' = (result = "ok")
  /\ UNCHANGED <<cutover, promoted, timer, prior, kills>>

CutOver ==
  /\ deploy = "disable" /\ Ended
  /\ deploy' = IF result = "failed" THEN "on_error" ELSE "activate"
  /\ cfMutated' = (result # "already")
  /\ UNCHANGED <<cutover, promoted, timer, prior, kills>>

Activate ==
  /\ Proceed("activate", "receipts")
  /\ timer' = TRUE
  /\ UNCHANGED <<cutover, cfMutated, promoted, prior, kills>>

\* The units' is-active checks, the receipts and their copy into the database:
\* any of them may still fail.
WriteReceipts ==
  /\ deploy = "receipts"
  /\ \/ deploy' = "idle" /\ cfMutated' = FALSE /\ promoted' = FALSE
     \/ deploy' = "on_error" /\ UNCHANGED <<cfMutated, promoted>>
  /\ UNCHANGED <<cutover, timer, prior, kills>>

OnError ==
  /\ deploy = "on_error"
  /\ \/ cfMutated /\ deploy' = "restore" /\ Start("restore")
     \/ ~cfMutated /\ deploy' = "rollback" /\ UNCHANGED cutover
  /\ UNCHANGED <<cfMutated, promoted, timer, prior, kills>>

\* A restore, or the status call after it, that fails leaves the recovery
\* marker and exits; the local units stay as they are.
Restored ==
  /\ deploy = "restore" /\ Ended
  /\ \/ result = "ok" /\ deploy' = "rollback" /\ cfMutated' = FALSE
        /\ UNCHANGED <<cutover, promoted>>
     \/ /\ \/ result = "failed" /\ UNCHANGED faults
           \/ result = "ok" /\ Fault
        /\ deploy' = "idle" /\ cfMutated' = FALSE /\ promoted' = FALSE /\ marker' = TRUE
        /\ UNCHANGED <<provider, queueing, requests, files, control>>
  /\ UNCHANGED <<timer, prior, kills>>

RollbackLocal ==
  /\ Proceed("rollback", "idle")
  /\ timer' = prior /\ promoted' = FALSE
  /\ UNCHANGED <<cutover, cfMutated, prior, kills>>

-----------------------------------------------------------------------------

Scripted ==
  \/ Begin \/ InstallUnits \/ Prove \/ BackedUp \/ CutOver \/ Activate \/ WriteReceipts
  \/ OnError \/ Restored \/ RollbackLocal

\* The tool has no lock of its own: an operator is taken to use it only while
\* no deployment holds the release lock, to clear a marker or after a kill.
Recover ==
  /\ deploy = "idle" /\ (marker \/ kills > 0)
  /\ Start("restore")
  /\ UNCHANGED <<script, kills>>

Retry ==
  /\ deploy = "idle" /\ ~marker /\ kills > 0
  /\ Start("disable")
  /\ UNCHANGED <<script, kills>>

Kill ==
  /\ deploy # "idle" \/ ~Ended
  /\ kills < MaxKills /\ kills' = kills + 1
  /\ deploy' = "idle" /\ cfMutated' = FALSE /\ promoted' = FALSE
  /\ Finish("failed")
  /\ GiveUp
  /\ UNCHANGED <<provider, queueing, files, marker, faults, timer, prior>>

Next ==
  \/ (ToolStep \/ RequestFails \/ Provider) /\ UNCHANGED <<script, kills>>
  \/ Scripted \/ Recover \/ Retry \/ Kill

Spec == Init /\ [][Next]_vars

\* The tool's loops have deadlines and its requests time-outs, and the operator
\* follows the script's message that names the verified restore.
FairSpec ==
  /\ Spec
  /\ WF_vars(ToolStep /\ UNCHANGED <<script, kills>>)
  /\ WF_vars(Recover)

-----------------------------------------------------------------------------
(* Properties.                                                             *)

\* Every variable has its type, a restore runs for one of its three callers,
\* and the tool only runs for the step of the script that waits for it.
TypeOK ==
  /\ consumers \in Nat /\ target \in BOOLEAN
  /\ late \in [Changes -> Nat] /\ landed \subseteq Changes /\ faults \in 0 .. MaxFaults
  /\ content \in {"legacy", "quarantined"} /\ edge \in BOOLEAN
  /\ backlog \in 0 .. MaxBacklog /\ invoked \in BOOLEAN
  /\ backup \in FileStates /\ contentBackup \in FileStates /\ marker \in BOOLEAN
  /\ at \in Steps /\ then \in {"exit", "recheck", "raise", "quarantine"}
  /\ result \in {"none", "ok", "already", "failed"}
  /\ deploy \in ScriptSteps /\ kills \in 0 .. MaxKills
  /\ cfMutated \in BOOLEAN /\ promoted \in BOOLEAN
  /\ timer \in BOOLEAN /\ prior \in BOOLEAN
  /\ deploy \in {"install", "proofs", "activate", "receipts", "on_error", "rollback"}
       => at = "idle"

\* The Worker never runs the quarantine module, and never is without its
\* consumer or its edge before the first restore, unless both recovery backups
\* are complete on disk: wherever the tool or the script was killed, restore
\* can be run (_save_backup and _save_content_backup before the try block).
MutatedIsBackedUp ==
  content = "quarantined" \/ ~edge \/ consumers = 0 => Restoreable

\* While the Worker is quarantined and has no consumer, its queue is empty and
\* no legacy handler is about to enqueue: no message is left where nothing
\* reads it (_wait_for_stable_empty between closing the producers and DELETE).
\* Only the upload of the quarantine module or the DELETE of the consumer that
\* timed out and took effect later, since the last cutover began, can make it
\* otherwise.
DetachedIsDrained ==
  content = "quarantined" /\ consumers = 0 =>
    \/ backlog = 0 /\ ~invoked
    \/ landed \cap {"quarantine", "detach"} # {}

\* The public edge is only opened over the legacy module with a consumer
\* attached to its queue (the order of restore), unless a request that timed out
\* takes effect later: the upload of the quarantine module or the DELETE of the
\* consumer, since the last cutover began, or the opening itself.
EdgeOpensLast ==
  [][~edge /\ edge' => \/ content = "legacy" /\ consumers > 0
                      \/ landed' \cap {"quarantine", "detach", "open"} # {}]_vars

\* A deployment that was not killed leaves the legacy Worker as it found it or
\* wholly out of service, or else the recovery marker that blocks the next;
\* unless a request it gave up on has taken effect behind its back, since the last
\* cutover began: then nothing tells the operator.
MarkerOrSettled ==
  deploy = "idle" /\ at = "idle" /\ kills = 0 /\ landed = {} =>
    \/ marker
    \/ consumers = 1 /\ content = "legacy" /\ edge
    \/ consumers = 0 /\ content = "quarantined" /\ ~edge

\* A recovery marker is eventually cleared: the verified restore converges once
\* the provider's requests stop failing, whatever was left half done, unless a
\* late creation has left two consumers, which restore refuses to touch.
RecoveryEnds == marker ~> (~marker \/ consumers > 1)

=============================================================================
