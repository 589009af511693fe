---------------------------- MODULE ReleaseGates ----------------------------
(***************************************************************************)
(* The attempts of deploy_shadowglass_v35.sh, in all its modes and for     *)
(* several releases, and finalize_shadowglass_v35.sh after them.  An       *)
(* attempt snapshots production, stages the release, asks for the gate     *)
(* receipts of earlier attempts, installs, proves and cuts over; any       *)
(* command may fail, and an attempt may be killed.  The receipts on disk   *)
(* and their copies in the database outlive the attempts.  The cutover     *)
(* tool is one step here: ReleaseCutover has its detail.  A unit that is   *)
(* told to stop stops: systemd kills it when it does not.                  *)
(***************************************************************************)
EXTENDS StagingResources, FiniteSets

CONSTANTS
  None,         \* no release
  MaxAttempts,  \* bound: attempts
  MaxKills,     \* bound: attempts killed half way
  MaxFaults     \* bound: commands that fail while an attempt undoes itself

ASSUME GatesAssumption ==
  /\ None \notin Releases /\ "mixed" \notin Releases
  /\ {MaxAttempts, MaxKills, MaxFaults} \subseteq Nat

VARIABLES
  pc,          \* the script's next command; "idle" when none runs
  mode,        \* MODE
  skip,        \* SKIP_CLOUDFLARE
  rel,         \* RELEASE_ID
  attempt,     \* the number of the attempt, for DEPLOY_ATTEMPT_ID and its time
  production,  \* the current link, the unit files and which units are active
  snapshot,    \* ROLLBACK_DIR
  promoted,    \* PROMOTED
  injected,    \* PRODUCTION_FAILURE_INJECTED
  mutated,     \* CF_MUTATED
  legacy,      \* the legacy Worker is in service
  marker,      \* RECOVERY_REQUIRED.json exists
  receipts,    \* the attempt that last filed each release's receipt of a gate
  events,      \* the same of deployment_events in the database
  catalog,     \* the registry row: the verified release, and when
  outcome,     \* how the last attempt ended
  ignored,     \* history: attempts whose rollback went on after a failed command
  kills, faults

memory == <<mode, skip, rel, attempt, snapshot>>
flags == <<promoted, injected, mutated>>
host == <<production, legacy, marker>>
records == <<receipts, events, catalog>>
endings == <<outcome, ignored, kills, faults>>
vars == <<staging, pc, memory, flags, host, records, endings>>

Modes == {"deploy", "stage-only", "force-staging-failure", "force-production-failure"}

\* The receipts that finalisation orders, in the order one attempt files them.
\* Receipts filed back to back stand for one: consumer_canary with
\* scheduler_proof, and the two before provisioning_compatibility with it;
\* provenance_verified is filed by every attempt before any of these.
Gates == <<"forced_staging_rollback", "staging_smoke", "forced_production_rollback",
           "provisioning_compatibility", "production_smoke", "scheduler_proof",
           "trigger_cutover", "active_release">>
GateNames == {Gates[i] : i \in DOMAIN Gates}
Rank(gate) == CHOOSE i \in DOMAIN Gates : Gates[i] = gate

Init ==
  /\ StagingInit
  /\ pc = "idle" /\ mode = "deploy" /\ skip = FALSE /\ rel = None /\ attempt = 0
  /\ production = [current |-> None, units |-> None, api |-> FALSE,
                   triggers |-> FALSE, by |-> 0]
  /\ snapshot = production
  /\ promoted = FALSE /\ injected = FALSE /\ mutated = FALSE
  /\ legacy = TRUE /\ marker = FALSE
  /\ receipts = [r \in Releases |-> [g \in GateNames |-> 0]]
  /\ events = receipts /\ catalog = [release |-> None, at |-> 0]
  /\ outcome = "none" /\ ignored = {}
  /\ kills = 0 /\ faults = 0

Goto(from, to) == pc = from /\ pc' = to
Ends(from, how) == Goto(from, "exit") /\ outcome' = how
Fault == faults < MaxFaults /\ faults' = faults + 1

\* staging-cleanup returns: nothing is left, or MinIO could not be asked.
CleanupReturns ==
  \/ Cleaned(rel) /\ UNCHANGED faults
  \/ CleanedBlind(rel) /\ Fault

File(gates) ==
  receipts' = [receipts EXCEPT ![rel] =
                 [g \in GateNames |-> IF g \in gates THEN attempt ELSE @[g]]]

-----------------------------------------------------------------------------
(* Start: the release lock is free and no recovery marker exists.          *)

Begin ==
  /\ Goto("idle", "clear") /\ ~marker
  /\ attempt < MaxAttempts /\ attempt' = attempt + 1
  /\ mode' \in Modes /\ rel' \in Releases
  /\ skip' \in BOOLEAN /\ (skip' => mode' = "deploy")
  /\ snapshot' = production
  /\ outcome' = "none"
  /\ UNCHANGED <<staging, flags, host, records, ignored, kills, faults>>

-----------------------------------------------------------------------------
(* prepare_staging_resources and run_staging.                              *)

CreateSteps == {"database", "bucket", "identity"}

\* dropdb also fails while the staging unit of a killed attempt is connected.
Clear ==
  /\ \/ Goto("clear", "mkdir") /\ CleanupReturns
     \/ Goto("clear", "on_error") /\ NotCleaned(rel) /\ UNCHANGED memos
        /\ \/ unit /\ UNCHANGED faults
           \/ Fault
  /\ UNCHANGED <<unit, resources, memory, flags, host, records,
                 outcome, ignored, kills>>

StageDirectory ==
  /\ Goto("mkdir", "database") /\ MakeDirectory
  /\ UNCHANGED <<memory, flags, host, records, endings>>

StageResource ==
  /\ \/ Goto("database", "bucket") /\ Create(rel, "database")
     \/ Goto("bucket", "identity") /\ Create(rel, "bucket")
     \/ Goto("identity", "created") /\ Create(rel, "identity")
  /\ UNCHANGED <<memory, flags, host, records, endings>>

\* The except clause of _staging_create cleans up and raises again.
StageUndone ==
  /\ pc \in CreateSteps /\ pc' = "on_error"
  /\ \/ CleanupReturns
     \/ NotCleaned(rel) /\ UNCHANGED memos /\ Fault
  /\ UNCHANGED <<unit, resources, memory, flags, host, records,
                 outcome, ignored, kills>>

\* STAGING_RESOURCES is set once staging-create has returned.
StageCreated ==
  /\ Goto("created", "stage") /\ resources' = TRUE
  /\ UNCHANGED <<staged, directory, unit, memos, memory, flags, host, records, endings>>

\* Imports, probes, install_staging, the smoke test and the canary; the forced
\* failure is a smoke test that must be red.
StageRelease ==
  /\ Goto("stage", "clean") /\ unit' = TRUE
  /\ UNCHANGED <<staged, directory, resources, memos, memory, flags, host, records,
                 endings>>

CleanStaging ==
  /\ unit' = FALSE
  /\ \/ Goto("clean", "staged") /\ CleanupReturns /\ resources' = FALSE
     \/ Goto("clean", "on_error") /\ NotCleaned(rel) /\ Fault
        /\ UNCHANGED <<resources, memos>>
  /\ UNCHANGED <<memory, flags, host, records, outcome, ignored, kills>>

-----------------------------------------------------------------------------
(* The gates.                                                              *)

RehearseStaging ==
  /\ pc = "staged" /\ mode = "force-staging-failure" /\ production = snapshot
  /\ Ends("staged", "rehearsed")
  /\ File({"forced_staging_rollback"})
  /\ UNCHANGED <<staging, memory, flags, host, events, catalog,
                 ignored, kills, faults>>

Smoked ==
  /\ pc = "staged" /\ mode # "force-staging-failure" /\ File({"staging_smoke"})
  /\ \/ mode = "stage-only" /\ Ends("staged", "green")
     \/ mode # "stage-only" /\ Goto("staged", "gate") /\ UNCHANGED outcome
  /\ UNCHANGED <<staging, memory, flags, host, events, catalog,
                 ignored, kills, faults>>

\* A slip the properties must catch: receipts of any release open the gate.
RequireGateOfAny(gate) == \E r \in Releases : receipts[r][gate] > 0

RequireGate(gate) == receipts[rel][gate] > 0

PassGate ==
  /\ pc = "gate" /\ RequireGate("forced_staging_rollback")
  /\ \/ mode = "force-production-failure" /\ Goto("gate", "install")
     \/ /\ mode = "deploy" /\ RequireGate("forced_production_rollback")
        /\ Goto("gate", "provision")
  /\ UNCHANGED <<staging, memory, flags, host, records, endings>>

\* A slip the properties must catch: copies carry the running attempt's number.
SyncAsOwn(gates) ==
  events' = [events EXCEPT ![rel] =
               [g \in GateNames |-> IF g \in gates THEN attempt ELSE @[g]]]

\* sync_release_receipts copies every receipt of the release, one by one.
Sync(gates) ==
  events' = [events EXCEPT ![rel] =
               [g \in GateNames |-> IF g \in gates THEN receipts[rel][g] ELSE @[g]]]

Unsynced == {g \in GateNames : events[rel][g] # receipts[rel][g]}

\* provision_data, monotonic and idempotent (RowImport), ends with a sync.
Provision ==
  /\ Goto("provision", "compatible") /\ Sync(GateNames)
  /\ UNCHANGED <<staging, memory, flags, host, receipts, catalog, endings>>

Compatible ==
  /\ Goto("compatible", "install") /\ File({"provisioning_compatibility"})
  /\ UNCHANGED <<staging, memory, flags, host, events, catalog, endings>>

\* A sync may fail after a part of the receipts; their order is that of a glob.
SyncInterrupted ==
  /\ pc \in {"provision", "sync", "final_sync"} /\ pc' = "on_error" /\ Fault
  /\ \E gates \in SUBSET Unsynced : Sync(gates)
  /\ UNCHANGED <<staging, memory, flags, host, receipts, catalog,
                 outcome, ignored, kills>>

-----------------------------------------------------------------------------
(* install_production_units and exercise_production_rollback.              *)

\* A slip the properties must catch: the rehearsal does not set PROMOTED.
InstallUnmarked ==
  /\ Goto("install", "copy") /\ promoted' = (mode = "deploy")
  /\ production' = [production EXCEPT !.triggers = FALSE,
                      !.api = @ /\ mode = "deploy"]
  /\ UNCHANGED <<staging, memory, injected, mutated, legacy, marker, records, endings>>

\* Both stop the triggers first; only the rehearsal stops the API as well.
Install ==
  /\ Goto("install", "copy") /\ promoted' = TRUE
  /\ production' = [production EXCEPT !.triggers = FALSE,
                      !.api = @ /\ mode = "deploy"]
  /\ UNCHANGED <<staging, memory, injected, mutated, legacy, marker, records, endings>>

CopyUnits ==
  /\ Goto("copy", "link")
  /\ production' = [production EXCEPT !.units = "mixed"]
  /\ UNCHANGED <<staging, memory, flags, legacy, marker, records, endings>>

\* The rehearsal goes on to its injected failure, red in any case.
Link ==
  /\ \/ mode = "deploy" /\ Goto("link", "restart") /\ UNCHANGED injected
     \/ mode # "deploy" /\ Goto("link", "on_error") /\ injected' = TRUE
  /\ production' = [production EXCEPT !.units = rel, !.current = rel, !.by = attempt]
  /\ UNCHANGED <<staging, memory, promoted, mutated, legacy, marker, records, endings>>

RestartApi ==
  /\ Goto("restart", "smoke")
  /\ production' = [production EXCEPT !.api = TRUE]
  /\ UNCHANGED <<staging, memory, flags, legacy, marker, records, endings>>

ProductionProofs ==
  /\ \/ Goto("smoke", "proofs") /\ File({"production_smoke"})
     \/ Goto("proofs", "sync") /\ File({"scheduler_proof"})
  /\ UNCHANGED <<staging, memory, flags, host, events, catalog, endings>>

ProofsSynced ==
  /\ pc = "sync" /\ Sync(GateNames)
  /\ \/ skip /\ Ends("sync", "green")
     \/ ~skip /\ Goto("sync", "cutover") /\ UNCHANGED outcome
  /\ UNCHANGED <<staging, memory, flags, host, receipts, catalog,
                 ignored, kills, faults>>

-----------------------------------------------------------------------------
(* The cutover, and the end of an attempt that is green.                   *)

\* disable; on a Worker that is out of service it answers already_disabled.
\* A disable that fails may have undone itself.
CutOver ==
  /\ \/ Goto("cutover", "activate") /\ legacy' = FALSE /\ mutated' = legacy
     \/ Goto("cutover", "on_error") /\ legacy' \in {legacy, FALSE} /\ mutated' = TRUE
  /\ UNCHANGED <<staging, memory, promoted, injected, production, marker,
                 records, endings>>

Activate ==
  /\ Goto("activate", "record")
  /\ production' = [production EXCEPT !.triggers = TRUE]
  /\ UNCHANGED <<staging, memory, flags, legacy, marker, records, endings>>

Record ==
  /\ Goto("record", "final_sync") /\ File({"trigger_cutover", "active_release"})
  /\ UNCHANGED <<staging, memory, flags, host, events, catalog, endings>>

FinalSync ==
  /\ Ends("final_sync", "green") /\ Sync(GateNames)
  /\ UNCHANGED <<staging, memory, flags, host, receipts, catalog,
                 ignored, kills, faults>>

-----------------------------------------------------------------------------
(* on_error, rollback_local and the EXIT trap.                             *)

\* Any command under `trap on_error ERR' may fail; before "clear" has run, the
\* build of the release, its receipt or the staging user.
Red ==
  /\ pc \in {"clear", "mkdir", "stage", "staged", "gate", "provision", "compatible",
             "install", "copy", "link", "restart", "smoke", "proofs", "sync",
             "cutover", "activate", "record", "final_sync"}
  /\ pc' = "on_error"
  /\ unit' = (unit \/ pc = "stage")
  /\ UNCHANGED <<staged, directory, resources, memos, memory, flags, host, records,
                 endings>>

RestoreProvider ==
  /\ mutated /\ pc = "on_error"
  /\ \/ /\ pc' = "on_error" /\ legacy' = TRUE /\ mutated' = FALSE
        /\ UNCHANGED <<marker, faults, outcome>>
     \/ /\ Fault /\ Ends("on_error", "recovery") /\ marker' = TRUE
        /\ UNCHANGED <<legacy, mutated>>
  /\ UNCHANGED <<staging, memory, promoted, injected, production, records,
                 ignored, kills>>

\* rollback_local, with errexit off: the units stop, then their files, the link
\* and the states are put back.
StopUnits ==
  /\ promoted /\ ~mutated /\ Goto("on_error", "files")
  /\ production' = [production EXCEPT !.api = FALSE, !.triggers = FALSE]
  /\ UNCHANGED <<staging, memory, flags, legacy, marker, records, endings>>

PutBack ==
  CASE pc = "files" -> [production EXCEPT !.units = snapshot.units]
    [] pc = "relink" -> [production EXCEPT !.current = snapshot.current,
                                           !.by = snapshot.by]
    [] OTHER -> [production EXCEPT !.api = snapshot.api,
                                   !.triggers = snapshot.triggers]

\* What is left when they fail, or are cut off: a few files, a link that named
\* the same release all along, a few units.
HalfPutBack ==
  CASE pc = "files" -> {production, [production EXCEPT !.units = "mixed"]}
    [] pc = "relink" ->
         {IF production.current = snapshot.current THEN PutBack ELSE production}
    [] pc = "restate" ->
         {[production EXCEPT !.api = a, !.triggers = t] :
            a \in {FALSE, snapshot.api}, t \in {FALSE, snapshot.triggers}}
    [] OTHER -> {production}

\* A failure is ignored; whatever made one command fail may make others fail.
RestoreUnits ==
  /\ \/ Goto("files", "relink") \/ Goto("relink", "restate") \/ Goto("restate", "judge")
  /\ promoted' = (pc # "restate")
  /\ \/ production' = PutBack /\ UNCHANGED <<ignored, faults>>
     \/ /\ production' \in HalfPutBack
        /\ ignored' = ignored \cup {attempt}
        /\ \/ attempt \in ignored /\ UNCHANGED faults
           \/ attempt \notin ignored /\ Fault
  /\ UNCHANGED <<staging, memory, injected, mutated, legacy, marker, records,
                 outcome, kills>>

\* Exit status of on_error.  The verification may also be disturbed by an
\* hourly run, whose service is one of the units.
Judge ==
  /\ \/ pc = "judge"
     \/ pc = "on_error" /\ ~promoted /\ ~mutated
  /\ pc' = "exit"
  /\ \/ /\ mode = "force-production-failure" /\ injected /\ production = snapshot
        /\ File({"forced_production_rollback"}) /\ outcome' = "rehearsed"
     \/ outcome' = "red" /\ UNCHANGED receipts
  /\ UNCHANGED <<staging, memory, flags, host, events, catalog,
                 ignored, kills, faults>>

Report == reported' = IF directory' THEN reported \cup {rel} ELSE reported

\* cleanup: staging is cleaned again when STAGING_RESOURCES is still set, with
\* errors ignored; only a directory that is left is reported.
Exit ==
  /\ Goto("exit", "idle") /\ unit' = FALSE /\ resources' = FALSE
  /\ \/ ~resources /\ UNCHANGED <<staged, directory, overlooked, faults>> /\ Report
     \/ resources /\ CleanupReturns
     \/ resources /\ NotCleaned(rel) /\ Fault /\ UNCHANGED overlooked /\ Report
  /\ promoted' = FALSE /\ injected' = FALSE /\ mutated' = FALSE
  /\ UNCHANGED <<memory, host, records, outcome, ignored, kills>>

\* A kill may come between two commands of a step of the rollback.
Kill ==
  /\ pc # "idle" /\ pc' = "idle"
  /\ kills < MaxKills /\ kills' = kills + 1
  /\ unit' = (unit \/ pc = "stage")
  /\ production' \in HalfPutBack
  /\ promoted' = FALSE /\ injected' = FALSE /\ mutated' = FALSE /\ resources' = FALSE
  /\ outcome' = "killed" /\ overlooked' = overlooked \cup {rel}
  /\ UNCHANGED <<staged, directory, reported, memory, legacy, marker, records, ignored,
                 faults>>

\* The operator's verified restore.
ClearMarker ==
  /\ pc = "idle" /\ marker
  /\ marker' = FALSE /\ legacy' = TRUE
  /\ UNCHANGED <<staging, pc, memory, flags, production, records, endings>>

-----------------------------------------------------------------------------
(* finalize_shadowglass_v35.sh and finalize_migration.sql.                 *)

\* max(occurred_at) of one gate before that of another, for one release.
Before(r, g, h) ==
  /\ events[r][g] > 0
  /\ \/ events[r][g] < events[r][h]
     \/ events[r][g] = events[r][h] /\ Rank(g) < Rank(h)

\* A slip the properties must catch: the cutover is not tied to the proofs.
OrderedApart(r) ==
  /\ Before(r, "forced_staging_rollback", "forced_production_rollback")
  /\ Before(r, "forced_production_rollback", "staging_smoke")
  /\ Before(r, "staging_smoke", "provisioning_compatibility")
  /\ Before(r, "provisioning_compatibility", "production_smoke")
  /\ Before(r, "production_smoke", "scheduler_proof")
  /\ Before(r, "trigger_cutover", "active_release")

Ordered(r) ==
  /\ Before(r, "forced_staging_rollback", "forced_production_rollback")
  /\ Before(r, "forced_production_rollback", "staging_smoke")
  /\ Before(r, "staging_smoke", "provisioning_compatibility")
  /\ Before(r, "provisioning_compatibility", "production_smoke")
  /\ Before(r, "production_smoke", "scheduler_proof")
  /\ Before(r, "scheduler_proof", "trigger_cutover")
  /\ Before(r, "trigger_cutover", "active_release")

\* The release lock is held throughout and the script writes nothing but its own
\* attestation before the last transaction, so that it is one step.
Finalize ==
  /\ pc = "idle" /\ ~marker
  /\ production.current \in Releases /\ production.units = production.current
  /\ production.api /\ production.triggers /\ ~legacy
  /\ Ordered(production.current)
  /\ catalog' = [release |-> production.current, at |-> attempt]
  /\ UNCHANGED <<staging, pc, memory, flags, host, receipts, events, endings>>

-----------------------------------------------------------------------------

Attempt ==
  \/ Begin \/ Clear \/ StageDirectory \/ StageResource \/ StageUndone \/ StageCreated
  \/ StageRelease \/ CleanStaging \/ RehearseStaging \/ Smoked \/ PassGate
  \/ Provision \/ Compatible \/ Install \/ CopyUnits \/ Link \/ RestartApi
  \/ ProductionProofs \/ ProofsSynced \/ CutOver \/ Activate \/ Record \/ FinalSync

Undo ==
  \/ Red \/ SyncInterrupted \/ RestoreProvider \/ StopUnits \/ RestoreUnits
  \/ Judge \/ Exit

Next == Attempt \/ Undo \/ Kill \/ ClearMarker \/ Finalize

Spec == Init /\ [][Next]_vars

-----------------------------------------------------------------------------
(* Properties.                                                             *)

Hosts == [current : Releases \cup {None}, units : Releases \cup {None, "mixed"},
          api : BOOLEAN, triggers : BOOLEAN, by : 0 .. MaxAttempts]
Files == [Releases -> [GateNames -> 0 .. MaxAttempts]]

\* Every variable has its type; the database holds no receipt that is not on
\* disk, and an attempt's flags do not outlive it.
TypeOK ==
  /\ StagingOK
  /\ mode \in Modes /\ rel \in Releases \cup {None} /\ attempt \in 0 .. MaxAttempts
  /\ production \in Hosts /\ snapshot \in Hosts
  /\ {skip, promoted, injected, mutated, legacy, marker} \subseteq BOOLEAN
  /\ ignored \subseteq 1 .. MaxAttempts
  /\ receipts \in Files /\ events \in Files
  /\ \A r \in Releases, g \in GateNames : events[r][g] <= receipts[r][g]
  /\ outcome \in {"none", "green", "rehearsed", "red", "recovery", "killed"}
  /\ pc = "idle" => ~promoted /\ ~mutated /\ ~injected /\ ~resources

\* README: a red production path restores the prior current target, exact unit
\* files and prior states.  An attempt that ends red or as a rehearsal leaves
\* production as it found it, unless it left the recovery marker or went on after
\* a command of its rollback had failed, which nothing of a red end tells; a
\* rehearsal that is green has no such excuse (rollback_local with errexit off,
\* verify_production_snapshot).
RedIsUndone ==
  /\ pc = "idle" /\ outcome = "rehearsed" => production = snapshot
  /\ pc = "idle" /\ outcome = "red" /\ attempt \notin ignored => production = snapshot

\* README: both rollback receipts of the exact release are prerequisites of its
\* production.  Unless an attempt was killed, or the one that installed it could not
\* put back the link, the release that stays current between attempts was rehearsed
\* in both ways before it was installed, although the rehearsal itself installs it
\* (require_gate, rollback_local).
StandingIsRehearsed ==
  pc = "idle" /\ kills = 0 /\ production.current # None =>
    production.by \in ignored \/
    \A gate \in {"forced_staging_rollback", "forced_production_rollback"} :
      receipts[production.current][gate] \in 1 .. attempt

\* What a cleanup that returned may have left.
Unseen(r) == IF r \in overlooked THEN {"bucket", "identity"} ELSE {}

\* README: staging resources are all removed on exit.  A green attempt leaves
\* nothing under its release's names but what a MinIO that did not answer kept,
\* even after a killed one; and whatever is left of any release was reported by an
\* attempt of it, but for a kill or such a MinIO: neither another release's cleanup,
\* which removes the one directory, nor an attempt that fails before its own
\* makes it forgotten (cleanup_staging_resources, _staging_cleanup).
StagingRemoved ==
  pc = "idle" =>
    /\ outcome \in {"green", "rehearsed"} =>
         /\ ~directory /\ ~unit
         /\ staged[rel] \subseteq Unseen(rel)
    /\ \A r \in Releases : staged[r] # {} => r \in reported \cup overlooked

\* The registry row is only written on the receipts of one attempt, from its
\* staging to its cutover, and no later attempt that installed the release and
\* did not finish is what production runs, but one whose rollback failed: neither a
\* mixture of several attempts nor a part of a copied set passes for a deployment
\* (finalize_migration.sql).
FinalizedByOneAttempt ==
  [][catalog' # catalog =>
       LET copied == events[production.current]
           last == copied["active_release"]
       IN  /\ \A g \in GateNames : Rank(g) > 3 => copied[g] = last
           /\ copied["staging_smoke"] = last
           /\ production.by <= last \/ production.by \in ignored]_vars

\* README: the local consumer and timer are kept apart from a legacy Worker in
\* service "to avoid dual producers".  Claimed of the states between attempts in
\* which nothing was killed and no marker asks for a recovery.
OneScheduler ==
  pc = "idle" /\ kills = 0 /\ ~marker /\ legacy => ~production.triggers

=============================================================================
