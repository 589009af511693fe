-------------------------- MODULE ReleaseGatesProofs --------------------------
(***************************************************************************)
(* The invariants of ReleaseGates and the rule of its finalisation, for    *)
(* any releases and any number of attempts, kills and failing commands.    *)
(***************************************************************************)
EXTENDS ReleaseGates, TLAPS

-----------------------------------------------------------------------------
(* The inductive invariant.                                                *)

\* Before install_production_units, from there on, and on the way to a cutover.
Early == {"clear", "mkdir", "database", "bucket", "identity", "created", "stage",
          "clean", "staged", "gate", "provision", "compatible", "install"}
Late == {"copy", "link", "restart", "smoke", "proofs", "sync", "cutover",
         "activate", "record", "final_sync"}
Installed == {"restart", "smoke", "proofs", "sync", "cutover", "activate"}
Deploying == {"provision", "compatible", "restart", "smoke", "proofs", "sync",
              "cutover", "activate", "record", "final_sync"}
Rolling == {"files", "relink", "restate"}
Pcs == Early \cup Late \cup Rolling \cup {"idle", "on_error", "judge", "exit"}

\* Where an attempt is determines its flags.
Control ==
  /\ pc \in Pcs
  /\ pc # "idle" => rel \in Releases /\ attempt >= 1
  /\ pc \in Early \cup {"judge"} => ~promoted
  /\ pc \in Late \cup Rolling => promoted
  /\ pc \in Deploying => mode = "deploy"
  /\ mutated => promoted /\ mode = "deploy" /\ pc \notin Rolling
  /\ kills \in Nat /\ faults \in Nat
  /\ \A r \in Releases, g \in GateNames : receipts[r][g] <= attempt

Rollbacks == {"forced_staging_rollback", "forced_production_rollback"}
Rehearsed(r) == \A gate \in Rollbacks : receipts[r][gate] \in 1 .. attempt

\* A release that is current was rehearsed, but for the rehearsal itself and for a
\* link that could not be put back.
Standing ==
  /\ mode = "deploy" /\ pc \in Late \cup {"provision", "compatible", "install"} =>
       Rehearsed(rel)
  /\ kills = 0 /\ snapshot.current # None =>
       Rehearsed(snapshot.current) \/ snapshot.by \in ignored
  /\ kills = 0 /\ production.current # None =>
       \/ Rehearsed(production.current) \/ production.by \in ignored
       \/ promoted /\ mode # "deploy" /\ pc \in {"on_error", "files", "relink"}

\* What is installed is the snapshot's or this attempt's own, and each step of a
\* rollback puts its part back or leaves the attempt among the ignored.
AsSnapshot == production.current = snapshot.current /\ production.by = snapshot.by
RollingHolds ==
  /\ pc \in Rolling => ~production.triggers
  /\ promoted => AsSnapshot \/ production.by = attempt
  /\ pc \in {"relink", "restate"} /\ attempt \notin ignored =>
       production.units = snapshot.units
  /\ pc = "restate" => AsSnapshot \/ (production.by = attempt /\ attempt \in ignored)

\* Production is the snapshot until it is promoted, and after its rollback unless
\* that ignored a failure.
Undone ==
  /\ ~promoted /\ pc \in Early \cup {"on_error"} => production = snapshot
  /\ pc = "judge" /\ attempt \notin ignored => production = snapshot
  /\ pc \in {"exit", "idle"} =>
       /\ outcome = "rehearsed" => production = snapshot
       /\ outcome = "red" /\ attempt \notin ignored => production = snapshot

\* What staging leaves, and where.
Creating == {"database", "bucket", "identity", "created"}
Past == {"staged", "gate", "provision", "compatible", "install"} \cup Late
StagingHolds ==
  /\ \/ pc \in Past \/ injected
     \/ pc \in {"exit", "idle"} /\ outcome \in {"green", "rehearsed"}
     => staged[rel] \subseteq Unseen(rel) /\ ~directory /\ ~unit /\ ~resources
  /\ injected => pc \in Rolling \cup {"on_error", "judge", "exit"}
  /\ pc \in {"idle", "clear", "mkdir"} \cup Creating => ~resources
  /\ resources \/ pc \in Creating => directory
  /\ pc \in {"stage", "clean"} => resources
  /\ \A r \in Releases : staged[r] # {} =>
       \/ r \in reported \cup overlooked
       \/ r = rel /\ pc \notin {"idle", "clear"} /\ directory

\* The receipts of an attempt, on disk and copied; the installation they prove.
Proven == {"staging_smoke", "provisioning_compatibility", "production_smoke",
           "scheduler_proof"}
Closing == {"trigger_cutover", "active_release"}
ChainHolds ==
  /\ \A r \in Releases, g \in Closing, h \in Proven : receipts[r][g] <= events[r][h]
  /\ pc \in {"gate", "provision", "compatible", "install", "copy", "link", "restart",
             "smoke", "proofs", "sync"} => receipts[rel]["staging_smoke"] = attempt
  /\ mode = "deploy" /\ pc \in {"install", "copy", "link", "restart", "smoke", "proofs",
                                "sync"} =>
       receipts[rel]["provisioning_compatibility"] = attempt
  /\ pc \in {"proofs", "sync"} => receipts[rel]["production_smoke"] = attempt
  /\ pc = "sync" => receipts[rel]["scheduler_proof"] = attempt
  /\ pc \in {"cutover", "activate", "record"} =>
       \A h \in Proven : events[rel][h] = attempt

\* An installation with active triggers is no later than the staging it stands on,
\* unless a rollback started them on a link it could not put back.
TriggersHold ==
  /\ pc \in {"copy", "link"} \cup Installed => ~production.triggers
  /\ pc \in Installed => production.current = rel /\ production.by = attempt
  /\ \A host1 \in {production, snapshot} :
       host1.triggers /\ host1.current \in Releases =>
         \/ host1.by <= events[host1.current]["staging_smoke"]
         \/ host1.by \in ignored

IInv ==
  /\ TypeOK /\ Control /\ Standing /\ RollingHolds /\ Undone
  /\ StagingHolds /\ ChainHolds /\ TriggersHold

-----------------------------------------------------------------------------
(* Gates, receipts and their copies.                                       *)

\* The gates by name.
LEMMA Names ==
  GateNames = {"forced_staging_rollback", "staging_smoke", "forced_production_rollback",
               "provisioning_compatibility", "production_smoke", "scheduler_proof",
               "trigger_cutover", "active_release"}
BY DEF GateNames, Gates

\* A receipt is filed for the running attempt, and no other entry changes.
LEMMA FileWrites ==
  ASSUME TypeOK, rel \in Releases, NEW gates, File(gates),
         attempt \in 1 .. MaxAttempts
  PROVE  /\ receipts' \in Files
         /\ \A r \in Releases, g \in GateNames :
              receipts'[r][g] =
                IF r = rel /\ g \in gates THEN attempt ELSE receipts[r][g]
BY GatesAssumption DEF File, TypeOK, Files

\* A sync copies receipts of the release, and no other entry changes.
LEMMA SyncWrites ==
  ASSUME TypeOK, rel \in Releases, NEW gates, Sync(gates)
  PROVE  /\ events' \in Files
         /\ \A r \in Releases, g \in GateNames :
              events'[r][g] =
                IF r = rel /\ g \in gates THEN receipts[rel][g] ELSE events[r][g]
BY GatesAssumption DEF Sync, TypeOK, Files

\* What every step does to the records, whatever the gate.
Grown ==
  /\ attempt \in 0 .. MaxAttempts /\ attempt' \in 0 .. MaxAttempts
  /\ attempt <= attempt'
  /\ receipts' \in Files /\ events' \in Files
  /\ \A r \in Releases, g \in GateNames :
       /\ receipts'[r][g] \in {receipts[r][g], attempt}
       /\ receipts[r][g] <= receipts'[r][g] /\ receipts'[r][g] <= attempt'
       /\ events[r][g] <= events'[r][g] /\ events'[r][g] <= receipts'[r][g]

\* What on_error does first changes the provider, the marker and the flag only.
LEMMA ProviderMoves ==
  ASSUME RestoreProvider
  PROVE  /\ mutated /\ pc = "on_error"
         /\ \/ pc' = "on_error" /\ UNCHANGED outcome
            \/ pc' = "exit" /\ outcome' = "recovery"
         /\ mutated' => mutated
         /\ faults' \in {faults, faults + 1}
         /\ UNCHANGED <<staged, directory, unit, resources, reported, overlooked,
                       mode, skip, rel, attempt, snapshot, promoted, injected,
                       production, receipts, events, catalog, ignored, kills>>
<1>1. mutated /\ pc = "on_error" /\ (mutated' => mutated)
  BY DEF RestoreProvider
<1>2. \/ pc' = "on_error" /\ UNCHANGED outcome
      \/ pc' = "exit" /\ outcome' = "recovery"
  BY DEF RestoreProvider, Ends, Goto
<1>3. faults' \in {faults, faults + 1}
  BY DEF RestoreProvider, Fault
<1>4. UNCHANGED <<staged, directory, unit, resources, reported, overlooked,
                  mode, skip, rel, attempt, snapshot, promoted, injected,
                  production, receipts, events, catalog, ignored, kills>>
  BY DEF RestoreProvider, staging, memos, memory, records
<1> QED BY <1>1, <1>2, <1>3, <1>4

\* What the cleanup of the running attempt's release leaves when it returns.
LEMMA Cleaning ==
  ASSUME TypeOK, rel \in Releases, CleanupReturns
  PROVE  /\ staged' \in [Releases -> SUBSET Resources]
         /\ \A r \in Releases \ {rel} : staged'[r] = staged[r]
         /\ staged'[rel] # {} => rel \in overlooked'
         /\ staged'[rel] \subseteq IF rel \in overlooked' THEN {"bucket", "identity"}
                                                      ELSE {}
         /\ directory' = FALSE /\ reported' = reported \ {rel}
         /\ overlooked' \in {overlooked \ {rel}, overlooked \cup {rel}}
         /\ faults' \in {faults, faults + 1}
<1>1. staged \in [Releases -> SUBSET Resources]
  BY DEF TypeOK, StagingOK
<1>2. CASE Cleaned(rel) /\ UNCHANGED faults
  BY <1>1, <1>2 DEF Cleaned
<1>3. CASE CleanedBlind(rel) /\ Fault
  <2>1. PICK left \in SUBSET (staged[rel] \ {"database"}) :
          staged' = [staged EXCEPT ![rel] = left]
    BY <1>3 DEF CleanedBlind
  <2>2. left \in SUBSET Resources /\ left \subseteq {"bucket", "identity"}
    BY <1>1, <2>1 DEF Resources
  <2>3. staged' \in [Releases -> SUBSET Resources] /\ staged'[rel] = left
    BY <1>1, <2>1, <2>2
  <2> QED BY <1>1, <1>3, <2>1, <2>2, <2>3 DEF CleanedBlind, Fault
<1> QED BY <1>2, <1>3 DEF CleanupReturns

\* A cleanup that raises leaves a part, and the directory.
LEMMA NotCleaning ==
  ASSUME TypeOK, rel \in Releases, NotCleaned(rel)
  PROVE  /\ staged' \in [Releases -> SUBSET Resources]
         /\ \A r \in Releases \ {rel} : staged'[r] = staged[r]
         /\ staged'[rel] \subseteq staged[rel]
         /\ directory' = directory
<1>1. staged \in [Releases -> SUBSET Resources]
  BY DEF TypeOK, StagingOK
<1>2. PICK left \in SUBSET staged[rel] : staged' = [staged EXCEPT ![rel] = left]
  BY DEF NotCleaned
<1>3. left \in SUBSET Resources
  BY <1>1, <1>2
<1> QED BY <1>1, <1>2, <1>3 DEF NotCleaned

\* What a step of the rollback leaves when it fails or is cut off.
LEMMA Halves ==
  ASSUME TypeOK, NEW half \in HalfPutBack
  PROVE  /\ half \in Hosts
         /\ pc # "files" => half.units = production.units
         /\ IF pc = "relink"
            THEN \/ half.current = snapshot.current /\ half.by = snapshot.by
                 \/ /\ half.current = production.current /\ half.by = production.by
                    /\ production.current # snapshot.current
            ELSE half.current = production.current /\ half.by = production.by
         /\ IF pc = "restate"
            THEN half.triggers \in {FALSE, snapshot.triggers}
            ELSE half.triggers = production.triggers /\ half.api = production.api
         /\ pc \notin {"files", "relink", "restate"} => half = production
<1>1. production \in Hosts /\ snapshot \in Hosts
  BY DEF TypeOK
<1>2. CASE pc = "files"
  BY <1>1, <1>2 DEF HalfPutBack, Hosts
<1>3. CASE pc = "relink"
  <2>1. half = IF production.current = snapshot.current
               THEN [production EXCEPT !.current = snapshot.current, !.by = snapshot.by]
               ELSE production
    BY <1>3 DEF HalfPutBack, PutBack
  <2> QED BY <1>1, <1>3, <2>1 DEF Hosts
<1>4. CASE pc = "restate"
  <2>1. PICK a \in {FALSE, snapshot.api}, t \in {FALSE, snapshot.triggers} :
          half = [production EXCEPT !.api = a, !.triggers = t]
    BY <1>4 DEF HalfPutBack
  <2>2. a \in BOOLEAN /\ t \in BOOLEAN
    BY <1>1, <2>1 DEF Hosts
  <2> QED BY <1>1, <1>4, <2>1, <2>2 DEF Hosts
<1>5. CASE pc \notin {"files", "relink", "restate"}
  <2>1. half = production
    BY <1>5 DEF HalfPutBack
  <2> QED BY <1>1, <1>5, <2>1
<1> QED BY <1>2, <1>3, <1>4, <1>5

\* Each step of the rollback puts its part back, or leaves the attempt ignored.
LEMMA PuttingBack ==
  ASSUME TypeOK, RestoreUnits
  PROVE  /\ production' \in Hosts
         /\ pc \in {"files", "relink", "restate"}
         /\ pc' = CASE pc = "files" -> "relink" [] pc = "relink" -> "restate"
                     [] OTHER -> "judge"
         /\ IF pc = "restate" THEN promoted' = FALSE ELSE promoted' = TRUE
         /\ ignored' \in {ignored, ignored \cup {attempt}}
         /\ faults' \in {faults, faults + 1}
         /\ pc # "files" => production'.units = production.units
         /\ pc = "files" /\ attempt \notin ignored' =>
              production'.units = snapshot.units
         /\ IF pc = "relink"
            THEN \/ /\ production'.current = snapshot.current
                    /\ production'.by = snapshot.by
                 \/ /\ production'.current = production.current
                    /\ production'.by = production.by
                    /\ production.current # snapshot.current /\ attempt \in ignored'
            ELSE /\ production'.current = production.current
                 /\ production'.by = production.by
         /\ IF pc = "restate"
            THEN /\ production'.triggers \in {FALSE, snapshot.triggers}
                 /\ attempt \notin ignored' =>
                      /\ production'.triggers = snapshot.triggers
                      /\ production'.api = snapshot.api
            ELSE production'.triggers = production.triggers
         /\ UNCHANGED <<staged, directory, unit, resources, reported, overlooked,
                       mode, skip, rel, attempt, snapshot, injected, mutated, legacy,
                       marker, receipts, events, catalog, outcome, kills>>
<1>1. production \in Hosts /\ snapshot \in Hosts
  BY DEF TypeOK
<1>2. pc \in {"files", "relink", "restate"}
  BY DEF RestoreUnits, Goto
<1>3. pc' = CASE pc = "files" -> "relink" [] pc = "relink" -> "restate"
              [] OTHER -> "judge"
  BY DEF RestoreUnits, Goto
<1>4. /\ IF pc = "restate" THEN promoted' = FALSE ELSE promoted' = TRUE
      /\ UNCHANGED <<staged, directory, unit, resources, reported, overlooked,
                    mode, skip, rel, attempt, snapshot, injected, mutated, legacy,
                    marker, receipts, events, catalog, outcome, kills>>
  BY DEF RestoreUnits, staging, memos, memory, records
<1>5. CASE production' = PutBack /\ UNCHANGED <<ignored, faults>>
  <2>1. CASE pc = "files"
    <3>1. production' = [production EXCEPT !.units = snapshot.units]
      BY <1>5, <2>1 DEF PutBack
    <3> QED BY <1>1, <1>3, <1>4, <1>5, <2>1, <3>1 DEF Hosts
  <2>2. CASE pc = "relink"
    <3>1. production' = [production EXCEPT !.current = snapshot.current,
                                          !.by = snapshot.by]
      BY <1>5, <2>2 DEF PutBack
    <3> QED BY <1>1, <1>3, <1>4, <1>5, <2>2, <3>1 DEF Hosts
  <2>3. CASE pc = "restate"
    <3>1. production' = [production EXCEPT !.api = snapshot.api,
                                          !.triggers = snapshot.triggers]
      BY <1>5, <2>3 DEF PutBack
    <3> QED BY <1>1, <1>3, <1>4, <1>5, <2>3, <3>1 DEF Hosts
  <2> QED BY <1>2, <2>1, <2>2, <2>3
<1>6. CASE /\ production' \in HalfPutBack /\ ignored' = ignored \cup {attempt}
           /\ faults' \in {faults, faults + 1}
  BY <1>2, <1>3, <1>4, <1>6, Halves
<1>7. \/ production' = PutBack /\ UNCHANGED <<ignored, faults>>
      \/ /\ production' \in HalfPutBack /\ ignored' = ignored \cup {attempt}
         /\ faults' \in {faults, faults + 1}
  BY DEF RestoreUnits, Fault
<1> QED BY <1>5, <1>6, <1>7

\* Receipts and their copies only move up to the running attempt.
LEMMA RecordsGrow ==
  ASSUME IInv, Next
  PROVE  Grown
<1>1. TypeOK /\ Control BY DEF IInv
<1>2. /\ receipts \in Files /\ events \in Files
      /\ attempt \in Nat /\ attempt \in 0 .. MaxAttempts /\ MaxAttempts \in Nat
      /\ \A r \in Releases, g \in GateNames :
           events[r][g] <= receipts[r][g] /\ receipts[r][g] <= attempt
  BY <1>1, GatesAssumption DEF TypeOK, Control
<1>3. pc # "idle" => rel \in Releases /\ attempt \in 1 .. MaxAttempts
  BY <1>1, <1>2 DEF Control
<1>4. CASE Begin
  BY <1>4, <1>1, <1>2, <1>3 DEF Begin, Goto, staging, flags, host, records, memos,
      Grown, Files
<1>5. CASE Clear
  BY <1>5, <1>1, <1>2, <1>3 DEF Clear, CleanupReturns, memos, Goto, Fault,
      NotCleaned, memory, flags, host, records, CleanedBlind, Cleaned, Grown,
      Files
<1>6. CASE StageDirectory
  BY <1>6, <1>1, <1>2, <1>3 DEF StageDirectory, Goto, MakeDirectory, memory,
      flags, host, records, endings, memos, Grown, Files
<1>7. CASE StageResource
  BY <1>7, <1>1, <1>2, <1>3 DEF StageResource, Goto, Create, memory, flags, host,
      records, endings, memos, Grown, Files
<1>8. CASE StageUndone
  BY <1>8, <1>1, <1>2, <1>3 DEF StageUndone, CleanupReturns, memos, Fault,
      NotCleaned, CreateSteps, memory, flags, host, records, CleanedBlind,
      Cleaned, Grown, Files
<1>9. CASE StageCreated
  BY <1>9, <1>1, <1>2, <1>3 DEF StageCreated, memos, Goto, memory, flags, host,
      records, endings, Grown, Files
<1>10. CASE StageRelease
  BY <1>10, <1>1, <1>2, <1>3 DEF StageRelease, memos, Goto, memory, flags, host,
      records, endings, Grown, Files
<1>11. CASE CleanStaging
  BY <1>11, <1>1, <1>2, <1>3 DEF CleanStaging, CleanupReturns, memos, Goto, Fault,
      NotCleaned, memory, flags, host, records, CleanedBlind, Cleaned, Grown,
      Files
<1>12. CASE RehearseStaging
  BY <1>12, <1>1, <1>2, <1>3, FileWrites DEF RehearseStaging, Ends, staging,
      memory, flags, host, Goto, memos, Grown, Files
<1>13. CASE Smoked
  BY <1>13, <1>1, <1>2, <1>3, FileWrites DEF Smoked, Goto, Ends, staging, memory,
      flags, host, memos, Grown, Files
<1>14. CASE PassGate
  BY <1>14, <1>1, <1>2, <1>3 DEF PassGate, Goto, RequireGate, staging, memory,
      flags, host, records, endings, memos, Grown, Files
<1>15. CASE Provision
  BY <1>15, <1>1, <1>2, <1>3, SyncWrites DEF Provision, Goto, staging, memory,
      flags, host, endings, memos, Grown, Files
<1>16. CASE Compatible
  BY <1>16, <1>1, <1>2, <1>3, FileWrites DEF Compatible, Goto, staging, memory,
      flags, host, endings, memos, Grown, Files
<1>17. CASE Install
  BY <1>17, <1>1, <1>2, <1>3 DEF Install, Goto, staging, memory, records, endings,
      memos, Grown, Files
<1>18. CASE CopyUnits
  BY <1>18, <1>1, <1>2, <1>3 DEF CopyUnits, Goto, staging, memory, flags, records,
      endings, memos, Grown, Files
<1>19. CASE Link
  BY <1>19, <1>1, <1>2, <1>3 DEF Link, Goto, staging, memory, records, endings,
      memos, Grown, Files
<1>20. CASE RestartApi
  BY <1>20, <1>1, <1>2, <1>3 DEF RestartApi, Goto, staging, memory, flags,
      records, endings, memos, Grown, Files
<1>21. CASE ProductionProofs
  <2>1. PICK gates : File(gates)
    BY <1>21 DEF ProductionProofs
  <2>2. pc # "idle" /\ UNCHANGED <<attempt, events>>
    BY <1>21 DEF ProductionProofs, Goto, memory
  <2>3. /\ receipts' \in Files
        /\ \A r \in Releases, g \in GateNames :
             receipts'[r][g] \in {receipts[r][g], attempt}
    BY <1>1, <1>3, <2>1, <2>2, FileWrites
  <2>4. \A r \in Releases, g \in GateNames :
          receipts[r][g] \in Nat /\ events[r][g] \in Nat
    BY <1>2 DEF Files
  <2>5. \A r \in Releases, g \in GateNames :
          receipts[r][g] <= receipts'[r][g] /\ receipts'[r][g] <= attempt
    BY <1>2, <2>3, <2>4
  <2> QED BY <1>2, <2>2, <2>3, <2>4, <2>5 DEF Grown
<1>22. CASE ProofsSynced
  BY <1>22, <1>1, <1>2, <1>3, SyncWrites DEF ProofsSynced, Goto, Ends, staging,
      memory, flags, host, memos, Grown, Files
<1>23. CASE CutOver
  BY <1>23, <1>1, <1>2, <1>3 DEF CutOver, Goto, staging, memory, records, endings,
      memos, Grown, Files
<1>24. CASE Activate
  BY <1>24, <1>1, <1>2, <1>3 DEF Activate, Goto, staging, memory, flags, records,
      endings, memos, Grown, Files
<1>25. CASE Record
  BY <1>25, <1>1, <1>2, <1>3, FileWrites DEF Record, Goto, staging, memory, flags,
      host, endings, memos, Grown, Files
<1>26. CASE FinalSync
  BY <1>26, <1>1, <1>2, <1>3, SyncWrites DEF FinalSync, Ends, staging, memory,
      flags, host, Goto, memos, Grown, Files
<1>27. CASE Red
  BY <1>27, <1>1, <1>2, <1>3 DEF Red, memos, memory, flags, host, records,
      endings, Grown, Files
<1>28. CASE SyncInterrupted
  BY <1>28, <1>1, <1>2, <1>3, SyncWrites DEF SyncInterrupted, Fault, Unsynced,
      staging, memory, flags, host, memos, Grown, Files
<1>29. CASE RestoreProvider
  BY <1>29, <1>1, <1>2, <1>3 DEF RestoreProvider, Ends, Fault, staging, memory,
      records, Goto, memos, Grown, Files
<1>30. CASE StopUnits
  BY <1>30, <1>1, <1>2, <1>3 DEF StopUnits, Goto, staging, memory, flags, records,
      endings, memos, Grown, Files
<1>31. CASE RestoreUnits
  BY <1>31, <1>1, <1>2, <1>3 DEF RestoreUnits, Goto, Fault, staging, memory,
      records, memos, Grown, Files
<1>32. CASE Judge
  BY <1>32, <1>1, <1>2, <1>3, FileWrites DEF Judge, staging, memory, flags, host,
      memos, Grown, Files
<1>33. CASE Exit
  BY <1>33, <1>1, <1>2, <1>3 DEF Exit, CleanupReturns, Report, Goto, Fault,
      NotCleaned, memory, host, records, CleanedBlind, Cleaned, Grown, Files
<1>34. CASE Kill
  BY <1>34, <1>1, <1>2, <1>3 DEF Kill, memory, records, Grown, Files
<1>35. CASE ClearMarker
  BY <1>35, <1>1, <1>2, <1>3 DEF ClearMarker, staging, memory, flags, records,
      endings, memos, Grown, Files
<1>36. CASE Finalize
  BY <1>36, <1>1, <1>2, <1>3 DEF Finalize, staging, memory, flags, host, endings,
      memos, Grown, Files
<1> QED BY <1>4, <1>5, <1>6, <1>7, <1>8, <1>9, <1>10, <1>11, <1>12, <1>13, <1>14,
    <1>15, <1>16, <1>17, <1>18, <1>19, <1>20, <1>21, <1>22, <1>23, <1>24, <1>25,
    <1>26, <1>27, <1>28, <1>29, <1>30, <1>31, <1>32, <1>33, <1>34, <1>35, <1>36
    DEF Next, Attempt, Undo

\* Where an attempt is still determines its flags.
LEMMA ControlStep ==
  ASSUME IInv, Next
  PROVE  Control'
<1>1. TypeOK /\ Control BY DEF IInv
<1>2. \A r \in Releases, g \in GateNames : receipts'[r][g] <= attempt'
  BY RecordsGrow DEF Grown
<1>3. CASE Begin
  BY <1>3, <1>1, <1>2, GatesAssumption DEF Begin, Goto, staging, flags, host,
      records, memos, Control, TypeOK, Pcs, Early, Late, Rolling, Deploying
<1>4. CASE Clear
  BY <1>4, <1>1, <1>2, GatesAssumption DEF Clear, CleanupReturns, memos, Goto,
      Fault, NotCleaned, memory, flags, host, records, CleanedBlind, Cleaned,
      Control, TypeOK, Pcs, Early, Late, Rolling, Deploying
<1>5. CASE StageDirectory
  BY <1>5, <1>1, <1>2, GatesAssumption DEF StageDirectory, Goto, MakeDirectory,
      memory, flags, host, records, endings, memos, Control, TypeOK, Pcs, Early,
      Late, Rolling, Deploying
<1>6. CASE StageResource
  BY <1>6, <1>1, <1>2, GatesAssumption DEF StageResource, Goto, Create, memory,
      flags, host, records, endings, memos, Control, TypeOK, Pcs, Early, Late,
      Rolling, Deploying
<1>7. CASE StageUndone
  BY <1>7, <1>1, <1>2, GatesAssumption DEF StageUndone, CleanupReturns, memos,
      Fault, NotCleaned, CreateSteps, memory, flags, host, records, CleanedBlind,
      Cleaned, Control, TypeOK, Pcs, Early, Late, Rolling, Deploying
<1>8. CASE StageCreated
  BY <1>8, <1>1, <1>2, GatesAssumption DEF StageCreated, memos, Goto, memory,
      flags, host, records, endings, Control, TypeOK, Pcs, Early, Late, Rolling,
      Deploying
<1>9. CASE StageRelease
  BY <1>9, <1>1, <1>2, GatesAssumption DEF StageRelease, memos, Goto, memory,
      flags, host, records, endings, Control, TypeOK, Pcs, Early, Late, Rolling,
      Deploying
<1>10. CASE CleanStaging
  BY <1>10, <1>1, <1>2, GatesAssumption DEF CleanStaging, CleanupReturns, memos,
      Goto, Fault, NotCleaned, memory, flags, host, records, CleanedBlind,
      Cleaned, Control, TypeOK, Pcs, Early, Late, Rolling, Deploying
<1>11. CASE RehearseStaging
  BY <1>11, <1>1, <1>2, GatesAssumption DEF RehearseStaging, Ends, staging,
      memory, flags, host, Goto, memos, Control, TypeOK, Pcs, Early, Late,
      Rolling, Deploying
<1>12. CASE Smoked
  BY <1>12, <1>1, <1>2, GatesAssumption DEF Smoked, Goto, Ends, staging, memory,
      flags, host, memos, Control, TypeOK, Pcs, Early, Late, Rolling, Deploying
<1>13. CASE PassGate
  BY <1>13, <1>1, <1>2, GatesAssumption DEF PassGate, Goto, RequireGate, staging,
      memory, flags, host, records, endings, memos, Control, TypeOK, Pcs, Early,
      Late, Rolling, Deploying
<1>14. CASE Provision
  BY <1>14, <1>1, <1>2, GatesAssumption DEF Provision, Goto, staging, memory,
      flags, host, endings, memos, Control, TypeOK, Pcs, Early, Late, Rolling,
      Deploying
<1>15. CASE Compatible
  BY <1>15, <1>1, <1>2, GatesAssumption DEF Compatible, Goto, staging, memory,
      flags, host, endings, memos, Control, TypeOK, Pcs, Early, Late, Rolling,
      Deploying
<1>16. CASE Install
  BY <1>16, <1>1, <1>2, GatesAssumption DEF Install, Goto, staging, memory,
      records, endings, memos, Control, TypeOK, Pcs, Early, Late, Rolling,
      Deploying
<1>17. CASE CopyUnits
  BY <1>17, <1>1, <1>2, GatesAssumption DEF CopyUnits, Goto, staging, memory,
      flags, records, endings, memos, Control, TypeOK, Pcs, Early, Late, Rolling,
      Deploying
<1>18. CASE Link
  BY <1>18, <1>1, <1>2, GatesAssumption DEF Link, Goto, staging, memory, records,
      endings, memos, Control, TypeOK, Pcs, Early, Late, Rolling, Deploying
<1>19. CASE RestartApi
  BY <1>19, <1>1, <1>2, GatesAssumption DEF RestartApi, Goto, staging, memory,
      flags, records, endings, memos, Control, TypeOK, Pcs, Early, Late, Rolling,
      Deploying
<1>20. CASE ProductionProofs
  BY <1>20, <1>1, <1>2, GatesAssumption DEF ProductionProofs, Goto, staging,
      memory, flags, host, endings, memos, Control, TypeOK, Pcs, Early, Late,
      Rolling, Deploying
<1>21. CASE ProofsSynced
  BY <1>21, <1>1, <1>2, GatesAssumption DEF ProofsSynced, Goto, Ends, staging,
      memory, flags, host, memos, Control, TypeOK, Pcs, Early, Late, Rolling,
      Deploying
<1>22. CASE CutOver
  BY <1>22, <1>1, <1>2, GatesAssumption DEF CutOver, Goto, staging, memory,
      records, endings, memos, Control, TypeOK, Pcs, Early, Late, Rolling,
      Deploying
<1>23. CASE Activate
  BY <1>23, <1>1, <1>2, GatesAssumption DEF Activate, Goto, staging, memory,
      flags, records, endings, memos, Control, TypeOK, Pcs, Early, Late, Rolling,
      Deploying
<1>24. CASE Record
  BY <1>24, <1>1, <1>2, GatesAssumption DEF Record, Goto, staging, memory, flags,
      host, endings, memos, Control, TypeOK, Pcs, Early, Late, Rolling, Deploying
<1>25. CASE FinalSync
  BY <1>25, <1>1, <1>2, GatesAssumption DEF FinalSync, Ends, staging, memory,
      flags, host, Goto, memos, Control, TypeOK, Pcs, Early, Late, Rolling,
      Deploying
<1>26. CASE Red
  BY <1>26, <1>1, <1>2, GatesAssumption DEF Red, memos, memory, flags, host,
      records, endings, Control, TypeOK, Pcs, Early, Late, Rolling, Deploying
<1>27. CASE SyncInterrupted
  BY <1>27, <1>1, <1>2, GatesAssumption DEF SyncInterrupted, Fault, Unsynced,
      staging, memory, flags, host, memos, Control, TypeOK, Pcs, Early, Late,
      Rolling, Deploying
<1>28. CASE RestoreProvider
  BY <1>28, <1>1, ProviderMoves DEF Control, Pcs, Early, Late, Rolling, Deploying
<1>29. CASE StopUnits
  BY <1>29, <1>1, <1>2, GatesAssumption DEF StopUnits, Goto, staging, memory,
      flags, records, endings, memos, Control, TypeOK, Pcs, Early, Late, Rolling,
      Deploying
<1>30. CASE RestoreUnits
  <2>1. pc \in Rolling /\ ~mutated
    BY <1>30, <1>1, PuttingBack DEF Control, Rolling
  <2>2. /\ pc' \in {"relink", "restate", "judge"}
        /\ IF pc' = "judge" THEN promoted' = FALSE ELSE promoted' = TRUE
    BY <1>30, <1>1, <2>1, PuttingBack DEF Rolling
  <2>7. ~mutated'
    BY <1>30, <1>1, <2>1, PuttingBack
  <2>3. UNCHANGED <<rel, attempt, receipts, kills>> /\ faults' \in {faults, faults + 1}
    BY <1>30, <1>1, PuttingBack
  <2>4. kills' \in Nat /\ faults' \in Nat
    BY <1>1, <2>3 DEF Control
  <2>5. \A r \in Releases, g \in GateNames : receipts'[r][g] <= attempt'
    BY <1>2
  <2>6. pc' # "idle" => rel' \in Releases /\ attempt' >= 1
    BY <1>1, <2>1, <2>3 DEF Control, Rolling
  <2> QED BY <2>2, <2>4, <2>5, <2>6, <2>7
    DEF Control, Pcs, Early, Late, Rolling, Deploying
<1>31. CASE Judge
  BY <1>31, <1>1, <1>2, GatesAssumption DEF Judge, staging, memory, flags, host,
      memos, Control, TypeOK, Pcs, Early, Late, Rolling, Deploying
<1>32. CASE Exit
  BY <1>32, <1>1, <1>2, GatesAssumption DEF Exit, CleanupReturns, Report, Goto,
      Fault, NotCleaned, memory, host, records, CleanedBlind, Cleaned, Control,
      TypeOK, Pcs, Early, Late, Rolling, Deploying
<1>33. CASE Kill
  BY <1>33, <1>1, <1>2, GatesAssumption DEF Kill, memory, records, Control,
      TypeOK, Pcs, Early, Late, Rolling, Deploying
<1>34. CASE ClearMarker
  BY <1>34, <1>1, <1>2, GatesAssumption DEF ClearMarker, staging, memory, flags,
      records, endings, memos, Control, TypeOK, Pcs, Early, Late, Rolling,
      Deploying
<1>35. CASE Finalize
  BY <1>35, <1>1, <1>2, GatesAssumption DEF Finalize, staging, memory, flags,
      host, endings, memos, Control, TypeOK, Pcs, Early, Late, Rolling, Deploying
<1> QED BY <1>3, <1>4, <1>5, <1>6, <1>7, <1>8, <1>9, <1>10, <1>11, <1>12, <1>13,
    <1>14, <1>15, <1>16, <1>17, <1>18, <1>19, <1>20, <1>21, <1>22, <1>23, <1>24,
    <1>25, <1>26, <1>27, <1>28, <1>29, <1>30, <1>31, <1>32, <1>33, <1>34, <1>35
    DEF Next, Attempt, Undo

\* A release that is current stays rehearsed: receipts are never withdrawn.
LEMMA StandingStep ==
  ASSUME IInv, Next
  PROVE  Standing'
<1>1. TypeOK /\ Control /\ Standing /\ RollingHolds BY DEF IInv
<1>2. Grown BY RecordsGrow
<1>3. /\ attempt \in Nat /\ attempt' \in Nat
      /\ \A r \in Releases, g \in GateNames :
           receipts[r][g] \in Nat /\ receipts'[r][g] \in Nat
  BY <1>2, <1>1, GatesAssumption DEF Grown, TypeOK, Files
<1>4. \A r \in Releases : Rehearsed(r) => Rehearsed(r)'
  BY <1>2, <1>3, Names DEF Rehearsed, Rollbacks, Grown
<1>5. {production.current, snapshot.current} \subseteq Releases \cup {None}
  BY <1>1 DEF TypeOK, Hosts
<1>6. production \in Hosts /\ snapshot \in Hosts
  BY <1>1 DEF TypeOK
<1>7. pc # "idle" => rel \in Releases
  BY <1>1 DEF Control
<1>8. CASE Begin
  BY <1>8, <1>1, <1>4, <1>5, <1>6, <1>7, GatesAssumption DEF Begin, Goto, staging,
      flags, host, records, memos, Standing, Control, Late, Early, Rolling, Hosts
<1>9. CASE Clear
  BY <1>9, <1>1, <1>4, <1>5, <1>6, <1>7, GatesAssumption DEF Clear,
      CleanupReturns, memos, Goto, Fault, NotCleaned, memory, flags, host,
      records, CleanedBlind, Cleaned, Standing, Control, Late, Early, Rolling,
      Hosts
<1>10. CASE StageDirectory
  BY <1>10, <1>1, <1>4, <1>5, <1>6, <1>7, GatesAssumption DEF StageDirectory,
      Goto, MakeDirectory, memory, flags, host, records, endings, memos, Standing,
      Control, Late, Early, Rolling, Hosts
<1>11. CASE StageResource
  BY <1>11, <1>1, <1>4, <1>5, <1>6, <1>7, GatesAssumption DEF StageResource, Goto,
      Create, memory, flags, host, records, endings, memos, Standing, Control,
      Late, Early, Rolling, Hosts
<1>12. CASE StageUndone
  BY <1>12, <1>1, <1>4, <1>5, <1>6, <1>7, GatesAssumption DEF StageUndone,
      CleanupReturns, memos, Fault, NotCleaned, CreateSteps, memory, flags, host,
      records, CleanedBlind, Cleaned, Standing, Control, Late, Early, Rolling,
      Hosts
<1>13. CASE StageCreated
  BY <1>13, <1>1, <1>4, <1>5, <1>6, <1>7, GatesAssumption DEF StageCreated, memos,
      Goto, memory, flags, host, records, endings, Standing, Control, Late, Early,
      Rolling, Hosts
<1>14. CASE StageRelease
  BY <1>14, <1>1, <1>4, <1>5, <1>6, <1>7, GatesAssumption DEF StageRelease, memos,
      Goto, memory, flags, host, records, endings, Standing, Control, Late, Early,
      Rolling, Hosts
<1>15. CASE CleanStaging
  BY <1>15, <1>1, <1>4, <1>5, <1>6, <1>7, GatesAssumption DEF CleanStaging,
      CleanupReturns, memos, Goto, Fault, NotCleaned, memory, flags, host,
      records, CleanedBlind, Cleaned, Standing, Control, Late, Early, Rolling,
      Hosts
<1>16. CASE RehearseStaging
  BY <1>16, <1>1, <1>4, <1>5, <1>6, <1>7, GatesAssumption DEF RehearseStaging,
      Ends, staging, memory, flags, host, Goto, memos, Standing, Control, Late,
      Early, Rolling, Hosts
<1>17. CASE Smoked
  BY <1>17, <1>1, <1>4, <1>5, <1>6, <1>7, GatesAssumption DEF Smoked, Goto, Ends,
      staging, memory, flags, host, memos, Standing, Control, Late, Early,
      Rolling, Hosts
<1>18. CASE PassGate
  <2>1. mode = "deploy" => Rehearsed(rel)
    BY <1>18, <1>1, <1>3, <1>7, Names
    DEF PassGate, RequireGate, Rehearsed, Rollbacks, Control, Goto
  <2>2. UNCHANGED <<mode, rel, snapshot, kills, ignored, production, promoted>>
    BY <1>18 DEF PassGate, memory, host, endings, flags
  <2>3. pc = "gate" /\ pc' \in {"provision", "install"}
    BY <1>18 DEF PassGate, Goto
  <2> QED BY <1>1, <1>4, <1>5, <1>7, <2>1, <2>2, <2>3 DEF Standing, Late, Control
<1>19. CASE Provision
  BY <1>19, <1>1, <1>4, <1>5, <1>6, <1>7, GatesAssumption DEF Provision, Goto,
      staging, memory, flags, host, endings, memos, Standing, Control, Late,
      Early, Rolling, Hosts
<1>20. CASE Compatible
  BY <1>20, <1>1, <1>4, <1>5, <1>6, <1>7, GatesAssumption DEF Compatible, Goto,
      staging, memory, flags, host, endings, memos, Standing, Control, Late,
      Early, Rolling, Hosts
<1>21. CASE Install
  BY <1>21, <1>1, <1>4, <1>5, <1>6, <1>7, GatesAssumption DEF Install, Goto,
      staging, memory, records, endings, memos, Standing, Control, Late, Early,
      Rolling, Hosts
<1>22. CASE CopyUnits
  BY <1>22, <1>1, <1>4, <1>5, <1>6, <1>7, GatesAssumption DEF CopyUnits, Goto,
      staging, memory, flags, records, endings, memos, Standing, Control, Late,
      Early, Rolling, Hosts
<1>23. CASE Link
  BY <1>23, <1>1, <1>4, <1>5, <1>6, <1>7, GatesAssumption DEF Link, Goto, staging,
      memory, records, endings, memos, Standing, Control, Late, Early, Rolling,
      Hosts
<1>24. CASE RestartApi
  BY <1>24, <1>1, <1>4, <1>5, <1>6, <1>7, GatesAssumption DEF RestartApi, Goto,
      staging, memory, flags, records, endings, memos, Standing, Control, Late,
      Early, Rolling, Hosts
<1>25. CASE ProductionProofs
  BY <1>25, <1>1, <1>4, <1>5, <1>6, <1>7, GatesAssumption DEF ProductionProofs,
      Goto, staging, memory, flags, host, endings, memos, Standing, Control, Late,
      Early, Rolling, Hosts
<1>26. CASE ProofsSynced
  BY <1>26, <1>1, <1>4, <1>5, <1>6, <1>7, GatesAssumption DEF ProofsSynced, Goto,
      Ends, staging, memory, flags, host, memos, Standing, Control, Late, Early,
      Rolling, Hosts
<1>27. CASE CutOver
  BY <1>27, <1>1, <1>4, <1>5, <1>6, <1>7, GatesAssumption DEF CutOver, Goto,
      staging, memory, records, endings, memos, Standing, Control, Late, Early,
      Rolling, Hosts
<1>28. CASE Activate
  BY <1>28, <1>1, <1>4, <1>5, <1>6, <1>7, GatesAssumption DEF Activate, Goto,
      staging, memory, flags, records, endings, memos, Standing, Control, Late,
      Early, Rolling, Hosts
<1>29. CASE Record
  BY <1>29, <1>1, <1>4, <1>5, <1>6, <1>7, GatesAssumption DEF Record, Goto,
      staging, memory, flags, host, endings, memos, Standing, Control, Late,
      Early, Rolling, Hosts
<1>30. CASE FinalSync
  BY <1>30, <1>1, <1>4, <1>5, <1>6, <1>7, GatesAssumption DEF FinalSync, Ends,
      staging, memory, flags, host, Goto, memos, Standing, Control, Late, Early,
      Rolling, Hosts
<1>31. CASE Red
  BY <1>31, <1>1, <1>4, <1>5, <1>6, <1>7, GatesAssumption DEF Red, memos, memory,
      flags, host, records, endings, Standing, Control, Late, Early, Rolling,
      Hosts
<1>32. CASE SyncInterrupted
  BY <1>32, <1>1, <1>4, <1>5, <1>6, <1>7, GatesAssumption DEF SyncInterrupted,
      Fault, Unsynced, staging, memory, flags, host, memos, Standing, Control,
      Late, Early, Rolling, Hosts
<1>33. CASE RestoreProvider
  BY <1>33, <1>1, ProviderMoves, <1>4, <1>5 DEF Control, Standing, Late, Rolling
<1>34. CASE StopUnits
  BY <1>34, <1>1, <1>4, <1>5, <1>6, <1>7, GatesAssumption DEF StopUnits, Goto,
      staging, memory, flags, records, endings, memos, Standing, Control, Late,
      Early, Rolling, Hosts
<1>35. CASE RestoreUnits
  <2>1. production.by = attempt /\ attempt \in ignored' => production.by \in ignored'
    OBVIOUS
  <2>2. promoted /\ (AsSnapshot \/ production.by = attempt)
    BY <1>35, <1>1, PuttingBack DEF Control, RollingHolds, Rolling
  <2>3. snapshot.by \in ignored => snapshot.by \in ignored'
    BY <1>35, <1>1, PuttingBack
  <2> QED BY <1>35, <1>1, <1>4, <1>5, <1>7, <2>1, <2>2, <2>3, PuttingBack
    DEF Standing, Control, AsSnapshot, RollingHolds, Late, Rolling
<1>36. CASE Judge
  BY <1>36, <1>1, <1>4, <1>5, <1>6, <1>7, GatesAssumption DEF Judge, staging,
      memory, flags, host, memos, Standing, Control, Late, Early, Rolling, Hosts
<1>37. CASE Exit
  BY <1>37, <1>1, <1>4, <1>5, <1>6, <1>7, GatesAssumption DEF Exit,
      CleanupReturns, Report, Goto, Fault, NotCleaned, memory, host, records,
      CleanedBlind, Cleaned, Standing, Control, Late, Early, Rolling, Hosts
<1>38. CASE Kill
  <2>1. production' \in HalfPutBack /\ pc # "idle" /\ pc' = "idle" /\ kills' # 0
    BY <1>38, <1>1 DEF Kill, Control
  <2>2. /\ promoted' = FALSE /\ injected' = FALSE /\ outcome' = "killed"
        /\ UNCHANGED <<mode, rel, attempt, snapshot, ignored, receipts, events>>
    BY <1>38 DEF Kill, memory, records
  <2> QED BY <1>1, <1>4, <2>1, <2>2 DEF Standing, Late, Control
<1>39. CASE ClearMarker
  BY <1>39, <1>1, <1>4, <1>5, <1>6, <1>7, GatesAssumption DEF ClearMarker,
      staging, memory, flags, records, endings, memos, Standing, Control, Late,
      Early, Rolling, Hosts
<1>40. CASE Finalize
  BY <1>40, <1>1, <1>4, <1>5, <1>6, <1>7, GatesAssumption DEF Finalize, staging,
      memory, flags, host, endings, memos, Standing, Control, Late, Early,
      Rolling, Hosts
<1> QED BY <1>8, <1>9, <1>10, <1>11, <1>12, <1>13, <1>14, <1>15, <1>16, <1>17,
    <1>18, <1>19, <1>20, <1>21, <1>22, <1>23, <1>24, <1>25, <1>26, <1>27, <1>28,
    <1>29, <1>30, <1>31, <1>32, <1>33, <1>34, <1>35, <1>36, <1>37, <1>38, <1>39,
    <1>40 DEF Next, Attempt, Undo

\* What is installed is still the snapshot's or this attempt's own.
LEMMA RollingStep ==
  ASSUME IInv, Next
  PROVE  RollingHolds'
<1>1. TypeOK /\ Control /\ RollingHolds /\ Undone BY DEF IInv
<1>2. production \in Hosts /\ snapshot \in Hosts
  BY <1>1 DEF TypeOK
<1>3. CASE Begin
  BY <1>3, <1>1, <1>2 DEF Begin, Goto, staging, flags, host, records, memos,
      RollingHolds, AsSnapshot, Undone, Control, Rolling, Late, Early, Hosts
<1>4. CASE Clear
  BY <1>4, <1>1, <1>2 DEF Clear, CleanupReturns, memos, Goto, Fault, NotCleaned,
      memory, flags, host, records, CleanedBlind, Cleaned, RollingHolds,
      AsSnapshot, Undone, Control, Rolling, Late, Early, Hosts
<1>5. CASE StageDirectory
  BY <1>5, <1>1, <1>2 DEF StageDirectory, Goto, MakeDirectory, memory, flags,
      host, records, endings, memos, RollingHolds, AsSnapshot, Undone, Control,
      Rolling, Late, Early, Hosts
<1>6. CASE StageResource
  BY <1>6, <1>1, <1>2 DEF StageResource, Goto, Create, memory, flags, host,
      records, endings, memos, RollingHolds, AsSnapshot, Undone, Control, Rolling,
      Late, Early, Hosts
<1>7. CASE StageUndone
  BY <1>7, <1>1, <1>2 DEF StageUndone, CleanupReturns, memos, Fault, NotCleaned,
      CreateSteps, memory, flags, host, records, CleanedBlind, Cleaned,
      RollingHolds, AsSnapshot, Undone, Control, Rolling, Late, Early, Hosts
<1>8. CASE StageCreated
  BY <1>8, <1>1, <1>2 DEF StageCreated, memos, Goto, memory, flags, host, records,
      endings, RollingHolds, AsSnapshot, Undone, Control, Rolling, Late, Early,
      Hosts
<1>9. CASE StageRelease
  BY <1>9, <1>1, <1>2 DEF StageRelease, memos, Goto, memory, flags, host, records,
      endings, RollingHolds, AsSnapshot, Undone, Control, Rolling, Late, Early,
      Hosts
<1>10. CASE CleanStaging
  BY <1>10, <1>1, <1>2 DEF CleanStaging, CleanupReturns, memos, Goto, Fault,
      NotCleaned, memory, flags, host, records, CleanedBlind, Cleaned,
      RollingHolds, AsSnapshot, Undone, Control, Rolling, Late, Early, Hosts
<1>11. CASE RehearseStaging
  BY <1>11, <1>1, <1>2 DEF RehearseStaging, Ends, staging, memory, flags, host,
      Goto, memos, RollingHolds, AsSnapshot, Undone, Control, Rolling, Late,
      Early, Hosts
<1>12. CASE Smoked
  BY <1>12, <1>1, <1>2 DEF Smoked, Goto, Ends, staging, memory, flags, host,
      memos, RollingHolds, AsSnapshot, Undone, Control, Rolling, Late, Early,
      Hosts
<1>13. CASE PassGate
  BY <1>13, <1>1, <1>2 DEF PassGate, Goto, RequireGate, staging, memory, flags,
      host, records, endings, memos, RollingHolds, AsSnapshot, Undone, Control,
      Rolling, Late, Early, Hosts
<1>14. CASE Provision
  BY <1>14, <1>1, <1>2 DEF Provision, Goto, staging, memory, flags, host, endings,
      memos, RollingHolds, AsSnapshot, Undone, Control, Rolling, Late, Early,
      Hosts
<1>15. CASE Compatible
  BY <1>15, <1>1, <1>2 DEF Compatible, Goto, staging, memory, flags, host,
      endings, memos, RollingHolds, AsSnapshot, Undone, Control, Rolling, Late,
      Early, Hosts
<1>16. CASE Install
  BY <1>16, <1>1, <1>2 DEF Install, Goto, staging, memory, records, endings,
      memos, RollingHolds, AsSnapshot, Undone, Control, Rolling, Late, Early,
      Hosts
<1>17. CASE CopyUnits
  BY <1>17, <1>1, <1>2 DEF CopyUnits, Goto, staging, memory, flags, records,
      endings, memos, RollingHolds, AsSnapshot, Undone, Control, Rolling, Late,
      Early, Hosts
<1>18. CASE Link
  BY <1>18, <1>1, <1>2 DEF Link, Goto, staging, memory, records, endings, memos,
      RollingHolds, AsSnapshot, Undone, Control, Rolling, Late, Early, Hosts
<1>19. CASE RestartApi
  BY <1>19, <1>1, <1>2 DEF RestartApi, Goto, staging, memory, flags, records,
      endings, memos, RollingHolds, AsSnapshot, Undone, Control, Rolling, Late,
      Early, Hosts
<1>20. CASE ProductionProofs
  BY <1>20, <1>1, <1>2 DEF ProductionProofs, Goto, staging, memory, flags, host,
      endings, memos, RollingHolds, AsSnapshot, Undone, Control, Rolling, Late,
      Early, Hosts
<1>21. CASE ProofsSynced
  BY <1>21, <1>1, <1>2 DEF ProofsSynced, Goto, Ends, staging, memory, flags, host,
      memos, RollingHolds, AsSnapshot, Undone, Control, Rolling, Late, Early,
      Hosts
<1>22. CASE CutOver
  BY <1>22, <1>1, <1>2 DEF CutOver, Goto, staging, memory, records, endings,
      memos, RollingHolds, AsSnapshot, Undone, Control, Rolling, Late, Early,
      Hosts
<1>23. CASE Activate
  BY <1>23, <1>1, <1>2 DEF Activate, Goto, staging, memory, flags, records,
      endings, memos, RollingHolds, AsSnapshot, Undone, Control, Rolling, Late,
      Early, Hosts
<1>24. CASE Record
  BY <1>24, <1>1, <1>2 DEF Record, Goto, staging, memory, flags, host, endings,
      memos, RollingHolds, AsSnapshot, Undone, Control, Rolling, Late, Early,
      Hosts
<1>25. CASE FinalSync
  BY <1>25, <1>1, <1>2 DEF FinalSync, Ends, staging, memory, flags, host, Goto,
      memos, RollingHolds, AsSnapshot, Undone, Control, Rolling, Late, Early,
      Hosts
<1>26. CASE Red
  BY <1>26, <1>1, <1>2 DEF Red, memos, memory, flags, host, records, endings,
      RollingHolds, AsSnapshot, Undone, Control, Rolling, Late, Early, Hosts
<1>27. CASE SyncInterrupted
  BY <1>27, <1>1, <1>2 DEF SyncInterrupted, Fault, Unsynced, staging, memory,
      flags, host, memos, RollingHolds, AsSnapshot, Undone, Control, Rolling,
      Late, Early, Hosts
<1>28. CASE RestoreProvider
  BY <1>28, <1>1, ProviderMoves DEF Control, RollingHolds, AsSnapshot, Rolling
<1>29. CASE StopUnits
  BY <1>29, <1>1, <1>2 DEF StopUnits, Goto, staging, memory, flags, records,
      endings, memos, RollingHolds, AsSnapshot, Undone, Control, Rolling, Late,
      Early, Hosts
<1>30. CASE RestoreUnits
  BY <1>30, <1>1, PuttingBack DEF RollingHolds, AsSnapshot, Control, Rolling
<1>31. CASE Judge
  BY <1>31, <1>1, <1>2 DEF Judge, staging, memory, flags, host, memos,
      RollingHolds, AsSnapshot, Undone, Control, Rolling, Late, Early, Hosts
<1>32. CASE Exit
  BY <1>32, <1>1, <1>2 DEF Exit, CleanupReturns, Report, Goto, Fault, NotCleaned,
      memory, host, records, CleanedBlind, Cleaned, RollingHolds, AsSnapshot,
      Undone, Control, Rolling, Late, Early, Hosts
<1>33. CASE Kill
  <2>1. production' \in HalfPutBack /\ pc # "idle" /\ pc' = "idle" /\ kills' # 0
    BY <1>33, <1>1 DEF Kill, Control
  <2>2. /\ promoted' = FALSE /\ injected' = FALSE /\ outcome' = "killed"
        /\ UNCHANGED <<mode, rel, attempt, snapshot, ignored, receipts, events>>
    BY <1>33 DEF Kill, memory, records
  <2> QED BY <2>1, <2>2 DEF RollingHolds, Rolling
<1>34. CASE ClearMarker
  BY <1>34, <1>1, <1>2 DEF ClearMarker, staging, memory, flags, records, endings,
      memos, RollingHolds, AsSnapshot, Undone, Control, Rolling, Late, Early,
      Hosts
<1>35. CASE Finalize
  BY <1>35, <1>1, <1>2 DEF Finalize, staging, memory, flags, host, endings, memos,
      RollingHolds, AsSnapshot, Undone, Control, Rolling, Late, Early, Hosts
<1> QED BY <1>3, <1>4, <1>5, <1>6, <1>7, <1>8, <1>9, <1>10, <1>11, <1>12, <1>13,
    <1>14, <1>15, <1>16, <1>17, <1>18, <1>19, <1>20, <1>21, <1>22, <1>23, <1>24,
    <1>25, <1>26, <1>27, <1>28, <1>29, <1>30, <1>31, <1>32, <1>33, <1>34, <1>35
    DEF Next, Attempt, Undo

\* Production stays the snapshot, or becomes it again.
LEMMA UndoneStep ==
  ASSUME IInv, Next
  PROVE  Undone'
<1>1. TypeOK /\ Control /\ RollingHolds /\ Undone BY DEF IInv
<1>2. production \in Hosts /\ snapshot \in Hosts
  BY <1>1 DEF TypeOK
<1>3. CASE Begin
  BY <1>3, <1>1 DEF Begin, Goto, staging, flags, host, records, memos, Undone,
      Control, Late, Early, Rolling
<1>4. CASE Clear
  BY <1>4, <1>1 DEF Clear, CleanupReturns, memos, Goto, Fault, NotCleaned, memory,
      flags, host, records, CleanedBlind, Cleaned, Undone, Control, Late, Early,
      Rolling
<1>5. CASE StageDirectory
  BY <1>5, <1>1 DEF StageDirectory, Goto, MakeDirectory, memory, flags, host,
      records, endings, memos, Undone, Control, Late, Early, Rolling
<1>6. CASE StageResource
  BY <1>6, <1>1 DEF StageResource, Goto, Create, memory, flags, host, records,
      endings, memos, Undone, Control, Late, Early, Rolling
<1>7. CASE StageUndone
  BY <1>7, <1>1 DEF StageUndone, CleanupReturns, memos, Fault, NotCleaned,
      CreateSteps, memory, flags, host, records, CleanedBlind, Cleaned, Undone,
      Control, Late, Early, Rolling
<1>8. CASE StageCreated
  BY <1>8, <1>1 DEF StageCreated, memos, Goto, memory, flags, host, records,
      endings, Undone, Control, Late, Early, Rolling
<1>9. CASE StageRelease
  BY <1>9, <1>1 DEF StageRelease, memos, Goto, memory, flags, host, records,
      endings, Undone, Control, Late, Early, Rolling
<1>10. CASE CleanStaging
  BY <1>10, <1>1 DEF CleanStaging, CleanupReturns, memos, Goto, Fault, NotCleaned,
      memory, flags, host, records, CleanedBlind, Cleaned, Undone, Control, Late,
      Early, Rolling
<1>11. CASE RehearseStaging
  BY <1>11, <1>1 DEF RehearseStaging, Ends, staging, memory, flags, host, Goto,
      memos, Undone, Control, Late, Early, Rolling
<1>12. CASE Smoked
  BY <1>12, <1>1 DEF Smoked, Goto, Ends, staging, memory, flags, host, memos,
      Undone, Control, Late, Early, Rolling
<1>13. CASE PassGate
  BY <1>13, <1>1 DEF PassGate, Goto, RequireGate, staging, memory, flags, host,
      records, endings, memos, Undone, Control, Late, Early, Rolling
<1>14. CASE Provision
  BY <1>14, <1>1 DEF Provision, Goto, staging, memory, flags, host, endings,
      memos, Undone, Control, Late, Early, Rolling
<1>15. CASE Compatible
  BY <1>15, <1>1 DEF Compatible, Goto, staging, memory, flags, host, endings,
      memos, Undone, Control, Late, Early, Rolling
<1>16. CASE Install
  BY <1>16, <1>1 DEF Install, Goto, staging, memory, records, endings, memos,
      Undone, Control, Late, Early, Rolling
<1>17. CASE CopyUnits
  BY <1>17, <1>1 DEF CopyUnits, Goto, staging, memory, flags, records, endings,
      memos, Undone, Control, Late, Early, Rolling
<1>18. CASE Link
  BY <1>18, <1>1 DEF Link, Goto, staging, memory, records, endings, memos, Undone,
      Control, Late, Early, Rolling
<1>19. CASE RestartApi
  BY <1>19, <1>1 DEF RestartApi, Goto, staging, memory, flags, records, endings,
      memos, Undone, Control, Late, Early, Rolling
<1>20. CASE ProductionProofs
  BY <1>20, <1>1 DEF ProductionProofs, Goto, staging, memory, flags, host,
      endings, memos, Undone, Control, Late, Early, Rolling
<1>21. CASE ProofsSynced
  BY <1>21, <1>1 DEF ProofsSynced, Goto, Ends, staging, memory, flags, host,
      memos, Undone, Control, Late, Early, Rolling
<1>22. CASE CutOver
  BY <1>22, <1>1 DEF CutOver, Goto, staging, memory, records, endings, memos,
      Undone, Control, Late, Early, Rolling
<1>23. CASE Activate
  BY <1>23, <1>1 DEF Activate, Goto, staging, memory, flags, records, endings,
      memos, Undone, Control, Late, Early, Rolling
<1>24. CASE Record
  BY <1>24, <1>1 DEF Record, Goto, staging, memory, flags, host, endings, memos,
      Undone, Control, Late, Early, Rolling
<1>25. CASE FinalSync
  BY <1>25, <1>1 DEF FinalSync, Ends, staging, memory, flags, host, Goto, memos,
      Undone, Control, Late, Early, Rolling
<1>26. CASE Red
  BY <1>26, <1>1 DEF Red, memos, memory, flags, host, records, endings, Undone,
      Control, Late, Early, Rolling
<1>27. CASE SyncInterrupted
  BY <1>27, <1>1 DEF SyncInterrupted, Fault, Unsynced, staging, memory, flags,
      host, memos, Undone, Control, Late, Early, Rolling
<1>28. CASE RestoreProvider
  BY <1>28, <1>1, ProviderMoves DEF Control, Undone, Late, Early, Rolling
<1>29. CASE StopUnits
  BY <1>29, <1>1 DEF StopUnits, Goto, staging, memory, flags, records, endings,
      memos, Undone, Control, Late, Early, Rolling
<1>30. CASE RestoreUnits
  <2>1. production' \in Hosts /\ snapshot' \in Hosts
    BY <1>30, <1>1, <1>2, PuttingBack
  <2>2. ASSUME pc' = "judge", attempt \notin ignored' PROVE production' = snapshot
    <3>1. pc = "restate" /\ attempt \notin ignored
      BY <1>30, <1>1, <2>2, PuttingBack
    <3>2. AsSnapshot /\ production.units = snapshot.units
      BY <1>1, <3>1 DEF RollingHolds
    <3>3. /\ production'.current = snapshot.current /\ production'.by = snapshot.by
          /\ production'.units = snapshot.units
      BY <1>30, <1>1, <3>1, <3>2, PuttingBack DEF AsSnapshot
    <3>4. production'.triggers = snapshot.triggers /\ production'.api = snapshot.api
      BY <1>30, <1>1, <2>2, <3>1, PuttingBack
    <3> QED BY <1>2, <2>1, <3>3, <3>4 DEF Hosts
  <2>3. /\ pc' \in {"relink", "restate", "judge"}
        /\ UNCHANGED <<snapshot, outcome, attempt>>
    BY <1>30, <1>1, PuttingBack
  <2> QED BY <2>2, <2>3 DEF Undone, Early
<1>31. CASE Judge
  BY <1>31, <1>1 DEF Judge, staging, memory, flags, host, memos, Undone, Control,
      Late, Early, Rolling
<1>32. CASE Exit
  BY <1>32, <1>1 DEF Exit, CleanupReturns, Report, Goto, Fault, NotCleaned,
      memory, host, records, CleanedBlind, Cleaned, Undone, Control, Late, Early,
      Rolling
<1>33. CASE Kill
  <2>1. production' \in HalfPutBack /\ pc # "idle" /\ pc' = "idle" /\ kills' # 0
    BY <1>33, <1>1 DEF Kill, Control
  <2>2. /\ promoted' = FALSE /\ injected' = FALSE /\ outcome' = "killed"
        /\ UNCHANGED <<mode, rel, attempt, snapshot, ignored, receipts, events>>
    BY <1>33 DEF Kill, memory, records
  <2> QED BY <2>1, <2>2 DEF Undone, Early
<1>34. CASE ClearMarker
  BY <1>34, <1>1 DEF ClearMarker, staging, memory, flags, records, endings, memos,
      Undone, Control, Late, Early, Rolling
<1>35. CASE Finalize
  BY <1>35, <1>1 DEF Finalize, staging, memory, flags, host, endings, memos,
      Undone, Control, Late, Early, Rolling
<1> QED BY <1>3, <1>4, <1>5, <1>6, <1>7, <1>8, <1>9, <1>10, <1>11, <1>12, <1>13,
    <1>14, <1>15, <1>16, <1>17, <1>18, <1>19, <1>20, <1>21, <1>22, <1>23, <1>24,
    <1>25, <1>26, <1>27, <1>28, <1>29, <1>30, <1>31, <1>32, <1>33, <1>34, <1>35
    DEF Next, Attempt, Undo

\* What staging leaves is removed, or is where a cleanup looks for it.
LEMMA StagingStep ==
  ASSUME IInv, Next
  PROVE  StagingHolds'
<1>1. TypeOK /\ Control /\ StagingHolds BY DEF IInv
<1>2. /\ staged \in [Releases -> SUBSET Resources]
      /\ {directory, unit, resources} \subseteq BOOLEAN
  BY <1>1 DEF TypeOK, StagingOK
<1>3. pc # "idle" => rel \in Releases
  BY <1>1 DEF Control
<1>4. pc = "idle" => ~injected
  BY <1>1 DEF TypeOK
<1>5. CASE Begin
  BY <1>5, <1>1, <1>2, <1>3, <1>4, GatesAssumption DEF Begin, Goto, staging,
      flags, host, records, memos, StagingHolds, Unseen, Control, Past, Creating,
      Late, Early, Rolling
<1>6. CASE Clear
  BY <1>6, <1>1, <1>2, <1>3, <1>4, GatesAssumption, Cleaning, NotCleaning DEF
      Clear, memos, Goto, Fault, memory, flags, host, records, StagingHolds,
      Unseen, Control, Past, Creating, Late, Early, Rolling
<1>7. CASE StageDirectory
  BY <1>7, <1>1, <1>2, <1>3, <1>4, GatesAssumption DEF StageDirectory, Goto,
      MakeDirectory, memory, flags, host, records, endings, memos, StagingHolds,
      Unseen, Control, Past, Creating, Late, Early, Rolling
<1>8. CASE StageResource
  BY <1>8, <1>1, <1>2, <1>3, <1>4, GatesAssumption DEF StageResource, Goto,
      Create, memory, flags, host, records, endings, memos, StagingHolds, Unseen,
      Control, Past, Creating, Late, Early, Rolling
<1>9. CASE StageUndone
  BY <1>9, <1>1, <1>2, <1>3, <1>4, GatesAssumption, Cleaning, NotCleaning DEF
      StageUndone, memos, Fault, CreateSteps, memory, flags, host, records,
      StagingHolds, Unseen, Control, Past, Creating, Late, Early, Rolling
<1>10. CASE StageCreated
  BY <1>10, <1>1, <1>2, <1>3, <1>4, GatesAssumption DEF StageCreated, memos, Goto,
      memory, flags, host, records, endings, StagingHolds, Unseen, Control, Past,
      Creating, Late, Early, Rolling
<1>11. CASE StageRelease
  BY <1>11, <1>1, <1>2, <1>3, <1>4, GatesAssumption DEF StageRelease, memos, Goto,
      memory, flags, host, records, endings, StagingHolds, Unseen, Control, Past,
      Creating, Late, Early, Rolling
<1>12. CASE CleanStaging
  BY <1>12, <1>1, <1>2, <1>3, <1>4, GatesAssumption, Cleaning, NotCleaning DEF
      CleanStaging, memos, Goto, Fault, memory, flags, host, records,
      StagingHolds, Unseen, Control, Past, Creating, Late, Early, Rolling
<1>13. CASE RehearseStaging
  BY <1>13, <1>1, <1>2, <1>3, <1>4, GatesAssumption DEF RehearseStaging, Ends,
      staging, memory, flags, host, Goto, memos, StagingHolds, Unseen, Control,
      Past, Creating, Late, Early, Rolling
<1>14. CASE Smoked
  BY <1>14, <1>1, <1>2, <1>3, <1>4, GatesAssumption DEF Smoked, Goto, Ends,
      staging, memory, flags, host, memos, StagingHolds, Unseen, Control, Past,
      Creating, Late, Early, Rolling
<1>15. CASE PassGate
  BY <1>15, <1>1, <1>2, <1>3, <1>4, GatesAssumption DEF PassGate, Goto,
      RequireGate, staging, memory, flags, host, records, endings, memos,
      StagingHolds, Unseen, Control, Past, Creating, Late, Early, Rolling
<1>16. CASE Provision
  BY <1>16, <1>1, <1>2, <1>3, <1>4, GatesAssumption DEF Provision, Goto, staging,
      memory, flags, host, endings, memos, StagingHolds, Unseen, Control, Past,
      Creating, Late, Early, Rolling
<1>17. CASE Compatible
  BY <1>17, <1>1, <1>2, <1>3, <1>4, GatesAssumption DEF Compatible, Goto, staging,
      memory, flags, host, endings, memos, StagingHolds, Unseen, Control, Past,
      Creating, Late, Early, Rolling
<1>18. CASE Install
  BY <1>18, <1>1, <1>2, <1>3, <1>4, GatesAssumption DEF Install, Goto, staging,
      memory, records, endings, memos, StagingHolds, Unseen, Control, Past,
      Creating, Late, Early, Rolling
<1>19. CASE CopyUnits
  BY <1>19, <1>1, <1>2, <1>3, <1>4, GatesAssumption DEF CopyUnits, Goto, staging,
      memory, flags, records, endings, memos, StagingHolds, Unseen, Control, Past,
      Creating, Late, Early, Rolling
<1>20. CASE Link
  BY <1>20, <1>1, <1>2, <1>3, <1>4, GatesAssumption DEF Link, Goto, staging,
      memory, records, endings, memos, StagingHolds, Unseen, Control, Past,
      Creating, Late, Early, Rolling
<1>21. CASE RestartApi
  BY <1>21, <1>1, <1>2, <1>3, <1>4, GatesAssumption DEF RestartApi, Goto, staging,
      memory, flags, records, endings, memos, StagingHolds, Unseen, Control, Past,
      Creating, Late, Early, Rolling
<1>22. CASE ProductionProofs
  BY <1>22, <1>1, <1>2, <1>3, <1>4, GatesAssumption DEF ProductionProofs, Goto,
      staging, memory, flags, host, endings, memos, StagingHolds, Unseen, Control,
      Past, Creating, Late, Early, Rolling
<1>23. CASE ProofsSynced
  BY <1>23, <1>1, <1>2, <1>3, <1>4, GatesAssumption DEF ProofsSynced, Goto, Ends,
      staging, memory, flags, host, memos, StagingHolds, Unseen, Control, Past,
      Creating, Late, Early, Rolling
<1>24. CASE CutOver
  BY <1>24, <1>1, <1>2, <1>3, <1>4, GatesAssumption DEF CutOver, Goto, staging,
      memory, records, endings, memos, StagingHolds, Unseen, Control, Past,
      Creating, Late, Early, Rolling
<1>25. CASE Activate
  BY <1>25, <1>1, <1>2, <1>3, <1>4, GatesAssumption DEF Activate, Goto, staging,
      memory, flags, records, endings, memos, StagingHolds, Unseen, Control, Past,
      Creating, Late, Early, Rolling
<1>26. CASE Record
  BY <1>26, <1>1, <1>2, <1>3, <1>4, GatesAssumption DEF Record, Goto, staging,
      memory, flags, host, endings, memos, StagingHolds, Unseen, Control, Past,
      Creating, Late, Early, Rolling
<1>27. CASE FinalSync
  BY <1>27, <1>1, <1>2, <1>3, <1>4, GatesAssumption DEF FinalSync, Ends, staging,
      memory, flags, host, Goto, memos, StagingHolds, Unseen, Control, Past,
      Creating, Late, Early, Rolling
<1>28. CASE Red
  BY <1>28, <1>1, <1>2, <1>3, <1>4, GatesAssumption DEF Red, memos, memory, flags,
      host, records, endings, StagingHolds, Unseen, Control, Past, Creating, Late,
      Early, Rolling
<1>29. CASE SyncInterrupted
  BY <1>29, <1>1, <1>2, <1>3, <1>4, GatesAssumption DEF SyncInterrupted, Fault,
      Unsynced, staging, memory, flags, host, memos, StagingHolds, Unseen,
      Control, Past, Creating, Late, Early, Rolling
<1>30. CASE RestoreProvider
  BY <1>30, <1>1, ProviderMoves, <1>2, <1>3 DEF Control, StagingHolds, Unseen, Past,
      Creating, Late, Rolling
<1>31. CASE StopUnits
  BY <1>31, <1>1, <1>2, <1>3, <1>4, GatesAssumption DEF StopUnits, Goto, staging,
      memory, flags, records, endings, memos, StagingHolds, Unseen, Control, Past,
      Creating, Late, Early, Rolling
<1>32. CASE RestoreUnits
  BY <1>32, <1>1, <1>2, <1>3, PuttingBack DEF StagingHolds, Unseen, Control, Past,
      Creating, Late, Rolling
<1>33. CASE Judge
  BY <1>33, <1>1, <1>2, <1>3, <1>4, GatesAssumption DEF Judge, staging, memory,
      flags, host, memos, StagingHolds, Unseen, Control, Past, Creating, Late,
      Early, Rolling
<1>34. CASE Exit
  <2>1. /\ pc = "exit" /\ pc' = "idle" /\ ~unit' /\ ~resources' /\ ~injected'
        /\ UNCHANGED <<rel, outcome>>
    BY <1>34 DEF Exit, Goto, memory
  <2>2. CASE ~resources /\ UNCHANGED <<staged, directory, overlooked>> /\ Report
    BY <1>1, <1>2, <1>3, <2>1, <2>2
    DEF Report, StagingHolds, Unseen, Past, Creating, Late
  <2>3. CASE resources /\ CleanupReturns
    BY <1>1, <1>3, <2>1, <2>3, Cleaning DEF StagingHolds, Unseen, Past, Creating, Late
  <2>4. CASE resources /\ NotCleaned(rel) /\ UNCHANGED overlooked /\ Report
    <3>1. directory' /\ reported' = reported \cup {rel}
      BY <1>1, <1>3, <2>1, <2>4, NotCleaning DEF Report, StagingHolds
    <3> QED BY <1>1, <1>3, <2>1, <2>4, <3>1, NotCleaning
      DEF StagingHolds, Unseen, Past, Creating, Late
  <2> QED BY <1>34, <2>2, <2>3, <2>4 DEF Exit
<1>35. CASE Kill
  BY <1>35, <1>1, <1>2, <1>3, <1>4, GatesAssumption DEF Kill, memory, records,
      StagingHolds, Unseen, Control, Past, Creating, Late, Early, Rolling
<1>36. CASE ClearMarker
  BY <1>36, <1>1, <1>2, <1>3, <1>4, GatesAssumption DEF ClearMarker, staging,
      memory, flags, records, endings, memos, StagingHolds, Unseen, Control, Past,
      Creating, Late, Early, Rolling
<1>37. CASE Finalize
  BY <1>37, <1>1, <1>2, <1>3, <1>4, GatesAssumption DEF Finalize, staging, memory,
      flags, host, endings, memos, StagingHolds, Unseen, Control, Past, Creating,
      Late, Early, Rolling
<1> QED BY <1>5, <1>6, <1>7, <1>8, <1>9, <1>10, <1>11, <1>12, <1>13, <1>14, <1>15,
    <1>16, <1>17, <1>18, <1>19, <1>20, <1>21, <1>22, <1>23, <1>24, <1>25, <1>26,
    <1>27, <1>28, <1>29, <1>30, <1>31, <1>32, <1>33, <1>34, <1>35, <1>36, <1>37
    DEF Next, Attempt, Undo

\* The closing receipts of an attempt follow copies of all it proved.
LEMMA ChainStep ==
  ASSUME IInv, Next
  PROVE  ChainHolds'
<1>1. TypeOK /\ Control /\ ChainHolds BY DEF IInv
<1>2. Grown BY RecordsGrow
<1>3. /\ attempt \in Nat /\ attempt' \in Nat
      /\ \A r \in Releases, g \in GateNames :
           /\ receipts[r][g] \in Nat /\ receipts'[r][g] \in Nat
           /\ events[r][g] \in Nat /\ events'[r][g] \in Nat
  BY <1>2, <1>1, GatesAssumption DEF Grown, TypeOK, Files
<1>4. pc # "idle" => rel \in Releases /\ attempt \in 1 .. MaxAttempts
  BY <1>1, <1>2, <1>3 DEF Control, Grown
<1>5. Proven \subseteq GateNames /\ Closing \subseteq GateNames
  BY Names DEF Proven, Closing
<1>6. \A r \in Releases, g \in Closing, h \in Proven : receipts[r][g] <= events'[r][h]
  BY <1>1, <1>2, <1>3, <1>5 DEF ChainHolds, Grown
<1>7. CASE Begin
  BY <1>7, <1>1, <1>3, <1>4, <1>5, <1>6 DEF Begin, Goto, staging, flags, host,
      records, memos, ChainHolds, Control, Proven, Closing
<1>8. CASE Clear
  BY <1>8, <1>1, <1>3, <1>4, <1>5, <1>6 DEF Clear, CleanupReturns, memos, Goto,
      Fault, NotCleaned, memory, flags, host, records, CleanedBlind, Cleaned,
      ChainHolds, Control, Proven, Closing
<1>9. CASE StageDirectory
  BY <1>9, <1>1, <1>3, <1>4, <1>5, <1>6 DEF StageDirectory, Goto, MakeDirectory,
      memory, flags, host, records, endings, memos, ChainHolds, Control, Proven,
      Closing
<1>10. CASE StageResource
  BY <1>10, <1>1, <1>3, <1>4, <1>5, <1>6 DEF StageResource, Goto, Create, memory,
      flags, host, records, endings, memos, ChainHolds, Control, Proven, Closing
<1>11. CASE StageUndone
  BY <1>11, <1>1, <1>3, <1>4, <1>5, <1>6 DEF StageUndone, CleanupReturns, memos,
      Fault, NotCleaned, CreateSteps, memory, flags, host, records, CleanedBlind,
      Cleaned, ChainHolds, Control, Proven, Closing
<1>12. CASE StageCreated
  BY <1>12, <1>1, <1>3, <1>4, <1>5, <1>6 DEF StageCreated, memos, Goto, memory,
      flags, host, records, endings, ChainHolds, Control, Proven, Closing
<1>13. CASE StageRelease
  BY <1>13, <1>1, <1>3, <1>4, <1>5, <1>6 DEF StageRelease, memos, Goto, memory,
      flags, host, records, endings, ChainHolds, Control, Proven, Closing
<1>14. CASE CleanStaging
  BY <1>14, <1>1, <1>3, <1>4, <1>5, <1>6 DEF CleanStaging, CleanupReturns, memos,
      Goto, Fault, NotCleaned, memory, flags, host, records, CleanedBlind,
      Cleaned, ChainHolds, Control, Proven, Closing
<1>15. CASE RehearseStaging
  BY <1>15, <1>1, <1>3, <1>4, <1>5, <1>6, FileWrites DEF RehearseStaging, Ends,
      staging, memory, flags, host, Goto, memos, ChainHolds, Control, Proven,
      Closing
<1>16. CASE Smoked
  BY <1>16, <1>1, <1>3, <1>4, <1>5, <1>6, FileWrites DEF Smoked, Goto, Ends,
      staging, memory, flags, host, memos, ChainHolds, Control, Proven, Closing
<1>17. CASE PassGate
  BY <1>17, <1>1, <1>3, <1>4, <1>5, <1>6 DEF PassGate, Goto, RequireGate, staging,
      memory, flags, host, records, endings, memos, ChainHolds, Control, Proven,
      Closing
<1>18. CASE Provision
  BY <1>18, <1>1, <1>3, <1>4, <1>5, <1>6, SyncWrites DEF Provision, Goto, staging,
      memory, flags, host, endings, memos, ChainHolds, Control, Proven, Closing
<1>19. CASE Compatible
  BY <1>19, <1>1, <1>3, <1>4, <1>5, <1>6, FileWrites DEF Compatible, Goto,
      staging, memory, flags, host, endings, memos, ChainHolds, Control, Proven,
      Closing
<1>20. CASE Install
  BY <1>20, <1>1, <1>3, <1>4, <1>5, <1>6 DEF Install, Goto, staging, memory,
      records, endings, memos, ChainHolds, Control, Proven, Closing
<1>21. CASE CopyUnits
  BY <1>21, <1>1, <1>3, <1>4, <1>5, <1>6 DEF CopyUnits, Goto, staging, memory,
      flags, records, endings, memos, ChainHolds, Control, Proven, Closing
<1>22. CASE Link
  BY <1>22, <1>1, <1>3, <1>4, <1>5, <1>6 DEF Link, Goto, staging, memory, records,
      endings, memos, ChainHolds, Control, Proven, Closing
<1>23. CASE RestartApi
  BY <1>23, <1>1, <1>3, <1>4, <1>5, <1>6 DEF RestartApi, Goto, staging, memory,
      flags, records, endings, memos, ChainHolds, Control, Proven, Closing
<1>24. CASE ProductionProofs
  BY <1>24, <1>1, <1>3, <1>4, <1>5, <1>6, FileWrites DEF ProductionProofs, Goto,
      staging, memory, flags, host, endings, memos, ChainHolds, Control, Proven,
      Closing
<1>25. CASE ProofsSynced
  <2>1. /\ pc = "sync" /\ pc' \in {"exit", "cutover"} /\ Sync(GateNames)
        /\ UNCHANGED <<receipts, mode, rel, attempt>>
    BY <1>25 DEF ProofsSynced, Ends, Goto, memory
  <2>2. mode = "deploy"
    BY <2>1, <1>1 DEF Control, Deploying
  <2>3. \A h \in Proven : receipts[rel][h] = attempt
    BY <2>1, <2>2, <1>1 DEF ChainHolds, Proven
  <2>4. \A h \in Proven : events'[rel][h] = attempt
    BY <2>1, <2>3, <1>1, <1>4, <1>5, SyncWrites
  <2> QED BY <2>1, <2>4, <1>6 DEF ChainHolds
<1>26. CASE CutOver
  BY <1>26, <1>1, <1>3, <1>4, <1>5, <1>6 DEF CutOver, Goto, staging, memory,
      records, endings, memos, ChainHolds, Control, Proven, Closing
<1>27. CASE Activate
  BY <1>27, <1>1, <1>3, <1>4, <1>5, <1>6 DEF Activate, Goto, staging, memory,
      flags, records, endings, memos, ChainHolds, Control, Proven, Closing
<1>28. CASE Record
  BY <1>28, <1>1, <1>3, <1>4, <1>5, <1>6, FileWrites DEF Record, Goto, staging,
      memory, flags, host, endings, memos, ChainHolds, Control, Proven, Closing
<1>29. CASE FinalSync
  BY <1>29, <1>1, <1>3, <1>4, <1>5, <1>6, SyncWrites DEF FinalSync, Ends, staging,
      memory, flags, host, Goto, memos, ChainHolds, Control, Proven, Closing
<1>30. CASE Red
  BY <1>30, <1>1, <1>3, <1>4, <1>5, <1>6 DEF Red, memos, memory, flags, host,
      records, endings, ChainHolds, Control, Proven, Closing
<1>31. CASE SyncInterrupted
  BY <1>31, <1>1, <1>3, <1>4, <1>5, <1>6, SyncWrites DEF SyncInterrupted, Fault,
      Unsynced, staging, memory, flags, host, memos, ChainHolds, Control, Proven,
      Closing
<1>32. CASE RestoreProvider
  BY <1>32, <1>1, ProviderMoves, <1>6 DEF Control, ChainHolds
<1>33. CASE StopUnits
  BY <1>33, <1>1, <1>3, <1>4, <1>5, <1>6 DEF StopUnits, Goto, staging, memory,
      flags, records, endings, memos, ChainHolds, Control, Proven, Closing
<1>34. CASE RestoreUnits
  BY <1>34, <1>1, <1>3, <1>4, <1>5, <1>6 DEF RestoreUnits, Goto, Fault, staging,
      memory, records, memos, ChainHolds, Control, Proven, Closing
<1>35. CASE Judge
  BY <1>35, <1>1, <1>3, <1>4, <1>5, <1>6, FileWrites DEF Judge, staging, memory,
      flags, host, memos, ChainHolds, Control, Proven, Closing
<1>36. CASE Exit
  BY <1>36, <1>1, <1>3, <1>4, <1>5, <1>6 DEF Exit, CleanupReturns, Report, Goto,
      Fault, NotCleaned, memory, host, records, CleanedBlind, Cleaned, ChainHolds,
      Control, Proven, Closing
<1>37. CASE Kill
  BY <1>37, <1>1, <1>3, <1>4, <1>5, <1>6 DEF Kill, memory, records, ChainHolds,
      Control, Proven, Closing
<1>38. CASE ClearMarker
  BY <1>38, <1>1, <1>3, <1>4, <1>5, <1>6 DEF ClearMarker, staging, memory, flags,
      records, endings, memos, ChainHolds, Control, Proven, Closing
<1>39. CASE Finalize
  BY <1>39, <1>1, <1>3, <1>4, <1>5, <1>6 DEF Finalize, staging, memory, flags,
      host, endings, memos, ChainHolds, Control, Proven, Closing
<1> QED BY <1>7, <1>8, <1>9, <1>10, <1>11, <1>12, <1>13, <1>14, <1>15, <1>16,
    <1>17, <1>18, <1>19, <1>20, <1>21, <1>22, <1>23, <1>24, <1>25, <1>26, <1>27,
    <1>28, <1>29, <1>30, <1>31, <1>32, <1>33, <1>34, <1>35, <1>36, <1>37, <1>38,
    <1>39 DEF Next, Attempt, Undo

\* Triggers are started once the proofs of the attempt are copied.
LEMMA TriggersStep ==
  ASSUME IInv, Next
  PROVE  TriggersHold'
<1>1. TypeOK /\ Control /\ RollingHolds /\ ChainHolds /\ TriggersHold BY DEF IInv
<1>2. Grown BY RecordsGrow
<1>3. \A r \in Releases : /\ events[r]["staging_smoke"] \in Nat
                          /\ events'[r]["staging_smoke"] \in Nat
                          /\ events[r]["staging_smoke"] <= events'[r]["staging_smoke"]
  BY <1>1, <1>2, Names, GatesAssumption DEF Grown, TypeOK, Files
<1>4. production \in Hosts /\ snapshot \in Hosts /\ MaxAttempts \in Nat
  BY <1>1, GatesAssumption DEF TypeOK
<1>5. pc # "idle" => rel \in Releases
  BY <1>1 DEF Control
<1>6. CASE Begin
  BY <1>6, <1>1, <1>3, <1>4, <1>5 DEF Begin, Goto, staging, flags, host, records,
      memos, TriggersHold, Hosts, Installed
<1>7. CASE Clear
  BY <1>7, <1>1, <1>3, <1>4, <1>5 DEF Clear, CleanupReturns, memos, Goto, Fault,
      NotCleaned, memory, flags, host, records, CleanedBlind, Cleaned,
      TriggersHold, Hosts, Installed
<1>8. CASE StageDirectory
  BY <1>8, <1>1, <1>3, <1>4, <1>5 DEF StageDirectory, Goto, MakeDirectory, memory,
      flags, host, records, endings, memos, TriggersHold, Hosts, Installed
<1>9. CASE StageResource
  BY <1>9, <1>1, <1>3, <1>4, <1>5 DEF StageResource, Goto, Create, memory, flags,
      host, records, endings, memos, TriggersHold, Hosts, Installed
<1>10. CASE StageUndone
  BY <1>10, <1>1, <1>3, <1>4, <1>5 DEF StageUndone, CleanupReturns, memos, Fault,
      NotCleaned, CreateSteps, memory, flags, host, records, CleanedBlind,
      Cleaned, TriggersHold, Hosts, Installed
<1>11. CASE StageCreated
  BY <1>11, <1>1, <1>3, <1>4, <1>5 DEF StageCreated, memos, Goto, memory, flags,
      host, records, endings, TriggersHold, Hosts, Installed
<1>12. CASE StageRelease
  BY <1>12, <1>1, <1>3, <1>4, <1>5 DEF StageRelease, memos, Goto, memory, flags,
      host, records, endings, TriggersHold, Hosts, Installed
<1>13. CASE CleanStaging
  BY <1>13, <1>1, <1>3, <1>4, <1>5 DEF CleanStaging, CleanupReturns, memos, Goto,
      Fault, NotCleaned, memory, flags, host, records, CleanedBlind, Cleaned,
      TriggersHold, Hosts, Installed
<1>14. CASE RehearseStaging
  BY <1>14, <1>1, <1>3, <1>4, <1>5 DEF RehearseStaging, Ends, staging, memory,
      flags, host, Goto, memos, TriggersHold, Hosts, Installed
<1>15. CASE Smoked
  BY <1>15, <1>1, <1>3, <1>4, <1>5 DEF Smoked, Goto, Ends, staging, memory, flags,
      host, memos, TriggersHold, Hosts, Installed
<1>16. CASE PassGate
  BY <1>16, <1>1, <1>3, <1>4, <1>5 DEF PassGate, Goto, RequireGate, staging,
      memory, flags, host, records, endings, memos, TriggersHold, Hosts, Installed
<1>17. CASE Provision
  BY <1>17, <1>1, <1>3, <1>4, <1>5 DEF Provision, Goto, staging, memory, flags,
      host, endings, memos, TriggersHold, Hosts, Installed
<1>18. CASE Compatible
  BY <1>18, <1>1, <1>3, <1>4, <1>5 DEF Compatible, Goto, staging, memory, flags,
      host, endings, memos, TriggersHold, Hosts, Installed
<1>19. CASE Install
  BY <1>19, <1>1, <1>3, <1>4, <1>5 DEF Install, Goto, staging, memory, records,
      endings, memos, TriggersHold, Hosts, Installed
<1>20. CASE CopyUnits
  BY <1>20, <1>1, <1>3, <1>4, <1>5 DEF CopyUnits, Goto, staging, memory, flags,
      records, endings, memos, TriggersHold, Hosts, Installed
<1>21. CASE Link
  BY <1>21, <1>1, <1>3, <1>4, <1>5 DEF Link, Goto, staging, memory, records,
      endings, memos, TriggersHold, Hosts, Installed
<1>22. CASE RestartApi
  BY <1>22, <1>1, <1>3, <1>4, <1>5 DEF RestartApi, Goto, staging, memory, flags,
      records, endings, memos, TriggersHold, Hosts, Installed
<1>23. CASE ProductionProofs
  BY <1>23, <1>1, <1>3, <1>4, <1>5 DEF ProductionProofs, Goto, staging, memory,
      flags, host, endings, memos, TriggersHold, Hosts, Installed
<1>24. CASE ProofsSynced
  BY <1>24, <1>1, <1>3, <1>4, <1>5 DEF ProofsSynced, Goto, Ends, staging, memory,
      flags, host, memos, TriggersHold, Hosts, Installed
<1>25. CASE CutOver
  BY <1>25, <1>1, <1>3, <1>4, <1>5 DEF CutOver, Goto, staging, memory, records,
      endings, memos, TriggersHold, Hosts, Installed
<1>26. CASE Activate
  <2>1. events[rel]["staging_smoke"] = attempt
    BY <1>26, <1>1 DEF Activate, Goto, ChainHolds, Proven
  <2> QED BY <1>26, <2>1, <1>1, <1>3, <1>4, <1>5
    DEF Activate, Goto, memory, records, endings, TriggersHold, Hosts, Installed
<1>27. CASE Record
  BY <1>27, <1>1, <1>3, <1>4, <1>5 DEF Record, Goto, staging, memory, flags, host,
      endings, memos, TriggersHold, Hosts, Installed
<1>28. CASE FinalSync
  BY <1>28, <1>1, <1>3, <1>4, <1>5 DEF FinalSync, Ends, staging, memory, flags,
      host, Goto, memos, TriggersHold, Hosts, Installed
<1>29. CASE Red
  BY <1>29, <1>1, <1>3, <1>4, <1>5 DEF Red, memos, memory, flags, host, records,
      endings, TriggersHold, Hosts, Installed
<1>30. CASE SyncInterrupted
  BY <1>30, <1>1, <1>3, <1>4, <1>5 DEF SyncInterrupted, Fault, Unsynced, staging,
      memory, flags, host, memos, TriggersHold, Hosts, Installed
<1>31. CASE RestoreProvider
  BY <1>31, <1>1, ProviderMoves, <1>3, <1>4 DEF TriggersHold, Installed
<1>32. CASE StopUnits
  BY <1>32, <1>1, <1>3, <1>4, <1>5 DEF StopUnits, Goto, staging, memory, flags,
      records, endings, memos, TriggersHold, Hosts, Installed
<1>33. CASE RestoreUnits
  <2>1. pc' \in {"relink", "restate", "judge"}
    BY <1>33, <1>1, PuttingBack
  <2>2. UNCHANGED <<snapshot, events, attempt>> /\ \A n \in ignored : n \in ignored'
    BY <1>33, <1>1, PuttingBack
  <2>3. CASE pc # "restate"
    <3>1. ~production'.triggers
      BY <1>33, <1>1, <2>3, PuttingBack DEF RollingHolds, Rolling
    <3> QED BY <1>1, <1>3, <2>1, <2>2, <3>1 DEF TriggersHold, Installed
  <2>4. CASE pc = "restate"
    <3>1. /\ production'.triggers => snapshot.triggers
          /\ production'.current = production.current /\ production'.by = production.by
      BY <1>33, <1>1, <2>4, PuttingBack
    <3>2. AsSnapshot \/ production.by \in ignored
      BY <1>1, <2>4 DEF RollingHolds
    <3> QED BY <1>1, <1>3, <1>4, <2>1, <2>2, <3>1, <3>2
      DEF TriggersHold, Installed, AsSnapshot, Hosts
  <2> QED BY <2>3, <2>4
<1>34. CASE Judge
  BY <1>34, <1>1, <1>3, <1>4, <1>5 DEF Judge, staging, memory, flags, host, memos,
      TriggersHold, Hosts, Installed
<1>35. CASE Exit
  BY <1>35, <1>1, <1>3, <1>4, <1>5 DEF Exit, CleanupReturns, Report, Goto, Fault,
      NotCleaned, memory, host, records, CleanedBlind, Cleaned, TriggersHold,
      Hosts, Installed
<1>36. CASE Kill
  <2>1. production' \in HalfPutBack /\ pc # "idle" /\ pc' = "idle" /\ kills' # 0
    BY <1>36, <1>1 DEF Kill, Control
  <2>2. /\ promoted' = FALSE /\ injected' = FALSE /\ outcome' = "killed"
        /\ UNCHANGED <<mode, rel, attempt, snapshot, ignored, receipts, events>>
    BY <1>36 DEF Kill, memory, records
  <2>3. \/ ~production'.triggers
        \/ production'.triggers = snapshot.triggers /\ AsSnapshot
           /\ UNCHANGED <<production.current, production.by>>
        \/ production'.by \in ignored
        \/ UNCHANGED <<production.triggers, production.current, production.by>>
    BY <1>1, <1>4, <2>1, Halves DEF RollingHolds, AsSnapshot, Rolling
  <2> QED BY <1>1, <1>3, <1>4, <2>1, <2>2, <2>3
    DEF TriggersHold, Installed, AsSnapshot
<1>37. CASE ClearMarker
  BY <1>37, <1>1, <1>3, <1>4, <1>5 DEF ClearMarker, staging, memory, flags,
      records, endings, memos, TriggersHold, Hosts, Installed
<1>38. CASE Finalize
  BY <1>38, <1>1, <1>3, <1>4, <1>5 DEF Finalize, staging, memory, flags, host,
      endings, memos, TriggersHold, Hosts, Installed
<1> QED BY <1>6, <1>7, <1>8, <1>9, <1>10, <1>11, <1>12, <1>13, <1>14, <1>15,
    <1>16, <1>17, <1>18, <1>19, <1>20, <1>21, <1>22, <1>23, <1>24, <1>25, <1>26,
    <1>27, <1>28, <1>29, <1>30, <1>31, <1>32, <1>33, <1>34, <1>35, <1>36, <1>37,
    <1>38 DEF Next, Attempt, Undo

\* The flags of an attempt and of its host, and what else it remembers.
Flags ==
  /\ directory \in BOOLEAN /\ unit \in BOOLEAN /\ resources \in BOOLEAN
  /\ skip \in BOOLEAN /\ promoted \in BOOLEAN /\ injected \in BOOLEAN
  /\ mutated \in BOOLEAN /\ legacy \in BOOLEAN /\ marker \in BOOLEAN
Attempts ==
  /\ mode \in Modes /\ rel \in Releases \cup {None} /\ attempt \in 0 .. MaxAttempts
  /\ production \in Hosts /\ snapshot \in Hosts
  /\ ignored \subseteq 1 .. MaxAttempts
  /\ outcome \in {"none", "green", "rehearsed", "red", "recovery", "killed"}
Memos == reported \subseteq Releases /\ overlooked \subseteq Releases

\* Every variable keeps its type, and a copy is no later than its receipt.
LEMMA TypesStep ==
  ASSUME IInv, Next
  PROVE  TypeOK'
<1>1. TypeOK /\ Control BY DEF IInv
<1>2. /\ receipts' \in Files /\ events' \in Files
      /\ \A r \in Releases, g \in GateNames : events'[r][g] <= receipts'[r][g]
  BY RecordsGrow DEF Grown
<1>3. pc # "idle" => rel \in Releases
  BY <1>1 DEF Control
<1>4. staged \in [Releases -> SUBSET Resources]
  BY <1>1 DEF TypeOK, StagingOK
<1>5. Flags
  BY <1>1 DEF TypeOK, StagingOK, Flags
<1>6. Attempts /\ Memos
  BY <1>1 DEF TypeOK, StagingOK, Attempts, Memos
<1>7. CASE Begin
  <2>1. staged' \in [Releases -> SUBSET Resources]
    BY <1>7, <1>3, <1>4 DEF Begin, Goto, staging, flags, host, records, memos,
        Resources
  <2>2. Flags'
    BY <1>7, <1>5 DEF Begin, Goto, staging, flags, host, records, memos, Flags
  <2>3. Attempts'
    BY <1>7, <1>6, GatesAssumption DEF Attempts, Hosts, Begin, Goto, staging, flags,
        host, records, memos
  <2>5. Memos'
    BY <1>7, <1>3, <1>6 DEF Memos, Begin, Goto, staging, flags, host, records, memos
  <2>4. pc' = "idle" => ~promoted' /\ ~mutated' /\ ~injected' /\ ~resources'
    BY <1>7, <1>1 DEF TypeOK, Begin, Goto, staging, flags, host, records, memos
  <2> QED BY <2>1, <2>2, <2>3, <2>4, <2>5, <1>2
    DEF TypeOK, StagingOK, Flags, Attempts, Memos
<1>8. CASE Clear
  <2>1. staged' \in [Releases -> SUBSET Resources]
    BY <1>8, <1>3, <1>4 DEF Clear, CleanupReturns, memos, Goto, Fault, NotCleaned,
        memory, flags, host, records, CleanedBlind, Cleaned, Resources
  <2>2. Flags'
    BY <1>8, <1>5 DEF Clear, CleanupReturns, memos, Goto, Fault, NotCleaned, memory,
        flags, host, records, CleanedBlind, Cleaned, Flags
  <2>3. Attempts'
    BY <1>8, <1>6, GatesAssumption DEF Attempts, Hosts, Clear, CleanupReturns, memos,
        Goto, Fault, NotCleaned, memory, flags, host, records, CleanedBlind,
        Cleaned
  <2>5. Memos'
    BY <1>8, <1>3, <1>6 DEF Memos, Clear, CleanupReturns, memos, Goto, Fault,
        NotCleaned, memory, flags, host, records, CleanedBlind, Cleaned
  <2>4. pc' = "idle" => ~promoted' /\ ~mutated' /\ ~injected' /\ ~resources'
    BY <1>8, <1>1 DEF TypeOK, Clear, CleanupReturns, memos, Goto, Fault, NotCleaned,
        memory, flags, host, records, CleanedBlind, Cleaned
  <2> QED BY <2>1, <2>2, <2>3, <2>4, <2>5, <1>2
    DEF TypeOK, StagingOK, Flags, Attempts, Memos
<1>9. CASE StageDirectory
  <2>1. staged' \in [Releases -> SUBSET Resources]
    BY <1>9, <1>3, <1>4 DEF StageDirectory, Goto, MakeDirectory, memory, flags, host,
        records, endings, memos, Resources
  <2>2. Flags'
    BY <1>9, <1>5 DEF StageDirectory, Goto, MakeDirectory, memory, flags, host,
        records, endings, memos, Flags
  <2>3. Attempts'
    BY <1>9, <1>6, GatesAssumption DEF Attempts, Hosts, StageDirectory, Goto,
        MakeDirectory, memory, flags, host, records, endings, memos
  <2>5. Memos'
    BY <1>9, <1>3, <1>6 DEF Memos, StageDirectory, Goto, MakeDirectory, memory,
        flags, host, records, endings, memos
  <2>4. pc' = "idle" => ~promoted' /\ ~mutated' /\ ~injected' /\ ~resources'
    BY <1>9, <1>1 DEF TypeOK, StageDirectory, Goto, MakeDirectory, memory, flags,
        host, records, endings, memos
  <2> QED BY <2>1, <2>2, <2>3, <2>4, <2>5, <1>2
    DEF TypeOK, StagingOK, Flags, Attempts, Memos
<1>10. CASE StageResource
  <2>1. staged' \in [Releases -> SUBSET Resources]
    BY <1>10, <1>3, <1>4 DEF StageResource, Goto, Create, memory, flags, host,
        records, endings, memos, Resources
  <2>2. Flags'
    BY <1>10, <1>5 DEF StageResource, Goto, Create, memory, flags, host, records,
        endings, memos, Flags
  <2>3. Attempts'
    BY <1>10, <1>6, GatesAssumption DEF Attempts, Hosts, StageResource, Goto, Create,
        memory, flags, host, records, endings, memos
  <2>5. Memos'
    BY <1>10, <1>3, <1>6 DEF Memos, StageResource, Goto, Create, memory, flags, host,
        records, endings, memos
  <2>4. pc' = "idle" => ~promoted' /\ ~mutated' /\ ~injected' /\ ~resources'
    BY <1>10, <1>1 DEF TypeOK, StageResource, Goto, Create, memory, flags, host,
        records, endings, memos
  <2> QED BY <2>1, <2>2, <2>3, <2>4, <2>5, <1>2
    DEF TypeOK, StagingOK, Flags, Attempts, Memos
<1>11. CASE StageUndone
  <2>1. staged' \in [Releases -> SUBSET Resources]
    BY <1>11, <1>3, <1>4 DEF StageUndone, CleanupReturns, memos, Fault, NotCleaned,
        CreateSteps, memory, flags, host, records, CleanedBlind, Cleaned,
        Resources
  <2>2. Flags'
    BY <1>11, <1>5 DEF StageUndone, CleanupReturns, memos, Fault, NotCleaned,
        CreateSteps, memory, flags, host, records, CleanedBlind, Cleaned, Flags
  <2>3. Attempts'
    BY <1>11, <1>6, GatesAssumption DEF Attempts, Hosts, StageUndone, CleanupReturns,
        memos, Fault, NotCleaned, CreateSteps, memory, flags, host, records,
        CleanedBlind, Cleaned
  <2>5. Memos'
    BY <1>11, <1>3, <1>6 DEF Memos, StageUndone, CleanupReturns, memos, Fault,
        NotCleaned, CreateSteps, memory, flags, host, records, CleanedBlind,
        Cleaned
  <2>4. pc' = "idle" => ~promoted' /\ ~mutated' /\ ~injected' /\ ~resources'
    BY <1>11, <1>1 DEF TypeOK, StageUndone, CleanupReturns, memos, Fault, NotCleaned,
        CreateSteps, memory, flags, host, records, CleanedBlind, Cleaned
  <2> QED BY <2>1, <2>2, <2>3, <2>4, <2>5, <1>2
    DEF TypeOK, StagingOK, Flags, Attempts, Memos
<1>12. CASE StageCreated
  <2>1. staged' \in [Releases -> SUBSET Resources]
    BY <1>12, <1>3, <1>4 DEF StageCreated, memos, Goto, memory, flags, host, records,
        endings, Resources
  <2>2. Flags'
    BY <1>12, <1>5 DEF StageCreated, memos, Goto, memory, flags, host, records,
        endings, Flags
  <2>3. Attempts'
    BY <1>12, <1>6, GatesAssumption DEF Attempts, Hosts, StageCreated, memos, Goto,
        memory, flags, host, records, endings
  <2>5. Memos'
    BY <1>12, <1>3, <1>6 DEF Memos, StageCreated, memos, Goto, memory, flags, host,
        records, endings
  <2>4. pc' = "idle" => ~promoted' /\ ~mutated' /\ ~injected' /\ ~resources'
    BY <1>12, <1>1 DEF TypeOK, StageCreated, memos, Goto, memory, flags, host,
        records, endings
  <2> QED BY <2>1, <2>2, <2>3, <2>4, <2>5, <1>2
    DEF TypeOK, StagingOK, Flags, Attempts, Memos
<1>13. CASE StageRelease
  <2>1. staged' \in [Releases -> SUBSET Resources]
    BY <1>13, <1>3, <1>4 DEF StageRelease, memos, Goto, memory, flags, host, records,
        endings, Resources
  <2>2. Flags'
    BY <1>13, <1>5 DEF StageRelease, memos, Goto, memory, flags, host, records,
        endings, Flags
  <2>3. Attempts'
    BY <1>13, <1>6, GatesAssumption DEF Attempts, Hosts, StageRelease, memos, Goto,
        memory, flags, host, records, endings
  <2>5. Memos'
    BY <1>13, <1>3, <1>6 DEF Memos, StageRelease, memos, Goto, memory, flags, host,
        records, endings
  <2>4. pc' = "idle" => ~promoted' /\ ~mutated' /\ ~injected' /\ ~resources'
    BY <1>13, <1>1 DEF TypeOK, StageRelease, memos, Goto, memory, flags, host,
        records, endings
  <2> QED BY <2>1, <2>2, <2>3, <2>4, <2>5, <1>2
    DEF TypeOK, StagingOK, Flags, Attempts, Memos
<1>14. CASE CleanStaging
  <2>1. staged' \in [Releases -> SUBSET Resources]
    BY <1>14, <1>3, <1>4 DEF CleanStaging, CleanupReturns, memos, Goto, Fault,
        NotCleaned, memory, flags, host, records, CleanedBlind, Cleaned, Resources
  <2>2. Flags'
    BY <1>14, <1>5 DEF CleanStaging, CleanupReturns, memos, Goto, Fault, NotCleaned,
        memory, flags, host, records, CleanedBlind, Cleaned, Flags
  <2>3. Attempts'
    BY <1>14, <1>6, GatesAssumption DEF Attempts, Hosts, CleanStaging, CleanupReturns,
        memos, Goto, Fault, NotCleaned, memory, flags, host, records,
        CleanedBlind, Cleaned
  <2>5. Memos'
    BY <1>14, <1>3, <1>6 DEF Memos, CleanStaging, CleanupReturns, memos, Goto, Fault,
        NotCleaned, memory, flags, host, records, CleanedBlind, Cleaned
  <2>4. pc' = "idle" => ~promoted' /\ ~mutated' /\ ~injected' /\ ~resources'
    BY <1>14, <1>1 DEF TypeOK, CleanStaging, CleanupReturns, memos, Goto, Fault,
        NotCleaned, memory, flags, host, records, CleanedBlind, Cleaned
  <2> QED BY <2>1, <2>2, <2>3, <2>4, <2>5, <1>2
    DEF TypeOK, StagingOK, Flags, Attempts, Memos
<1>15. CASE RehearseStaging
  BY <1>15, <1>1, <1>2, <1>3, GatesAssumption DEF RehearseStaging, Ends, staging,
      memory, flags, host, Goto, memos, TypeOK, StagingOK, Hosts
<1>16. CASE Smoked
  BY <1>16, <1>1, <1>2, <1>3, GatesAssumption DEF Smoked, Goto, Ends, staging,
      memory, flags, host, memos, TypeOK, StagingOK, Hosts
<1>17. CASE PassGate
  BY <1>17, <1>1, <1>2, <1>3, GatesAssumption DEF PassGate, Goto, RequireGate,
      staging, memory, flags, host, records, endings, memos, TypeOK, StagingOK,
      Hosts
<1>18. CASE Provision
  BY <1>18, <1>1, <1>2, <1>3, GatesAssumption DEF Provision, Goto, staging,
      memory, flags, host, endings, memos, TypeOK, StagingOK, Hosts
<1>19. CASE Compatible
  BY <1>19, <1>1, <1>2, <1>3, GatesAssumption DEF Compatible, Goto, staging,
      memory, flags, host, endings, memos, TypeOK, StagingOK, Hosts
<1>20. CASE Install
  BY <1>20, <1>1, <1>2, <1>3, GatesAssumption DEF Install, Goto, staging, memory,
      records, endings, memos, TypeOK, StagingOK, Hosts
<1>21. CASE CopyUnits
  BY <1>21, <1>1, <1>2, <1>3, GatesAssumption DEF CopyUnits, Goto, staging,
      memory, flags, records, endings, memos, TypeOK, StagingOK, Hosts
<1>22. CASE Link
  BY <1>22, <1>1, <1>2, <1>3, GatesAssumption DEF Link, Goto, staging, memory,
      records, endings, memos, TypeOK, StagingOK, Hosts
<1>23. CASE RestartApi
  BY <1>23, <1>1, <1>2, <1>3, GatesAssumption DEF RestartApi, Goto, staging,
      memory, flags, records, endings, memos, TypeOK, StagingOK, Hosts
<1>24. CASE ProductionProofs
  BY <1>24, <1>1, <1>2, <1>3, GatesAssumption DEF ProductionProofs, Goto, staging,
      memory, flags, host, endings, memos, TypeOK, StagingOK, Hosts
<1>25. CASE ProofsSynced
  BY <1>25, <1>1, <1>2, <1>3, GatesAssumption DEF ProofsSynced, Goto, Ends,
      staging, memory, flags, host, memos, TypeOK, StagingOK, Hosts
<1>26. CASE CutOver
  <2>1. staged' \in [Releases -> SUBSET Resources]
    BY <1>26, <1>3, <1>4 DEF CutOver, Goto, staging, memory, records, endings, memos,
        Resources
  <2>2. Flags'
    BY <1>26, <1>5 DEF CutOver, Goto, staging, memory, records, endings, memos, Flags
  <2>3. Attempts'
    BY <1>26, <1>6, GatesAssumption DEF Attempts, Hosts, CutOver, Goto, staging,
        memory, records, endings, memos
  <2>5. Memos'
    BY <1>26, <1>3, <1>6 DEF Memos, CutOver, Goto, staging, memory, records, endings,
        memos
  <2>4. pc' = "idle" => ~promoted' /\ ~mutated' /\ ~injected' /\ ~resources'
    BY <1>26, <1>1 DEF TypeOK, CutOver, Goto, staging, memory, records, endings, memos
  <2> QED BY <2>1, <2>2, <2>3, <2>4, <2>5, <1>2
    DEF TypeOK, StagingOK, Flags, Attempts, Memos
<1>27. CASE Activate
  BY <1>27, <1>1, <1>2, <1>3, GatesAssumption DEF Activate, Goto, staging, memory,
      flags, records, endings, memos, TypeOK, StagingOK, Hosts
<1>28. CASE Record
  BY <1>28, <1>1, <1>2, <1>3, GatesAssumption DEF Record, Goto, staging, memory,
      flags, host, endings, memos, TypeOK, StagingOK, Hosts
<1>29. CASE FinalSync
  BY <1>29, <1>1, <1>2, <1>3, GatesAssumption DEF FinalSync, Ends, staging,
      memory, flags, host, Goto, memos, TypeOK, StagingOK, Hosts
<1>30. CASE Red
  <2>1. staged' \in [Releases -> SUBSET Resources]
    BY <1>30, <1>3, <1>4 DEF Red, memos, memory, flags, host, records, endings,
        Resources
  <2>2. Flags'
    BY <1>30, <1>5 DEF Red, memos, memory, flags, host, records, endings, Flags
  <2>3. Attempts'
    BY <1>30, <1>6, GatesAssumption DEF Attempts, Hosts, Red, memos, memory, flags,
        host, records, endings
  <2>5. Memos'
    BY <1>30, <1>3, <1>6 DEF Memos, Red, memos, memory, flags, host, records, endings
  <2>4. pc' = "idle" => ~promoted' /\ ~mutated' /\ ~injected' /\ ~resources'
    BY <1>30, <1>1 DEF TypeOK, Red, memos, memory, flags, host, records, endings
  <2> QED BY <2>1, <2>2, <2>3, <2>4, <2>5, <1>2
    DEF TypeOK, StagingOK, Flags, Attempts, Memos
<1>31. CASE SyncInterrupted
  BY <1>31, <1>1, <1>2, <1>3, GatesAssumption DEF SyncInterrupted, Fault,
      Unsynced, staging, memory, flags, host, memos, TypeOK, StagingOK, Hosts
<1>32. CASE RestoreProvider
  <2>1. staged' \in [Releases -> SUBSET Resources]
    BY <1>32, <1>3, <1>4, ProviderMoves
  <2>2. Flags'
    BY <1>32, <1>5 DEF RestoreProvider, Ends, Fault, staging, memory, records, Goto,
        memos, Flags
  <2>3. Attempts'
    BY <1>32, <1>6, GatesAssumption, ProviderMoves DEF Attempts, Hosts
  <2>5. Memos'
    BY <1>32, <1>3, <1>6, ProviderMoves DEF Memos
  <2>4. pc' = "idle" => ~promoted' /\ ~mutated' /\ ~injected' /\ ~resources'
    BY <1>32, <1>1, ProviderMoves DEF TypeOK
  <2> QED BY <2>1, <2>2, <2>3, <2>4, <2>5, <1>2
    DEF TypeOK, StagingOK, Flags, Attempts, Memos
<1>33. CASE StopUnits
  <2>1. staged' \in [Releases -> SUBSET Resources]
    BY <1>33, <1>3, <1>4 DEF StopUnits, Goto, staging, memory, flags, records,
        endings, memos, Resources
  <2>2. Flags'
    BY <1>33, <1>5 DEF StopUnits, Goto, staging, memory, flags, records, endings,
        memos, Flags
  <2>3. Attempts'
    BY <1>33, <1>6, GatesAssumption DEF Attempts, Hosts, StopUnits, Goto, staging,
        memory, flags, records, endings, memos
  <2>5. Memos'
    BY <1>33, <1>3, <1>6 DEF Memos, StopUnits, Goto, staging, memory, flags, records,
        endings, memos
  <2>4. pc' = "idle" => ~promoted' /\ ~mutated' /\ ~injected' /\ ~resources'
    BY <1>33, <1>1 DEF TypeOK, StopUnits, Goto, staging, memory, flags, records,
        endings, memos
  <2> QED BY <2>1, <2>2, <2>3, <2>4, <2>5, <1>2
    DEF TypeOK, StagingOK, Flags, Attempts, Memos
<1>34. CASE RestoreUnits
  <2>1. staged' \in [Releases -> SUBSET Resources]
    BY <1>34, <1>3, <1>4 DEF RestoreUnits, Goto, Fault, staging, memory, records,
        memos, Resources
  <2>2. Flags'
    BY <1>34, <1>5 DEF RestoreUnits, Goto, Fault, staging, memory, records, memos,
        Flags
  <2>3. Attempts'
    BY <1>34, <1>1, <1>3, <1>6, PuttingBack, GatesAssumption
      DEF Attempts, Control
  <2>5. Memos'
    BY <1>34, <1>3, <1>6 DEF Memos, RestoreUnits, Goto, Fault, staging, memory,
        records, memos
  <2>4. pc' = "idle" => ~promoted' /\ ~mutated' /\ ~injected' /\ ~resources'
    BY <1>34, <1>1 DEF TypeOK, RestoreUnits, Goto, Fault, staging, memory, records,
        memos
  <2> QED BY <2>1, <2>2, <2>3, <2>4, <2>5, <1>2
    DEF TypeOK, StagingOK, Flags, Attempts, Memos
<1>35. CASE Judge
  BY <1>35, <1>1, <1>2, <1>3, GatesAssumption DEF Judge, staging, memory, flags,
      host, memos, TypeOK, StagingOK, Hosts
<1>36. CASE Exit
  <2>1. staged' \in [Releases -> SUBSET Resources]
    BY <1>36, <1>3, <1>4 DEF Exit, CleanupReturns, Report, Goto, Fault, NotCleaned,
        memory, host, records, CleanedBlind, Cleaned, Resources
  <2>2. Flags'
    BY <1>36, <1>5 DEF Exit, CleanupReturns, Report, Goto, Fault, NotCleaned, memory,
        host, records, CleanedBlind, Cleaned, Flags
  <2>3. Attempts'
    BY <1>36, <1>6, GatesAssumption DEF Attempts, Hosts, Exit, CleanupReturns, Report,
        Goto, Fault, NotCleaned, memory, host, records, CleanedBlind, Cleaned
  <2>5. Memos'
    BY <1>36, <1>3, <1>6 DEF Memos, Exit, CleanupReturns, Report, Goto, Fault,
        NotCleaned, memory, host, records, CleanedBlind, Cleaned
  <2>4. pc' = "idle" => ~promoted' /\ ~mutated' /\ ~injected' /\ ~resources'
    BY <1>36, <1>1 DEF TypeOK, Exit, CleanupReturns, Report, Goto, Fault, NotCleaned,
        memory, host, records, CleanedBlind, Cleaned
  <2> QED BY <2>1, <2>2, <2>3, <2>4, <2>5, <1>2
    DEF TypeOK, StagingOK, Flags, Attempts, Memos
<1>37. CASE Kill
  <2>1. staged' \in [Releases -> SUBSET Resources]
    BY <1>37, <1>3, <1>4 DEF Kill, memory, records, Resources
  <2>2. Flags'
    BY <1>37, <1>5 DEF Kill, memory, records, Flags
  <2>3. Attempts'
    BY <1>37, <1>1, <1>6, Halves DEF Attempts, Kill, memory
  <2>5. Memos'
    BY <1>37, <1>3, <1>6 DEF Memos, Kill, memory, records
  <2>4. pc' = "idle" => ~promoted' /\ ~mutated' /\ ~injected' /\ ~resources'
    BY <1>37, <1>1 DEF TypeOK, Kill, memory, records
  <2> QED BY <2>1, <2>2, <2>3, <2>4, <2>5, <1>2
    DEF TypeOK, StagingOK, Flags, Attempts, Memos
<1>38. CASE ClearMarker
  <2>1. staged' \in [Releases -> SUBSET Resources]
    BY <1>38, <1>3, <1>4 DEF ClearMarker, staging, memory, flags, records, endings,
        memos, Resources
  <2>2. Flags'
    BY <1>38, <1>5 DEF ClearMarker, staging, memory, flags, records, endings, memos,
        Flags
  <2>3. Attempts'
    BY <1>38, <1>6, GatesAssumption DEF Attempts, Hosts, ClearMarker, staging, memory,
        flags, records, endings, memos
  <2>5. Memos'
    BY <1>38, <1>3, <1>6 DEF Memos, ClearMarker, staging, memory, flags, records,
        endings, memos
  <2>4. pc' = "idle" => ~promoted' /\ ~mutated' /\ ~injected' /\ ~resources'
    BY <1>38, <1>1 DEF TypeOK, ClearMarker, staging, memory, flags, records, endings,
        memos
  <2> QED BY <2>1, <2>2, <2>3, <2>4, <2>5, <1>2
    DEF TypeOK, StagingOK, Flags, Attempts, Memos
<1>39. CASE Finalize
  BY <1>39, <1>1, <1>2, <1>3, GatesAssumption DEF Finalize, staging, memory,
      flags, host, endings, memos, TypeOK, StagingOK, Hosts
<1> QED BY <1>7, <1>8, <1>9, <1>10, <1>11, <1>12, <1>13, <1>14, <1>15, <1>16,
    <1>17, <1>18, <1>19, <1>20, <1>21, <1>22, <1>23, <1>24, <1>25, <1>26, <1>27,
    <1>28, <1>29, <1>30, <1>31, <1>32, <1>33, <1>34, <1>35, <1>36, <1>37, <1>38,
    <1>39 DEF Next, Attempt, Undo

-----------------------------------------------------------------------------
(* The theorems.                                                           *)

\* The invariant holds before the first attempt.
LEMMA InitHolds == Init => IInv
<1> SUFFICES ASSUME Init PROVE IInv
  OBVIOUS
<1>1. /\ production \in Hosts /\ snapshot \in Hosts
      /\ attempt = 0 /\ 0 \in 0 .. MaxAttempts
  BY GatesAssumption DEF Init, Hosts
<1>2. /\ receipts \in Files /\ events \in Files
      /\ \A r \in Releases, g \in GateNames : events[r][g] <= receipts[r][g]
  BY GatesAssumption DEF Init, Files
<1>3. TypeOK
  BY <1>1, <1>2 DEF Init, StagingInit, TypeOK, StagingOK, Modes
<1>4. Control
  BY DEF Init, Control, Pcs, Early, Late, Rolling, Deploying
<1>5. Standing /\ RollingHolds /\ Undone
  BY DEF Init, Standing, RollingHolds, Rolling, Undone, Late, Early
<1>6. StagingHolds
  BY DEF Init, StagingInit, StagingHolds, Past, Creating, Rolling, Late
<1>7. ChainHolds
  BY Names DEF Init, ChainHolds, Proven, Closing
<1>8. TriggersHold
  BY DEF Init, TriggersHold, Installed
<1> QED BY <1>3, <1>4, <1>5, <1>6, <1>7, <1>8 DEF IInv

\* No step, and no stutter, breaks it.
LEMMA Inductive == IInv /\ [Next]_vars => IInv'
<1> SUFFICES ASSUME IInv, [Next]_vars PROVE IInv'
  OBVIOUS
<1>1. CASE Next
  BY <1>1, TypesStep, ControlStep, StandingStep, RollingStep, UndoneStep,
     StagingStep, ChainStep, TriggersStep DEF IInv
<1>2. CASE UNCHANGED vars
  <2>1. TypeOK'
    BY <1>2 DEF IInv, TypeOK, StagingOK, vars, staging, memos, memory, flags, host,
       records, endings
  <2>2. Control' /\ Undone'
    BY <1>2 DEF IInv, Control, Undone, vars, memory, flags, host, records, endings
  <2>3. Standing' /\ RollingHolds'
    BY <1>2 DEF IInv, Standing, RollingHolds, AsSnapshot, Rehearsed, vars, memory,
       flags, host, records, endings
  <2>4. StagingHolds'
    BY <1>2 DEF IInv, StagingHolds, Unseen, vars, staging, memos, memory, flags,
       endings
  <2>5. ChainHolds' /\ TriggersHold'
    BY <1>2 DEF IInv, ChainHolds, TriggersHold, vars, memory, host, records, endings
  <2> QED BY <2>1, <2>2, <2>3, <2>4, <2>5 DEF IInv
<1> QED BY <1>1, <1>2

\* The invariant of every behaviour of the deployments.
LEMMA AlwaysIInv == Spec => []IInv
BY InitHolds, Inductive, PTL DEF Spec

\* For any releases and any number of attempts, kills and faults, every variable
\* keeps its type and no receipt is in the database that is not on disk.
THEOREM TypeCorrect == Spec => []TypeOK
<1>1. IInv => TypeOK
  BY DEF IInv
<1> QED BY <1>1, AlwaysIInv, PTL

\* An attempt that ends as a green rehearsal leaves production as it found it, and so
\* does one that ends red with a rollback in which no command failed, whatever was
\* killed or failed elsewhere (rollback_local, verify_production_snapshot).
THEOREM RedUndone == Spec => []RedIsUndone
<1>1. IInv => RedIsUndone
  BY DEF IInv, Undone, RedIsUndone
<1> QED BY <1>1, AlwaysIInv, PTL

\* Where nothing was killed, what stands between attempts was rehearsed in both ways,
\* or a failing rollback left it in place (require_gate, rollback_local).
THEOREM StandingRehearsed == Spec => []StandingIsRehearsed
<1>1. IInv => StandingIsRehearsed
  BY DEF IInv, Standing, Rehearsed, Rollbacks, StandingIsRehearsed
<1> QED BY <1>1, AlwaysIInv, PTL

\* A green attempt leaves nothing of its release's staging, and no release has any
\* left that was not reported, but where a kill or a MinIO that did not answer hid it
\* (cleanup_staging_resources, _staging_cleanup).
THEOREM StagingIsRemoved == Spec => []StagingRemoved
<1>1. IInv => StagingRemoved
  BY DEF IInv, TypeOK, StagingHolds, StagingRemoved
<1> QED BY <1>1, AlwaysIInv, PTL

\* The position of a gate in the sequence.
LEMMA Ranks ==
  /\ Rank("forced_staging_rollback") = 1 /\ Rank("staging_smoke") = 2
  /\ Rank("forced_production_rollback") = 3
<1>1. /\ DOMAIN Gates = 1 .. 8
      /\ Gates[1] = "forced_staging_rollback" /\ Gates[2] = "staging_smoke"
      /\ Gates[3] = "forced_production_rollback"
      /\ Gates[4] = "provisioning_compatibility" /\ Gates[5] = "production_smoke"
      /\ Gates[6] = "scheduler_proof" /\ Gates[7] = "trigger_cutover"
      /\ Gates[8] = "active_release"
  BY DEF Gates
<1>2. ASSUME NEW gate, NEW n \in 1 .. 3, Gates[n] = gate PROVE Rank(gate) = n
  <2>1. \A i \in DOMAIN Gates : Gates[i] = gate => i = n
    BY <1>1, <1>2
  <2>2. n \in DOMAIN Gates
    BY <1>1
  <2> QED BY <2>1, <2>2, <1>2 DEF Rank
<1> QED BY <1>1, <1>2

\* Two gates in order have their copies in order of attempts.
LEMMA InOrder ==
  ASSUME NEW r, NEW g, NEW h, Before(r, g, h),
         events[r][g] \in Nat, events[r][h] \in Nat
  PROVE  events[r][g] <= events[r][h]
BY DEF Before

\* The registry row is written on the receipts of one attempt, and what runs is no
\* later than that attempt unless a failing rollback left it (finalize_migration.sql).
THEOREM OneAttempt == Spec => FinalizedByOneAttempt
<1> DEFINE Copied == events[production.current]
           Step == catalog' # catalog =>
                     LET copied == events[production.current]
                         last == copied["active_release"]
                     IN  /\ \A g \in GateNames : Rank(g) > 3 => copied[g] = last
                         /\ copied["staging_smoke"] = last
                         /\ production.by <= last \/ production.by \in ignored
<1>1. ASSUME IInv, Finalize PROVE Step
  <2> DEFINE r == production.current
  <2>1. r \in Releases /\ production.triggers /\ Ordered(r)
    BY <1>1 DEF Finalize
  <2>2. \A g \in GateNames : events[r][g] \in Nat /\ receipts[r][g] \in Nat
                            /\ events[r][g] <= receipts[r][g]
    BY <1>1, <2>1, GatesAssumption DEF IInv, TypeOK, Files
  <2>3. /\ events[r]["staging_smoke"] <= events[r]["provisioning_compatibility"]
        /\ events[r]["provisioning_compatibility"] <= events[r]["production_smoke"]
        /\ events[r]["production_smoke"] <= events[r]["scheduler_proof"]
        /\ events[r]["scheduler_proof"] <= events[r]["trigger_cutover"]
        /\ events[r]["trigger_cutover"] <= events[r]["active_release"]
    BY <2>1, <2>2, Names, InOrder DEF Ordered
  <2>4. receipts[r]["active_release"] <= events[r]["staging_smoke"]
    BY <1>1, <2>1 DEF IInv, ChainHolds, Closing, Proven
  <2>5. events[r]["staging_smoke"] = events[r]["active_release"]
    BY <2>2, <2>3, <2>4, Names
  <2>6. \A g \in {"provisioning_compatibility", "production_smoke", "scheduler_proof",
                  "trigger_cutover", "active_release"} :
          events[r][g] = events[r]["active_release"]
    BY <2>2, <2>3, <2>5, Names
  <2>7. \A g \in GateNames : Rank(g) > 3 =>
          g \in {"provisioning_compatibility", "production_smoke", "scheduler_proof",
                 "trigger_cutover", "active_release"}
    BY Names, Ranks
  <2>8. production.by <= events[r]["staging_smoke"] \/ production.by \in ignored
    BY <1>1, <2>1 DEF IInv, TriggersHold
  <2> QED BY <2>5, <2>6, <2>7, <2>8
<1>2. ASSUME IInv, Next, ~Finalize PROVE catalog' = catalog
  BY <1>2, ProviderMoves DEF Next, Attempt, Undo, Begin, Clear, StageDirectory,
      StageResource, StageUndone, StageCreated, StageRelease, CleanStaging,
      RehearseStaging, Smoked, PassGate, Provision, Compatible, Install,
      CopyUnits, Link, RestartApi, ProductionProofs, ProofsSynced, CutOver,
      Activate, Record, FinalSync, Red, SyncInterrupted, StopUnits, RestoreUnits,
      Judge, Exit, Kill, ClearMarker, records
<1>3. IInv /\ [Next]_vars => [Step]_vars
  BY <1>1, <1>2 DEF vars, records
<1> QED BY <1>3, AlwaysIInv, PTL DEF Spec, FinalizedByOneAttempt

=============================================================================
