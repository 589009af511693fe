------------------------ MODULE ReleaseCutoverProofs ------------------------
(***************************************************************************)
(* Theorems about ReleaseCutover, for any backlog and any number of faults *)
(* and kills.                                                              *)
(***************************************************************************)
EXTENDS ReleaseCutover, TLAPS

-----------------------------------------------------------------------------
(* The inductive invariant.                                                *)

SavingSteps == {"flush", "save_content", "save_meta"}
RestoreSteps == {"restore", "content", "consumer", "poll", "publish", "verify"}

\* the steps at which the tool may have asked for a change
Changing == {"quarantine", "close_edge", "detach", "content", "consumer", "publish",
             "verify"}

\* How far the two backups are at each step before the first mutation; they are
\* complete as long as anything that was asked for may still happen.
BackupsKept ==
  /\ at = "flush" => backup = "partial"
  /\ at \in {"save_content", "save_meta"} => backup = "good"
  /\ at = "save_meta" => contentBackup = "partial"
  /\ at \in Guarded \cup Changing \cup {"poll"} => Restoreable
  /\ \A c \in Changes : late[c] > 0 => Restoreable

\* The id that disable read is that of a consumer.
TargetHeld == target => consumers > 0

\* Disable only starts with a consumer, detaches it from a drained queue of a
\* silenced Worker, and restore ends with one, unless what was given up on lands.
ConsumerKept ==
  /\ at \in SavingSteps /\ then = "quarantine" => consumers > 0 \/ "detach" \in landed
  /\ at \in Guarded \cup {"publish", "verify"} => consumers > 0 \/ "detach" \in landed
  /\ at \in {"poll", "publish", "verify"} =>
       content = "legacy" \/ "quarantine" \in landed
  /\ at = "detach" /\ content = "quarantined" =>
       (backlog = 0 /\ ~invoked) \/ "quarantine" \in landed
  /\ consumers <= 1 \/ "attach" \in landed

\* Which steps of the tool each step of the script waits for, and what follows.
ScriptControl ==
  /\ deploy # "idle" => ~marker
  /\ at \in SavingSteps => then \in {"exit", "quarantine"}
  /\ deploy = "backup" =>
       /\ at \in {"idle", "backup"} \cup SavingSteps
       /\ at # "idle" => then = "exit"
  /\ deploy = "disable" =>
       /\ at \in SavingSteps => then = "quarantine"
       /\ at \in RestoreSteps => then \in {"recheck", "raise"}
       /\ at # "backup"
  /\ deploy = "restore" \/ (deploy = "idle" /\ kills = 0) =>
       /\ at \in {"idle"} \cup RestoreSteps
       /\ at # "idle" => then = "exit"
  /\ deploy = "idle" /\ kills = 0 /\ at # "idle" => marker

InService == consumers = 1 /\ content = "legacy" /\ edge
OutOfService == consumers = 0 /\ content = "quarantined" /\ ~edge

\* On which side the legacy Worker is where the script passes or may stop.
Sides ==
  landed = {} =>
    /\ kills = 0 =>
         /\ deploy = "idle" /\ ~marker => InService \/ OutOfService
         /\ deploy \in {"install", "proofs", "backup", "rollback"} =>
              InService \/ OutOfService
         /\ deploy = "on_error" /\ ~cfMutated => InService \/ OutOfService
    /\ deploy = "disable" /\ at = "idle" /\ result # "failed" => OutOfService
    /\ deploy \in {"activate", "receipts"} => OutOfService
    /\ deploy = "restore" /\ at = "idle" /\ result # "failed" => InService

IInv ==
  /\ TypeOK /\ BackupsKept /\ MutatedIsBackedUp
  /\ TargetHeld /\ ConsumerKept /\ DetachedIsDrained /\ ScriptControl /\ Sides

-----------------------------------------------------------------------------
\* The types of TypeOK, flags apart from the rest.
Flags ==
  /\ edge \in BOOLEAN /\ invoked \in BOOLEAN /\ marker \in BOOLEAN
  /\ cfMutated \in BOOLEAN /\ promoted \in BOOLEAN /\ timer \in BOOLEAN
  /\ prior \in BOOLEAN /\ target \in BOOLEAN
Ranges ==
  /\ consumers \in Nat
  /\ late \in [Changes -> Nat] /\ landed \subseteq Changes /\ faults \in 0 .. MaxFaults
  /\ content \in {"legacy", "quarantined"} /\ backlog \in 0 .. MaxBacklog
  /\ backup \in FileStates /\ contentBackup \in FileStates
  /\ at \in Steps /\ then \in {"exit", "recheck", "raise", "quarantine"}
  /\ result \in {"none", "ok", "already", "failed"}
  /\ deploy \in ScriptSteps /\ kills \in 0 .. MaxKills
  /\ deploy \in {"install", "proofs", "activate", "receipts", "on_error", "rollback"}
       => at = "idle"

-----------------------------------------------------------------------------
\* What is given up on is a change the tool had asked for.
LEMMA GivenUp ==
  ASSUME GiveUp, late \in [Changes -> Nat]
  PROVE  /\ late' \in [Changes -> Nat] /\ landed' = landed
         /\ UNCHANGED late \/ at \in Changing
<1>1. Sent # {} => at \in Changing
  BY DEF Sent, Changing
<1> QED BY <1>1 DEF GiveUp

-----------------------------------------------------------------------------
(* Each step keeps each part.                                              *)

\* Every variable keeps its type.
LEMMA TypesStep ==
  ASSUME IInv, [Next]_vars
  PROVE  TypeOK'
<1>1. TypeOK /\ TargetHeld BY DEF IInv
<1>2. Flags BY <1>1 DEF TypeOK, Flags
<1>3. Ranges /\ TargetHeld
  BY <1>1 DEF TypeOK, Ranges
<1>4. GiveUp => late' \in [Changes -> Nat] /\ landed' = landed
  BY <1>1, GivenUp DEF TypeOK
<1>5. CASE Backup /\ UNCHANGED <<script, kills>>
  BY <1>5, <1>1, <1>4, CutoverAssumption, KillsAssumption DEF Backup, Local,
     SaveBackup, provider, queueing, requests, IsDisabled, Baseline, Raise, files,
     ProducersQuiesced, Finish, Guarded, script, TypeOK, TargetHeld, FileStates,
     Steps, ScriptSteps
<1>6. CASE Flush /\ UNCHANGED <<script, kills>>
  BY <1>6, <1>1, <1>4, CutoverAssumption, KillsAssumption DEF Flush, Goto, Local,
     provider, queueing, requests, script, TypeOK, TargetHeld, FileStates, Steps,
     ScriptSteps
<1>7. CASE SaveContent /\ UNCHANGED <<script, kills>>
  BY <1>7, <1>1, <1>4, CutoverAssumption, KillsAssumption DEF SaveContent, Goto,
     Raise, Local, Saved, Finish, Guarded, provider, queueing, requests, script,
     TypeOK, TargetHeld, FileStates, Steps, ScriptSteps
<1>8. CASE SaveMeta /\ UNCHANGED <<script, kills>>
  BY <1>8, <1>1, <1>4, CutoverAssumption, KillsAssumption DEF SaveMeta, Raise,
     Fault, Saved, provider, queueing, requests, Finish, Guarded, script, TypeOK,
     TargetHeld, FileStates, Steps, ScriptSteps
<1>9. CASE Disable /\ UNCHANGED <<script, kills>>
  <2>1. /\ UNCHANGED <<edge, invoked, marker>>
        /\ UNCHANGED <<cfMutated, promoted, timer, prior>>
    BY <1>9 DEF Disable, IsDisabled, Baseline, RecognizedPartial, Restoreable, Finish,
       Raise, Reading, BeginCutover, ProducersQuiesced, Guarded, Local, files,
       SaveBackup, queueing, provider, requests, script
  <2>2. target' = target \/ target' = TRUE
    BY <1>9 DEF Disable, IsDisabled, Baseline, RecognizedPartial, Restoreable, Finish,
       Raise, Reading, BeginCutover, ProducersQuiesced, Guarded, Local, files,
       SaveBackup, queueing, provider, requests
  <2>3. Flags'
    <3>1. CASE target' = target
      BY <2>1, <3>1, <1>2 DEF Flags
    <3>2. CASE target' = TRUE
      BY <2>1, <3>2, <1>2 DEF Flags
    <3> QED BY <2>2, <3>1, <3>2
  <2>4. /\ UNCHANGED <<consumers, content, backlog, late, faults, deploy, kills>>
        /\ landed' \in {landed, {}} /\ at # "idle"
    BY <1>9 DEF Disable, IsDisabled, Baseline, RecognizedPartial, Restoreable, Finish,
       Raise, Reading, BeginCutover, ProducersQuiesced, Guarded, Local, files,
       SaveBackup, queueing, provider, requests, script
  <2>5. /\ {backup', contentBackup'} \subseteq FileStates \cup {backup, contentBackup}
        /\ at' \in Steps
        /\ then' \in {then, "exit", "quarantine", "recheck", "raise"}
        /\ result' \in {result, "already", "failed"}
    BY <1>9 DEF Disable, IsDisabled, Baseline, RecognizedPartial, Restoreable, Finish,
       Raise, Reading, BeginCutover, ProducersQuiesced, Guarded, Local, files,
       SaveBackup, queueing, provider, requests, FileStates, Steps
  <2>6. Ranges'
    BY <2>4, <2>5, <1>3 DEF Ranges
  <2> QED BY <2>3, <2>6 DEF TypeOK, Flags, Ranges
<1>10. CASE Recheck /\ UNCHANGED <<script, kills>>
  <2>1. /\ UNCHANGED <<edge, invoked, marker>>
        /\ UNCHANGED <<cfMutated, promoted, timer, prior>>
    BY <1>10 DEF Recheck, Baseline, Raise, Reading, BeginCutover, Finish, Guarded,
       Local, files, SaveBackup, queueing, provider, requests, IsDisabled,
       ProducersQuiesced, script
  <2>2. target' = target \/ target' = TRUE
    BY <1>10 DEF Recheck, Baseline, Raise, Reading, BeginCutover, Finish, Guarded,
       Local, files, SaveBackup, queueing, provider, requests, IsDisabled,
       ProducersQuiesced
  <2>3. Flags'
    <3>1. CASE target' = target
      BY <2>1, <3>1, <1>2 DEF Flags
    <3>2. CASE target' = TRUE
      BY <2>1, <3>2, <1>2 DEF Flags
    <3> QED BY <2>2, <3>1, <3>2
  <2>4. /\ UNCHANGED <<consumers, content, backlog, late, faults, deploy, kills>>
        /\ landed' \in {landed, {}} /\ at # "idle"
    BY <1>10 DEF Recheck, Baseline, Raise, Reading, BeginCutover, Finish, Guarded,
       Local, files, SaveBackup, queueing, provider, requests, IsDisabled,
       ProducersQuiesced, script
  <2>5. /\ {backup', contentBackup'} \subseteq FileStates \cup {backup, contentBackup}
        /\ at' \in Steps
        /\ then' \in {then, "exit", "quarantine", "recheck", "raise"}
        /\ result' \in {result, "already", "failed"}
    BY <1>10 DEF Recheck, Baseline, Raise, Reading, BeginCutover, Finish, Guarded,
       Local, files, SaveBackup, queueing, provider, requests, IsDisabled,
       ProducersQuiesced, FileStates, Steps
  <2>6. Ranges'
    BY <2>4, <2>5, <1>3 DEF Ranges
  <2> QED BY <2>3, <2>6 DEF TypeOK, Flags, Ranges
<1>11. CASE Quarantine /\ UNCHANGED <<script, kills>>
  BY <1>11, <1>1, <1>4, CutoverAssumption, KillsAssumption DEF Quarantine, Goto,
     Answer, Quiet, Raise, Fault, queueing, requests, files, Finish, Guarded,
     script, TypeOK, TargetHeld, FileStates, Steps, ScriptSteps
<1>12. CASE CloseEdge /\ UNCHANGED <<script, kills>>
  <2>1. Flags'
    BY <1>12, <1>2 DEF CloseEdge, Answer, Quiet, Goto, Raise, Fault, queueing,
       requests, files, Finish, Guarded, script, Flags
  <2>2. Ranges'
    BY <1>12, <1>3, <1>4, CutoverAssumption, KillsAssumption DEF CloseEdge, Answer,
       Quiet, Goto, Raise, Fault, queueing, requests, files, Finish, Guarded,
       script, Ranges, TargetHeld, Changes, FileStates, Steps, ScriptSteps
  <2> QED BY <2>1, <2>2 DEF TypeOK, Flags, Ranges
<1>13. CASE Drain /\ UNCHANGED <<script, kills>>
  BY <1>13, <1>1, <1>4, CutoverAssumption, KillsAssumption DEF Drain,
     ProducersQuiesced, Goto, Raise, Reading, Drained, Finish, Guarded, Local,
     files, provider, queueing, requests, script, TypeOK, TargetHeld, FileStates,
     Steps, ScriptSteps
<1>14. CASE Detach /\ UNCHANGED <<script, kills>>
  <2>1. Flags'
    BY <1>14, <1>2 DEF Detach, Raise, Answer, DropTarget, queueing, files, Finish,
       Guarded, Goto, Fault, script, Flags
  <2>2. Ranges'
    BY <1>14, <1>3, <1>4, CutoverAssumption, KillsAssumption DEF Detach, Raise, Answer,
       DropTarget, queueing, files, Finish, Guarded, Goto, Fault, script, Ranges,
       TargetHeld, Changes, FileStates, Steps, ScriptSteps
  <2> QED BY <2>1, <2>2 DEF TypeOK, Flags, Ranges
<1>15. CASE After /\ UNCHANGED <<script, kills>>
  BY <1>15, <1>1, <1>4, CutoverAssumption, KillsAssumption DEF After, IsDisabled,
     Finish, Reading, ProducersQuiesced, Local, files, provider, queueing, requests,
     script, TypeOK, TargetHeld, FileStates, Steps, ScriptSteps
<1>16. CASE Restore /\ UNCHANGED <<script, kills>>
  BY <1>16, <1>1, <1>4, CutoverAssumption, KillsAssumption DEF Restore, Restoreable,
     Goto, Raise, Reading, Finish, Guarded, Local, files, provider, queueing,
     requests, script, TypeOK, TargetHeld, FileStates, Steps, ScriptSteps
<1>17. CASE RestoreContent /\ UNCHANGED <<script, kills>>
  BY <1>17, <1>1, <1>4, CutoverAssumption, KillsAssumption DEF RestoreContent, Goto,
     Answer, Quiet, Raise, Fault, queueing, requests, files, Finish, Guarded,
     script, TypeOK, TargetHeld, FileStates, Steps, ScriptSteps
<1>18. CASE PostConsumer /\ UNCHANGED <<script, kills>>
  BY <1>18, <1>1, <1>4, CutoverAssumption, KillsAssumption DEF PostConsumer, Goto,
     Fault, queueing, requests, files, script, TypeOK, TargetHeld, FileStates,
     Steps, ScriptSteps
<1>19. CASE KeepConsumer /\ UNCHANGED <<script, kills>>
  BY <1>19, <1>1, <1>4, CutoverAssumption, KillsAssumption DEF KeepConsumer, Goto,
     Reading, Local, files, provider, queueing, requests, script, TypeOK,
     TargetHeld, FileStates, Steps, ScriptSteps
<1>20. CASE ContentLost /\ UNCHANGED <<script, kills>>
  BY <1>20, <1>1, <1>4, CutoverAssumption, KillsAssumption DEF ContentLost, Raise,
     Reading, Finish, Guarded, Local, files, provider, queueing, requests, script,
     TypeOK, TargetHeld, FileStates, Steps, ScriptSteps
<1>21. CASE PollConsumer /\ UNCHANGED <<script, kills>>
  BY <1>21, <1>1, <1>4, CutoverAssumption, KillsAssumption DEF PollConsumer, Goto,
     Raise, Reading, Finish, Guarded, Local, files, provider, queueing, requests,
     script, TypeOK, TargetHeld, FileStates, Steps, ScriptSteps
<1>22. CASE Publish /\ UNCHANGED <<script, kills>>
  <2>1. Flags'
    BY <1>22, <1>2 DEF Publish, Goto, Answer, Quiet, Raise, Fault, queueing, requests,
       files, Finish, Guarded, script, Flags
  <2>2. Ranges'
    BY <1>22, <1>3, <1>4, CutoverAssumption, KillsAssumption DEF Publish, Goto, Answer,
       Quiet, Raise, Fault, queueing, requests, files, Finish, Guarded, script,
       Ranges, TargetHeld, Changes, FileStates, Steps, ScriptSteps
  <2> QED BY <2>1, <2>2 DEF TypeOK, Flags, Ranges
<1>23. CASE PublishAgain /\ UNCHANGED <<script, kills>>
  <2>1. Flags'
    BY <1>23, <1>2 DEF PublishAgain, Answer, Quiet, Goto, Raise, Fault, queueing,
       requests, files, Finish, Guarded, script, Flags
  <2>2. Ranges'
    BY <1>23, <1>3, <1>4, CutoverAssumption, KillsAssumption DEF PublishAgain, Answer,
       Quiet, Goto, Raise, Fault, queueing, requests, files, Finish, Guarded,
       script, Ranges, TargetHeld, Changes, FileStates, Steps, ScriptSteps
  <2> QED BY <2>1, <2>2 DEF TypeOK, Flags, Ranges
<1>24. CASE Verify /\ UNCHANGED <<script, kills>>
  <2>1. Flags'
    BY <1>24, <1>2 DEF Verify, Finish, Raise, provider, queueing, requests, files,
       Guarded, script, Flags
  <2>2. Ranges'
    BY <1>24, <1>3, <1>4, CutoverAssumption, KillsAssumption DEF Verify, Finish, Raise,
       provider, queueing, requests, files, Guarded, script, Ranges, TargetHeld,
       Changes, FileStates, Steps, ScriptSteps
  <2> QED BY <2>1, <2>2 DEF TypeOK, Flags, Ranges
<1>25. CASE RequestFails /\ UNCHANGED <<script, kills>>
  BY <1>25, <1>1, <1>4, CutoverAssumption, KillsAssumption DEF RequestFails, Raise,
     Fault, provider, queueing, requests, files, Finish, Guarded, script, TypeOK,
     TargetHeld, FileStates, Steps, ScriptSteps
<1>26. CASE Invoke /\ UNCHANGED <<script, kills>>
  <2>1. Flags'
    BY <1>26, <1>2 DEF Invoke, provider, requests, files, control, script, Flags
  <2>2. Ranges'
    BY <1>26, <1>3, <1>4, CutoverAssumption, KillsAssumption DEF Invoke, provider,
       requests, files, control, script, Ranges, TargetHeld, Changes, FileStates,
       Steps, ScriptSteps
  <2> QED BY <2>1, <2>2 DEF TypeOK, Flags, Ranges
<1>27. CASE Produce /\ UNCHANGED <<script, kills>>
  <2>1. Flags'
    BY <1>27, <1>2 DEF Produce, provider, requests, files, control, script, Flags
  <2>2. Ranges'
    BY <1>27, <1>3, <1>4, CutoverAssumption, KillsAssumption DEF Produce, provider,
       requests, files, control, script, Ranges, TargetHeld, Changes, FileStates,
       Steps, ScriptSteps
  <2> QED BY <2>1, <2>2 DEF TypeOK, Flags, Ranges
<1>28. CASE Consume /\ UNCHANGED <<script, kills>>
  BY <1>28, <1>1, <1>4, CutoverAssumption, KillsAssumption DEF Consume, provider,
     requests, files, control, script, TypeOK, TargetHeld, FileStates, Steps,
     ScriptSteps
<1>29. CASE LandModule /\ UNCHANGED <<script, kills>>
  <2>1. Flags'
    BY <1>29, <1>2 DEF LandModule, Lands, queueing, files, control, script, Flags
  <2>2. Ranges'
    BY <1>29, <1>3, <1>4, CutoverAssumption, KillsAssumption DEF LandModule, Lands,
       queueing, files, control, script, Ranges, TargetHeld, Changes, FileStates,
       Steps, ScriptSteps
  <2> QED BY <2>1, <2>2 DEF TypeOK, Flags, Ranges
<1>30. CASE LandEdge /\ UNCHANGED <<script, kills>>
  <2>1. Flags'
    BY <1>30, <1>2 DEF LandEdge, Lands, queueing, files, control, script, Flags
  <2>2. Ranges'
    BY <1>30, <1>3, <1>4, CutoverAssumption, KillsAssumption DEF LandEdge, Lands,
       queueing, files, control, script, Ranges, TargetHeld, Changes, FileStates,
       Steps, ScriptSteps
  <2> QED BY <2>1, <2>2 DEF TypeOK, Flags, Ranges
<1>31. CASE LandAttach /\ UNCHANGED <<script, kills>>
  <2>1. Flags'
    BY <1>31, <1>2 DEF LandAttach, Lands, queueing, files, control, script, Flags
  <2>2. Ranges'
    BY <1>31, <1>3, <1>4, CutoverAssumption, KillsAssumption DEF LandAttach, Lands,
       queueing, files, control, script, Ranges, TargetHeld, Changes, FileStates,
       Steps, ScriptSteps
  <2> QED BY <2>1, <2>2 DEF TypeOK, Flags, Ranges
<1>32. CASE LandDetach /\ UNCHANGED <<script, kills>>
  <2>1. Flags'
    BY <1>32, <1>2 DEF LandDetach, DropTarget, Lands, queueing, files, control, script,
       Flags
  <2>2. Ranges'
    BY <1>32, <1>3, <1>4, CutoverAssumption, KillsAssumption DEF LandDetach,
       DropTarget, Lands, queueing, files, control, script, Ranges, TargetHeld,
       Changes, FileStates, Steps, ScriptSteps
  <2> QED BY <2>1, <2>2 DEF TypeOK, Flags, Ranges
<1>33. CASE Begin
  <2>1. Flags'
    BY <1>33, <1>2 DEF Begin, Ended, Proceed, cutover, provider, queueing, requests,
       files, control, Flags
  <2>2. Ranges'
    BY <1>33, <1>3, <1>4, CutoverAssumption, KillsAssumption DEF Begin, Ended, Proceed,
       cutover, provider, queueing, requests, files, control, Ranges, TargetHeld,
       Changes, FileStates, Steps, ScriptSteps
  <2> QED BY <2>1, <2>2 DEF TypeOK, Flags, Ranges
<1>34. CASE InstallUnits
  <2>1. Flags'
    BY <1>34, <1>2 DEF InstallUnits, Proceed, cutover, provider, queueing, requests,
       files, control, Flags
  <2>2. Ranges'
    BY <1>34, <1>3, <1>4, CutoverAssumption, KillsAssumption DEF InstallUnits, Proceed,
       cutover, provider, queueing, requests, files, control, Ranges, TargetHeld,
       Changes, FileStates, Steps, ScriptSteps
  <2> QED BY <2>1, <2>2 DEF TypeOK, Flags, Ranges
<1>35. CASE Prove
  <2>1. Flags'
    BY <1>35, <1>2 DEF Prove, Start, cutover, Reading, provider, queueing, requests,
       files, control, Local, Flags
  <2>2. Ranges'
    BY <1>35, <1>3, <1>4, CutoverAssumption, KillsAssumption DEF Prove, Start, cutover,
       Reading, provider, queueing, requests, files, control, Local, Ranges,
       TargetHeld, Changes, FileStates, Steps, ScriptSteps
  <2> QED BY <2>1, <2>2 DEF TypeOK, Flags, Ranges
<1>36. CASE BackedUp
  <2>1. Flags'
    BY <1>36, <1>2 DEF BackedUp, Start, Ended, cutover, Reading, provider, queueing,
       requests, files, control, Local, Flags
  <2>2. Ranges'
    BY <1>36, <1>3, <1>4, CutoverAssumption, KillsAssumption DEF BackedUp, Start,
       Ended, cutover, Reading, provider, queueing, requests, files, control, Local,
       Ranges, TargetHeld, Changes, FileStates, Steps, ScriptSteps
  <2> QED BY <2>1, <2>2 DEF TypeOK, Flags, Ranges
<1>37. CASE CutOver
  <2>1. Flags'
    BY <1>37, <1>2 DEF CutOver, Ended, cutover, provider, queueing, requests, files,
       control, Flags
  <2>2. Ranges'
    BY <1>37, <1>3, <1>4, CutoverAssumption, KillsAssumption DEF CutOver, Ended,
       cutover, provider, queueing, requests, files, control, Ranges, TargetHeld,
       Changes, FileStates, Steps, ScriptSteps
  <2> QED BY <2>1, <2>2 DEF TypeOK, Flags, Ranges
<1>38. CASE Activate
  <2>1. Flags'
    BY <1>38, <1>2 DEF Activate, Proceed, cutover, provider, queueing, requests, files,
       control, Flags
  <2>2. Ranges'
    BY <1>38, <1>3, <1>4, CutoverAssumption, KillsAssumption DEF Activate, Proceed,
       cutover, provider, queueing, requests, files, control, Ranges, TargetHeld,
       Changes, FileStates, Steps, ScriptSteps
  <2> QED BY <2>1, <2>2 DEF TypeOK, Flags, Ranges
<1>39. CASE WriteReceipts
  <2>1. Flags'
    BY <1>39, <1>2 DEF WriteReceipts, cutover, provider, queueing, requests, files,
       control, Flags
  <2>2. Ranges'
    BY <1>39, <1>3, <1>4, CutoverAssumption, KillsAssumption DEF WriteReceipts,
       cutover, provider, queueing, requests, files, control, Ranges, TargetHeld,
       Changes, FileStates, Steps, ScriptSteps
  <2> QED BY <2>1, <2>2 DEF TypeOK, Flags, Ranges
<1>40. CASE OnError
  BY <1>40, <1>1, <1>4, CutoverAssumption, KillsAssumption DEF OnError, Start,
     cutover, Reading, provider, queueing, requests, files, control, Local, TypeOK,
     TargetHeld, FileStates, Steps, ScriptSteps
<1>41. CASE Restored
  <2>1. Flags'
    BY <1>41, <1>2
    DEF Restored, Fault, provider, queueing, files, control, cutover, Flags
  <2>2. /\ UNCHANGED <<consumers, content, backlog, backup, contentBackup, at, then>>
        /\ UNCHANGED <<result, late, landed, kills>>
    BY <1>41
    DEF Restored, provider, queueing, requests, files, control, cutover
  <2>3. faults' \in 0 .. MaxFaults
    BY <1>41, <1>3, CutoverAssumption DEF Restored, Fault, cutover, Ranges
  <2>4. deploy' \in {"idle", "rollback"} /\ at = "idle"
    BY <1>41 DEF Restored, Ended
  <2>5. Ranges'
    BY <2>2, <2>3, <2>4, <1>3 DEF Ranges, ScriptSteps
  <2> QED BY <2>1, <2>5 DEF TypeOK, Flags, Ranges
<1>42. CASE RollbackLocal
  <2>1. Flags'
    BY <1>42, <1>2 DEF RollbackLocal, Proceed, cutover, provider, queueing, requests,
       files, control, Flags
  <2>2. Ranges'
    BY <1>42, <1>3, <1>4, CutoverAssumption, KillsAssumption DEF RollbackLocal,
       Proceed, cutover, provider, queueing, requests, files, control, Ranges,
       TargetHeld, Changes, FileStates, Steps, ScriptSteps
  <2> QED BY <2>1, <2>2 DEF TypeOK, Flags, Ranges
<1>43. CASE Recover
  BY <1>43, <1>1, <1>4, CutoverAssumption, KillsAssumption DEF Recover, Start,
     script, Reading, Local, files, provider, queueing, requests, TypeOK,
     TargetHeld, FileStates, Steps, ScriptSteps
<1>44. CASE Retry
  BY <1>44, <1>1, <1>4, CutoverAssumption, KillsAssumption DEF Retry, Start, script,
     Reading, Local, files, provider, queueing, requests, TypeOK, TargetHeld,
     FileStates, Steps, ScriptSteps
<1>45. CASE Kill
  <2>1. Flags'
    BY <1>45, <1>2 DEF Kill, provider, queueing, Flags
  <2>2. late' \in [Changes -> Nat] /\ landed' = landed
    BY <1>45, <1>4 DEF Kill
  <2>3. kills' \in 0 .. MaxKills
    BY <1>45, <1>3, KillsAssumption DEF Kill, Ranges
  <2>4. /\ UNCHANGED <<consumers, content, backlog, backup, contentBackup, faults>>
        /\ at' = "idle" /\ then' = "exit" /\ result' = "failed" /\ deploy' = "idle"
    BY <1>45 DEF Kill, Finish, provider, queueing, files
  <2>5. Ranges'
    BY <2>2, <2>3, <2>4, <1>3 DEF Ranges, ScriptSteps, Steps
  <2> QED BY <2>1, <2>5 DEF TypeOK, Flags, Ranges
<1>46. CASE UNCHANGED vars
  BY <1>46, <1>1, <1>4, CutoverAssumption, KillsAssumption DEF vars, provider,
     queueing, requests, files, control, cutover, script, TypeOK, TargetHeld,
     FileStates, Steps, ScriptSteps
<1> QED BY <1>5, <1>6, <1>7, <1>8, <1>9, <1>10, <1>11, <1>12, <1>13, <1>14, <1>15,
  <1>16, <1>17, <1>18, <1>19, <1>20, <1>21, <1>22, <1>23, <1>24, <1>25, <1>26,
  <1>27, <1>28, <1>29, <1>30, <1>31, <1>32, <1>33, <1>34, <1>35, <1>36, <1>37,
  <1>38, <1>39, <1>40, <1>41, <1>42, <1>43, <1>44, <1>45, <1>46 DEF Next, ToolStep,
  Provider, Scripted

\* The script and the operator only start the tool, kill it or write the marker.
LEMMA OutsideTool ==
  ASSUME Scripted \/ Recover \/ Retry \/ Kill
  PROVE  /\ UNCHANGED <<provider, queueing, landed, files>>
         /\ UNCHANGED late \/ GiveUp
         /\ \/ UNCHANGED <<at, then>>
            \/ at' \in {"idle", "backup", "disable", "restore"} /\ then' = "exit"
<1>1. CASE Kill
  BY <1>1 DEF Kill, GiveUp, Finish, provider, queueing, files
<1>2. CASE Restored
  BY <1>2 DEF Restored, cutover, provider, queueing, requests, files, control
<1>3. CASE (Scripted /\ ~Restored) \/ Recover \/ Retry
  BY <1>3 DEF Scripted, Begin, cutover, provider, queueing, requests, files,
     control, InstallUnits, Prove, Start, Reading, Local, BackedUp, CutOver,
     Activate, WriteReceipts, OnError, RollbackLocal, Recover, script, Retry
<1> QED BY <1>1, <1>2, <1>3

\* What the tool saves before it mutates anything stays saved.
LEMMA BackupsStep ==
  ASSUME IInv, [Next]_vars
  PROVE  (BackupsKept /\ MutatedIsBackedUp)'
<1>1. /\ TypeOK /\ BackupsKept /\ MutatedIsBackedUp
  BY DEF IInv
<1>2. GiveUp => /\ UNCHANGED late \/ at \in Changing
                /\ late' \in [Changes -> Nat]
  BY <1>1, GivenUp DEF TypeOK
<1>3. CASE Backup /\ UNCHANGED <<script, kills>>
  BY <1>3, <1>1, <1>2 DEF Backup, Local, SaveBackup, provider, queueing, requests,
     IsDisabled, Baseline, Raise, files, ProducersQuiesced, Finish, Guarded, script,
     TypeOK, BackupsKept, MutatedIsBackedUp, SavingSteps, Changing, Restoreable
<1>4. CASE Flush /\ UNCHANGED <<script, kills>>
  BY <1>4, <1>1, <1>2 DEF Flush, Goto, Local, provider, queueing, requests, script,
     TypeOK, BackupsKept, MutatedIsBackedUp, SavingSteps, Guarded, Changing,
     Restoreable
<1>5. CASE SaveContent /\ UNCHANGED <<script, kills>>
  BY <1>5, <1>1, <1>2 DEF SaveContent, Goto, Raise, Local, Saved, Finish, Guarded,
     provider, queueing, requests, script, TypeOK, BackupsKept, MutatedIsBackedUp,
     SavingSteps, Changing, Restoreable
<1>6. CASE SaveMeta /\ UNCHANGED <<script, kills>>
  BY <1>6, <1>1, <1>2 DEF SaveMeta, Raise, Fault, Saved, provider, queueing,
     requests, Finish, Guarded, script, TypeOK, BackupsKept, MutatedIsBackedUp,
     SavingSteps, Changing, Restoreable
<1>7. CASE Disable /\ UNCHANGED <<script, kills>>
  BY <1>7, <1>1, <1>2 DEF Disable, IsDisabled, Baseline, RecognizedPartial,
     Restoreable, Finish, Raise, Reading, BeginCutover, ProducersQuiesced, Guarded,
     Local, files, SaveBackup, queueing, provider, requests, script, TypeOK,
     BackupsKept, MutatedIsBackedUp, SavingSteps, Changing
<1>8. CASE Recheck /\ UNCHANGED <<script, kills>>
  BY <1>8, <1>1, <1>2 DEF Recheck, Baseline, Raise, Reading, BeginCutover, Finish,
     Guarded, Local, files, SaveBackup, queueing, provider, requests, IsDisabled,
     ProducersQuiesced, script, TypeOK, BackupsKept, MutatedIsBackedUp, SavingSteps,
     Changing, Restoreable
<1>9. CASE Quarantine /\ UNCHANGED <<script, kills>>
  BY <1>9, <1>1, <1>2 DEF Quarantine, Goto, Answer, Quiet, Raise, Fault, queueing,
     requests, files, Finish, Guarded, script, TypeOK, BackupsKept,
     MutatedIsBackedUp, SavingSteps, Changing, Restoreable
<1>10. CASE CloseEdge /\ UNCHANGED <<script, kills>>
  BY <1>10, <1>1, <1>2 DEF CloseEdge, Answer, Quiet, Goto, Raise, Fault, queueing,
     requests, files, Finish, Guarded, script, TypeOK, BackupsKept,
     MutatedIsBackedUp, SavingSteps, Changing, Restoreable
<1>11. CASE Drain /\ UNCHANGED <<script, kills>>
  BY <1>11, <1>1, <1>2 DEF Drain, ProducersQuiesced, Goto, Raise, Reading, Drained,
     Finish, Guarded, Local, files, provider, queueing, requests, script, TypeOK,
     BackupsKept, MutatedIsBackedUp, SavingSteps, Changing, Restoreable
<1>12. CASE Detach /\ UNCHANGED <<script, kills>>
  BY <1>12, <1>1, <1>2 DEF Detach, Raise, Answer, DropTarget, queueing, files,
     Finish, Guarded, Goto, Fault, script, TypeOK, BackupsKept, MutatedIsBackedUp,
     SavingSteps, Changing, Restoreable
<1>13. CASE After /\ UNCHANGED <<script, kills>>
  BY <1>13, <1>1, <1>2 DEF After, IsDisabled, Finish, Reading, ProducersQuiesced,
     Local, files, provider, queueing, requests, script, TypeOK, BackupsKept,
     MutatedIsBackedUp, SavingSteps, Guarded, Changing, Restoreable
<1>14. CASE Restore /\ UNCHANGED <<script, kills>>
  BY <1>14, <1>1, <1>2 DEF Restore, Restoreable, Goto, Raise, Reading, Finish,
     Guarded, Local, files, provider, queueing, requests, script, TypeOK,
     BackupsKept, MutatedIsBackedUp, SavingSteps, Changing
<1>15. CASE RestoreContent /\ UNCHANGED <<script, kills>>
  BY <1>15, <1>1, <1>2 DEF RestoreContent, Goto, Answer, Quiet, Raise, Fault,
     queueing, requests, files, Finish, Guarded, script, TypeOK, BackupsKept,
     MutatedIsBackedUp, SavingSteps, Changing, Restoreable
<1>16. CASE PostConsumer /\ UNCHANGED <<script, kills>>
  BY <1>16, <1>1, <1>2 DEF PostConsumer, Goto, Fault, queueing, requests, files,
     script, TypeOK, BackupsKept, MutatedIsBackedUp, SavingSteps, Guarded, Changing,
     Restoreable
<1>17. CASE KeepConsumer /\ UNCHANGED <<script, kills>>
  BY <1>17, <1>1, <1>2 DEF KeepConsumer, Goto, Reading, Local, files, provider,
     queueing, requests, script, TypeOK, BackupsKept, MutatedIsBackedUp,
     SavingSteps, Guarded, Changing, Restoreable
<1>18. CASE ContentLost /\ UNCHANGED <<script, kills>>
  BY <1>18, <1>1, <1>2 DEF ContentLost, Raise, Reading, Finish, Guarded, Local,
     files, provider, queueing, requests, script, TypeOK, BackupsKept,
     MutatedIsBackedUp, SavingSteps, Changing, Restoreable
<1>19. CASE PollConsumer /\ UNCHANGED <<script, kills>>
  BY <1>19, <1>1, <1>2 DEF PollConsumer, Goto, Raise, Reading, Finish, Guarded,
     Local, files, provider, queueing, requests, script, TypeOK, BackupsKept,
     MutatedIsBackedUp, SavingSteps, Changing, Restoreable
<1>20. CASE Publish /\ UNCHANGED <<script, kills>>
  BY <1>20, <1>1, <1>2 DEF Publish, Goto, Answer, Quiet, Raise, Fault, queueing,
     requests, files, Finish, Guarded, script, TypeOK, BackupsKept,
     MutatedIsBackedUp, SavingSteps, Changing, Restoreable
<1>21. CASE PublishAgain /\ UNCHANGED <<script, kills>>
  BY <1>21, <1>1, <1>2 DEF PublishAgain, Answer, Quiet, Goto, Raise, Fault,
     queueing, requests, files, Finish, Guarded, script, TypeOK, BackupsKept,
     MutatedIsBackedUp, SavingSteps, Changing, Restoreable
<1>22. CASE Verify /\ UNCHANGED <<script, kills>>
  BY <1>22, <1>1, <1>2 DEF Verify, Finish, Raise, provider, queueing, requests,
     files, Guarded, script, TypeOK, BackupsKept, MutatedIsBackedUp, SavingSteps,
     Changing, Restoreable
<1>23. CASE RequestFails /\ UNCHANGED <<script, kills>>
  BY <1>23, <1>1, <1>2 DEF RequestFails, Raise, Fault, provider, queueing, requests,
     files, Finish, Guarded, script, TypeOK, BackupsKept, MutatedIsBackedUp,
     SavingSteps, Changing, Restoreable
<1>24. CASE Invoke /\ UNCHANGED <<script, kills>>
  BY <1>24, <1>1, <1>2 DEF Invoke, provider, requests, files, control, script,
     TypeOK, BackupsKept, MutatedIsBackedUp, SavingSteps, Guarded, Changing,
     Restoreable
<1>25. CASE Produce /\ UNCHANGED <<script, kills>>
  BY <1>25, <1>1, <1>2 DEF Produce, provider, requests, files, control, script,
     TypeOK, BackupsKept, MutatedIsBackedUp, SavingSteps, Guarded, Changing,
     Restoreable
<1>26. CASE Consume /\ UNCHANGED <<script, kills>>
  BY <1>26, <1>1, <1>2 DEF Consume, provider, requests, files, control, script,
     TypeOK, BackupsKept, MutatedIsBackedUp, SavingSteps, Guarded, Changing,
     Restoreable
<1>27. CASE LandModule /\ UNCHANGED <<script, kills>>
  <2>1. PICK c \in Changes : Lands(c) /\ \A d \in Changes : late'[d] > 0 => late[d] > 0
    BY <1>27, <1>1 DEF LandModule, DropTarget, Lands, Changes, TypeOK
  <2>2. Restoreable
    BY <2>1, <1>1 DEF Lands, BackupsKept
  <2>3. Restoreable'
    BY <2>2, <2>1 DEF Lands, files, Restoreable
  <2>4. UNCHANGED <<at, then, backup, contentBackup>>
    BY <2>1 DEF Lands, control, files
  <2> QED BY <1>1, <2>1, <2>2, <2>3, <2>4 DEF BackupsKept, MutatedIsBackedUp
<1>28. CASE LandEdge /\ UNCHANGED <<script, kills>>
  <2>1. PICK c \in Changes : Lands(c) /\ \A d \in Changes : late'[d] > 0 => late[d] > 0
    BY <1>28, <1>1 DEF LandEdge, DropTarget, Lands, Changes, TypeOK
  <2>2. Restoreable
    BY <2>1, <1>1 DEF Lands, BackupsKept
  <2>3. Restoreable'
    BY <2>2, <2>1 DEF Lands, files, Restoreable
  <2>4. UNCHANGED <<at, then, backup, contentBackup>>
    BY <2>1 DEF Lands, control, files
  <2> QED BY <1>1, <2>1, <2>2, <2>3, <2>4 DEF BackupsKept, MutatedIsBackedUp
<1>29. CASE LandAttach /\ UNCHANGED <<script, kills>>
  BY <1>29, <1>1, <1>2 DEF LandAttach, Lands, queueing, files, control, script,
     TypeOK, BackupsKept, MutatedIsBackedUp, SavingSteps, Guarded, Changing,
     Restoreable
<1>30. CASE LandDetach /\ UNCHANGED <<script, kills>>
  <2>1. PICK c \in Changes : Lands(c) /\ \A d \in Changes : late'[d] > 0 => late[d] > 0
    BY <1>30, <1>1 DEF LandDetach, DropTarget, Lands, Changes, TypeOK
  <2>2. Restoreable
    BY <2>1, <1>1 DEF Lands, BackupsKept
  <2>3. Restoreable'
    BY <2>2, <2>1 DEF Lands, files, Restoreable
  <2>4. UNCHANGED <<at, then, backup, contentBackup>>
    BY <2>1 DEF Lands, control, files
  <2> QED BY <1>1, <2>1, <2>2, <2>3, <2>4 DEF BackupsKept, MutatedIsBackedUp
<1>31. CASE Scripted \/ Recover \/ Retry \/ Kill
  BY <1>31, <1>1, <1>2, OutsideTool DEF TypeOK, BackupsKept, MutatedIsBackedUp,
     SavingSteps, Guarded, Changing, Restoreable, provider, queueing, files
<1>32. CASE UNCHANGED vars
  BY <1>32, <1>1, <1>2 DEF vars, provider, queueing, requests, files, control,
     cutover, script, TypeOK, BackupsKept, MutatedIsBackedUp, SavingSteps, Guarded,
     Changing, Restoreable
<1> QED BY <1>3, <1>4, <1>5, <1>6, <1>7, <1>8, <1>9, <1>10, <1>11, <1>12, <1>13,
  <1>14, <1>15, <1>16, <1>17, <1>18, <1>19, <1>20, <1>21, <1>22, <1>23, <1>24,
  <1>25, <1>26, <1>27, <1>28, <1>29, <1>30, <1>31, <1>32 DEF Next, ToolStep,
  Provider

\* The consumer is there until the queue is drained.
LEMMA ConsumerStep ==
  ASSUME IInv, [Next]_vars
  PROVE  (TargetHeld /\ ConsumerKept /\ DetachedIsDrained)'
<1>1. /\ TypeOK /\ TargetHeld /\ ConsumerKept /\ DetachedIsDrained
  BY DEF IInv
<1>2. GiveUp => landed' = landed
  BY DEF GiveUp
<1>3. CASE Backup /\ UNCHANGED <<script, kills>>
  BY <1>3, <1>1, <1>2, CutoverAssumption DEF Backup, Local, SaveBackup, provider,
     queueing, requests, IsDisabled, Baseline, Raise, files, ProducersQuiesced,
     Finish, Guarded, script, TypeOK, TargetHeld, ConsumerKept, DetachedIsDrained,
     SavingSteps
<1>4. CASE Flush /\ UNCHANGED <<script, kills>>
  BY <1>4, <1>1, <1>2, CutoverAssumption DEF Flush, Goto, Local, provider, queueing,
     requests, script, TypeOK, TargetHeld, ConsumerKept, DetachedIsDrained,
     SavingSteps, Guarded
<1>5. CASE SaveContent /\ UNCHANGED <<script, kills>>
  BY <1>5, <1>1, <1>2, CutoverAssumption DEF SaveContent, Goto, Raise, Local, Saved,
     Finish, Guarded, provider, queueing, requests, script, TypeOK, TargetHeld,
     ConsumerKept, DetachedIsDrained, SavingSteps
<1>6. CASE SaveMeta /\ UNCHANGED <<script, kills>>
  BY <1>6, <1>1, <1>2, CutoverAssumption DEF SaveMeta, Raise, Fault, Saved,
     provider, queueing, requests, Finish, Guarded, script, TypeOK, TargetHeld,
     ConsumerKept, DetachedIsDrained, SavingSteps
<1>7. CASE Disable /\ UNCHANGED <<script, kills>>
  BY <1>7, <1>1, <1>2, CutoverAssumption DEF Disable, IsDisabled, Baseline,
     RecognizedPartial, Restoreable, Finish, Raise, Reading, BeginCutover,
     ProducersQuiesced, Guarded, Local, files, SaveBackup, queueing, provider,
     requests, script, TypeOK, TargetHeld, ConsumerKept, DetachedIsDrained,
     SavingSteps
<1>8. CASE Recheck /\ UNCHANGED <<script, kills>>
  BY <1>8, <1>1, <1>2, CutoverAssumption DEF Recheck, Baseline, Raise, Reading,
     BeginCutover, Finish, Guarded, Local, files, SaveBackup, queueing, provider,
     requests, IsDisabled, ProducersQuiesced, script, TypeOK, TargetHeld,
     ConsumerKept, DetachedIsDrained, SavingSteps
<1>9. CASE Quarantine /\ UNCHANGED <<script, kills>>
  BY <1>9, <1>1, <1>2, CutoverAssumption DEF Quarantine, Goto, Answer, Quiet, Raise,
     Fault, queueing, requests, files, Finish, Guarded, script, TypeOK, TargetHeld,
     ConsumerKept, DetachedIsDrained, SavingSteps
<1>10. CASE CloseEdge /\ UNCHANGED <<script, kills>>
  BY <1>10, <1>1, <1>2, CutoverAssumption DEF CloseEdge, Answer, Quiet, Goto, Raise,
     Fault, queueing, requests, files, Finish, Guarded, script, TypeOK, TargetHeld,
     ConsumerKept, DetachedIsDrained, SavingSteps
<1>11. CASE Drain /\ UNCHANGED <<script, kills>>
  BY <1>11, <1>1, <1>2, CutoverAssumption DEF Drain, ProducersQuiesced, Goto, Raise,
     Reading, Drained, Finish, Guarded, Local, files, provider, queueing, requests,
     script, TypeOK, TargetHeld, ConsumerKept, DetachedIsDrained, SavingSteps
<1>12. CASE Detach /\ UNCHANGED <<script, kills>>
  BY <1>12, <1>1, <1>2, CutoverAssumption DEF Detach, Raise, Answer, DropTarget,
     queueing, files, Finish, Guarded, Goto, Fault, script, TypeOK, TargetHeld,
     ConsumerKept, DetachedIsDrained, SavingSteps
<1>13. CASE After /\ UNCHANGED <<script, kills>>
  BY <1>13, <1>1, <1>2, CutoverAssumption DEF After, IsDisabled, Finish, Reading,
     ProducersQuiesced, Local, files, provider, queueing, requests, script, TypeOK,
     TargetHeld, ConsumerKept, DetachedIsDrained, SavingSteps, Guarded
<1>14. CASE Restore /\ UNCHANGED <<script, kills>>
  BY <1>14, <1>1, <1>2, CutoverAssumption DEF Restore, Restoreable, Goto, Raise,
     Reading, Finish, Guarded, Local, files, provider, queueing, requests, script,
     TypeOK, TargetHeld, ConsumerKept, DetachedIsDrained, SavingSteps
<1>15. CASE RestoreContent /\ UNCHANGED <<script, kills>>
  BY <1>15, <1>1, <1>2, CutoverAssumption DEF RestoreContent, Goto, Answer, Quiet,
     Raise, Fault, queueing, requests, files, Finish, Guarded, script, TypeOK,
     TargetHeld, ConsumerKept, DetachedIsDrained, SavingSteps
<1>16. CASE PostConsumer /\ UNCHANGED <<script, kills>>
  BY <1>16, <1>1, <1>2, CutoverAssumption DEF PostConsumer, Goto, Fault, queueing,
     requests, files, script, TypeOK, TargetHeld, ConsumerKept, DetachedIsDrained,
     SavingSteps, Guarded
<1>17. CASE KeepConsumer /\ UNCHANGED <<script, kills>>
  BY <1>17, <1>1, <1>2, CutoverAssumption DEF KeepConsumer, Goto, Reading, Local,
     files, provider, queueing, requests, script, TypeOK, TargetHeld, ConsumerKept,
     DetachedIsDrained, SavingSteps, Guarded
<1>18. CASE ContentLost /\ UNCHANGED <<script, kills>>
  BY <1>18, <1>1, <1>2, CutoverAssumption DEF ContentLost, Raise, Reading, Finish,
     Guarded, Local, files, provider, queueing, requests, script, TypeOK,
     TargetHeld, ConsumerKept, DetachedIsDrained, SavingSteps
<1>19. CASE PollConsumer /\ UNCHANGED <<script, kills>>
  BY <1>19, <1>1, <1>2, CutoverAssumption DEF PollConsumer, Goto, Raise, Reading,
     Finish, Guarded, Local, files, provider, queueing, requests, script, TypeOK,
     TargetHeld, ConsumerKept, DetachedIsDrained, SavingSteps
<1>20. CASE Publish /\ UNCHANGED <<script, kills>>
  BY <1>20, <1>1, <1>2, CutoverAssumption DEF Publish, Goto, Answer, Quiet, Raise,
     Fault, queueing, requests, files, Finish, Guarded, script, TypeOK, TargetHeld,
     ConsumerKept, DetachedIsDrained, SavingSteps
<1>21. CASE PublishAgain /\ UNCHANGED <<script, kills>>
  BY <1>21, <1>1, <1>2, CutoverAssumption DEF PublishAgain, Answer, Quiet, Goto,
     Raise, Fault, queueing, requests, files, Finish, Guarded, script, TypeOK,
     TargetHeld, ConsumerKept, DetachedIsDrained, SavingSteps
<1>22. CASE Verify /\ UNCHANGED <<script, kills>>
  BY <1>22, <1>1, <1>2, CutoverAssumption DEF Verify, Finish, Raise, provider,
     queueing, requests, files, Guarded, script, TypeOK, TargetHeld, ConsumerKept,
     DetachedIsDrained, SavingSteps
<1>23. CASE RequestFails /\ UNCHANGED <<script, kills>>
  BY <1>23, <1>1, <1>2, CutoverAssumption DEF RequestFails, Raise, Fault, provider,
     queueing, requests, files, Finish, Guarded, script, TypeOK, TargetHeld,
     ConsumerKept, DetachedIsDrained, SavingSteps
<1>24. CASE Invoke /\ UNCHANGED <<script, kills>>
  BY <1>24, <1>1, <1>2, CutoverAssumption DEF Invoke, provider, requests, files,
     control, script, TypeOK, TargetHeld, ConsumerKept, DetachedIsDrained,
     SavingSteps, Guarded
<1>25. CASE Produce /\ UNCHANGED <<script, kills>>
  BY <1>25, <1>1, <1>2, CutoverAssumption DEF Produce, provider, requests, files,
     control, script, TypeOK, TargetHeld, ConsumerKept, DetachedIsDrained,
     SavingSteps, Guarded
<1>26. CASE Consume /\ UNCHANGED <<script, kills>>
  BY <1>26, <1>1, <1>2, CutoverAssumption DEF Consume, provider, requests, files,
     control, script, TypeOK, TargetHeld, ConsumerKept, DetachedIsDrained,
     SavingSteps, Guarded
<1>27. CASE LandModule /\ UNCHANGED <<script, kills>>
  BY <1>27, <1>1, <1>2, CutoverAssumption DEF LandModule, Lands, queueing, files,
     control, script, TypeOK, TargetHeld, ConsumerKept, DetachedIsDrained,
     SavingSteps, Guarded
<1>28. CASE LandEdge /\ UNCHANGED <<script, kills>>
  BY <1>28, <1>1, <1>2, CutoverAssumption DEF LandEdge, Lands, queueing, files,
     control, script, TypeOK, TargetHeld, ConsumerKept, DetachedIsDrained,
     SavingSteps, Guarded
<1>29. CASE LandAttach /\ UNCHANGED <<script, kills>>
  BY <1>29, <1>1, <1>2, CutoverAssumption DEF LandAttach, Lands, queueing, files,
     control, script, TypeOK, TargetHeld, ConsumerKept, DetachedIsDrained,
     SavingSteps, Guarded
<1>30. CASE LandDetach /\ UNCHANGED <<script, kills>>
  BY <1>30, <1>1, <1>2, CutoverAssumption DEF LandDetach, DropTarget, Lands,
     queueing, files, control, script, TypeOK, TargetHeld, ConsumerKept,
     DetachedIsDrained, SavingSteps, Guarded
<1>31. CASE Scripted \/ Recover \/ Retry \/ Kill
  BY <1>31, <1>1, <1>2, CutoverAssumption, OutsideTool DEF TypeOK, TargetHeld,
     ConsumerKept, DetachedIsDrained, SavingSteps, Guarded, provider, queueing,
     files
<1>32. CASE UNCHANGED vars
  BY <1>32, <1>1, <1>2, CutoverAssumption DEF vars, provider, queueing, requests,
     files, control, cutover, script, TypeOK, TargetHeld, ConsumerKept,
     DetachedIsDrained, SavingSteps, Guarded
<1> QED BY <1>3, <1>4, <1>5, <1>6, <1>7, <1>8, <1>9, <1>10, <1>11, <1>12, <1>13,
  <1>14, <1>15, <1>16, <1>17, <1>18, <1>19, <1>20, <1>21, <1>22, <1>23, <1>24,
  <1>25, <1>26, <1>27, <1>28, <1>29, <1>30, <1>31, <1>32 DEF Next, ToolStep,
  Provider

\* The tool runs for the step of the script that waits for it.
LEMMA ControlStep ==
  ASSUME IInv, [Next]_vars
  PROVE  ScriptControl'
<1>1. /\ TypeOK /\ ScriptControl
  BY DEF IInv
<1>2. CASE Backup /\ UNCHANGED <<script, kills>>
  BY <1>2, <1>1 DEF Backup, Local, SaveBackup, provider, queueing, requests,
     IsDisabled, Baseline, Raise, files, ProducersQuiesced, Finish, Guarded, script,
     TypeOK, ScriptControl, SavingSteps, RestoreSteps
<1>3. CASE Flush /\ UNCHANGED <<script, kills>>
  BY <1>3, <1>1 DEF Flush, Goto, Local, provider, queueing, requests, script,
     TypeOK, ScriptControl, SavingSteps, RestoreSteps, Guarded
<1>4. CASE SaveContent /\ UNCHANGED <<script, kills>>
  BY <1>4, <1>1 DEF SaveContent, Goto, Raise, Local, Saved, Finish, Guarded,
     provider, queueing, requests, script, TypeOK, ScriptControl, SavingSteps,
     RestoreSteps
<1>5. CASE SaveMeta /\ UNCHANGED <<script, kills>>
  BY <1>5, <1>1 DEF SaveMeta, Raise, Fault, Saved, provider, queueing, requests,
     Finish, Guarded, script, TypeOK, ScriptControl, SavingSteps, RestoreSteps
<1>6. CASE Disable /\ UNCHANGED <<script, kills>>
  BY <1>6, <1>1 DEF Disable, IsDisabled, Baseline, RecognizedPartial, Restoreable,
     Finish, Raise, Reading, BeginCutover, ProducersQuiesced, Guarded, Local, files,
     SaveBackup, queueing, provider, requests, script, TypeOK, ScriptControl,
     SavingSteps, RestoreSteps
<1>7. CASE Recheck /\ UNCHANGED <<script, kills>>
  BY <1>7, <1>1 DEF Recheck, Baseline, Raise, Reading, BeginCutover, Finish,
     Guarded, Local, files, SaveBackup, queueing, provider, requests, IsDisabled,
     ProducersQuiesced, script, TypeOK, ScriptControl, SavingSteps, RestoreSteps
<1>8. CASE Quarantine /\ UNCHANGED <<script, kills>>
  BY <1>8, <1>1 DEF Quarantine, Goto, Answer, Quiet, Raise, Fault, queueing,
     requests, files, Finish, Guarded, script, TypeOK, ScriptControl, SavingSteps,
     RestoreSteps
<1>9. CASE CloseEdge /\ UNCHANGED <<script, kills>>
  BY <1>9, <1>1 DEF CloseEdge, Answer, Quiet, Goto, Raise, Fault, queueing,
     requests, files, Finish, Guarded, script, TypeOK, ScriptControl, SavingSteps,
     RestoreSteps
<1>10. CASE Drain /\ UNCHANGED <<script, kills>>
  BY <1>10, <1>1 DEF Drain, ProducersQuiesced, Goto, Raise, Reading, Drained,
     Finish, Guarded, Local, files, provider, queueing, requests, script, TypeOK,
     ScriptControl, SavingSteps, RestoreSteps
<1>11. CASE Detach /\ UNCHANGED <<script, kills>>
  BY <1>11, <1>1 DEF Detach, Raise, Answer, DropTarget, queueing, files, Finish,
     Guarded, Goto, Fault, script, TypeOK, ScriptControl, SavingSteps, RestoreSteps
<1>12. CASE After /\ UNCHANGED <<script, kills>>
  BY <1>12, <1>1 DEF After, IsDisabled, Finish, Reading, ProducersQuiesced, Local,
     files, provider, queueing, requests, script, TypeOK, ScriptControl,
     SavingSteps, RestoreSteps, Guarded
<1>13. CASE Restore /\ UNCHANGED <<script, kills>>
  BY <1>13, <1>1 DEF Restore, Restoreable, Goto, Raise, Reading, Finish, Guarded,
     Local, files, provider, queueing, requests, script, TypeOK, ScriptControl,
     SavingSteps, RestoreSteps
<1>14. CASE RestoreContent /\ UNCHANGED <<script, kills>>
  BY <1>14, <1>1 DEF RestoreContent, Goto, Answer, Quiet, Raise, Fault, queueing,
     requests, files, Finish, Guarded, script, TypeOK, ScriptControl, SavingSteps,
     RestoreSteps
<1>15. CASE PostConsumer /\ UNCHANGED <<script, kills>>
  BY <1>15, <1>1 DEF PostConsumer, Goto, Fault, queueing, requests, files, script,
     TypeOK, ScriptControl, SavingSteps, RestoreSteps, Guarded
<1>16. CASE KeepConsumer /\ UNCHANGED <<script, kills>>
  BY <1>16, <1>1 DEF KeepConsumer, Goto, Reading, Local, files, provider, queueing,
     requests, script, TypeOK, ScriptControl, SavingSteps, RestoreSteps, Guarded
<1>17. CASE ContentLost /\ UNCHANGED <<script, kills>>
  BY <1>17, <1>1 DEF ContentLost, Raise, Reading, Finish, Guarded, Local, files,
     provider, queueing, requests, script, TypeOK, ScriptControl, SavingSteps,
     RestoreSteps
<1>18. CASE PollConsumer /\ UNCHANGED <<script, kills>>
  BY <1>18, <1>1 DEF PollConsumer, Goto, Raise, Reading, Finish, Guarded, Local,
     files, provider, queueing, requests, script, TypeOK, ScriptControl,
     SavingSteps, RestoreSteps
<1>19. CASE Publish /\ UNCHANGED <<script, kills>>
  BY <1>19, <1>1 DEF Publish, Goto, Answer, Quiet, Raise, Fault, queueing, requests,
     files, Finish, Guarded, script, TypeOK, ScriptControl, SavingSteps,
     RestoreSteps
<1>20. CASE PublishAgain /\ UNCHANGED <<script, kills>>
  BY <1>20, <1>1 DEF PublishAgain, Answer, Quiet, Goto, Raise, Fault, queueing,
     requests, files, Finish, Guarded, script, TypeOK, ScriptControl, SavingSteps,
     RestoreSteps
<1>21. CASE Verify /\ UNCHANGED <<script, kills>>
  BY <1>21, <1>1 DEF Verify, Finish, Raise, provider, queueing, requests, files,
     Guarded, script, TypeOK, ScriptControl, SavingSteps, RestoreSteps
<1>22. CASE RequestFails /\ UNCHANGED <<script, kills>>
  BY <1>22, <1>1 DEF RequestFails, Raise, Fault, provider, queueing, requests,
     files, Finish, Guarded, script, TypeOK, ScriptControl, SavingSteps,
     RestoreSteps
<1>23. CASE Invoke /\ UNCHANGED <<script, kills>>
  BY <1>23, <1>1 DEF Invoke, provider, requests, files, control, script, TypeOK,
     ScriptControl, SavingSteps, RestoreSteps, Guarded
<1>24. CASE Produce /\ UNCHANGED <<script, kills>>
  BY <1>24, <1>1 DEF Produce, provider, requests, files, control, script, TypeOK,
     ScriptControl, SavingSteps, RestoreSteps, Guarded
<1>25. CASE Consume /\ UNCHANGED <<script, kills>>
  BY <1>25, <1>1 DEF Consume, provider, requests, files, control, script, TypeOK,
     ScriptControl, SavingSteps, RestoreSteps, Guarded
<1>26. CASE LandModule /\ UNCHANGED <<script, kills>>
  BY <1>26, <1>1 DEF LandModule, Lands, queueing, files, control, script, TypeOK,
     ScriptControl, SavingSteps, RestoreSteps, Guarded
<1>27. CASE LandEdge /\ UNCHANGED <<script, kills>>
  BY <1>27, <1>1 DEF LandEdge, Lands, queueing, files, control, script, TypeOK,
     ScriptControl, SavingSteps, RestoreSteps, Guarded
<1>28. CASE LandAttach /\ UNCHANGED <<script, kills>>
  BY <1>28, <1>1 DEF LandAttach, Lands, queueing, files, control, script, TypeOK,
     ScriptControl, SavingSteps, RestoreSteps, Guarded
<1>29. CASE LandDetach /\ UNCHANGED <<script, kills>>
  BY <1>29, <1>1 DEF LandDetach, DropTarget, Lands, queueing, files, control,
     script, TypeOK, ScriptControl, SavingSteps, RestoreSteps, Guarded
<1>30. CASE Begin
  BY <1>30, <1>1 DEF Begin, Ended, Proceed, cutover, provider, queueing, requests,
     files, control, TypeOK, ScriptControl, SavingSteps, RestoreSteps, Guarded
<1>31. CASE InstallUnits
  BY <1>31, <1>1 DEF InstallUnits, Proceed, cutover, provider, queueing, requests,
     files, control, TypeOK, ScriptControl, SavingSteps, RestoreSteps, Guarded
<1>32. CASE Prove
  BY <1>32, <1>1 DEF Prove, Start, cutover, Reading, provider, queueing, requests,
     files, control, Local, TypeOK, ScriptControl, SavingSteps, RestoreSteps,
     Guarded
<1>33. CASE BackedUp
  BY <1>33, <1>1 DEF BackedUp, Start, Ended, cutover, Reading, provider, queueing,
     requests, files, control, Local, TypeOK, ScriptControl, SavingSteps,
     RestoreSteps, Guarded
<1>34. CASE CutOver
  BY <1>34, <1>1 DEF CutOver, Ended, cutover, provider, queueing, requests, files,
     control, TypeOK, ScriptControl, SavingSteps, RestoreSteps, Guarded
<1>35. CASE Activate
  BY <1>35, <1>1 DEF Activate, Proceed, cutover, provider, queueing, requests,
     files, control, TypeOK, ScriptControl, SavingSteps, RestoreSteps, Guarded
<1>36. CASE WriteReceipts
  BY <1>36, <1>1 DEF WriteReceipts, cutover, provider, queueing, requests, files,
     control, TypeOK, ScriptControl, SavingSteps, RestoreSteps, Guarded
<1>37. CASE OnError
  BY <1>37, <1>1 DEF OnError, Start, cutover, Reading, provider, queueing, requests,
     files, control, Local, TypeOK, ScriptControl, SavingSteps, RestoreSteps,
     Guarded
<1>38. CASE Restored
  BY <1>38, <1>1 DEF Restored, Fault, Ended, provider, queueing, requests, files,
     control, cutover, TypeOK, ScriptControl, SavingSteps, RestoreSteps, Guarded
<1>39. CASE RollbackLocal
  BY <1>39, <1>1 DEF RollbackLocal, Proceed, cutover, provider, queueing, requests,
     files, control, TypeOK, ScriptControl, SavingSteps, RestoreSteps, Guarded
<1>40. CASE Recover
  BY <1>40, <1>1 DEF Recover, Start, script, Reading, Local, files, provider,
     queueing, requests, TypeOK, ScriptControl, SavingSteps, RestoreSteps, Guarded
<1>41. CASE Retry
  BY <1>41, <1>1 DEF Retry, Start, script, Reading, Local, files, provider,
     queueing, requests, TypeOK, ScriptControl, SavingSteps, RestoreSteps, Guarded
<1>42. CASE Kill
  BY <1>42, <1>1 DEF Kill, Finish, Ended, provider, queueing, files, TypeOK,
     ScriptControl, SavingSteps, RestoreSteps, Guarded
<1>43. CASE UNCHANGED vars
  BY <1>43, <1>1 DEF vars, provider, queueing, requests, files, control, cutover,
     script, TypeOK, ScriptControl, SavingSteps, RestoreSteps, Guarded
<1> QED BY <1>2, <1>3, <1>4, <1>5, <1>6, <1>7, <1>8, <1>9, <1>10, <1>11, <1>12,
  <1>13, <1>14, <1>15, <1>16, <1>17, <1>18, <1>19, <1>20, <1>21, <1>22, <1>23,
  <1>24, <1>25, <1>26, <1>27, <1>28, <1>29, <1>30, <1>31, <1>32, <1>33, <1>34,
  <1>35, <1>36, <1>37, <1>38, <1>39, <1>40, <1>41, <1>42, <1>43 DEF Next, ToolStep,
  Provider, Scripted

\* Where the script may stop, the Worker is on one side or the other.
LEMMA SidesStep ==
  ASSUME IInv, [Next]_vars
  PROVE  Sides'
<1>1. /\ TypeOK /\ ScriptControl /\ ConsumerKept /\ Sides
  BY DEF IInv
<1>2. GiveUp => landed' = landed
  BY DEF GiveUp
<1>3. CASE Backup /\ UNCHANGED <<script, kills>>
  BY <1>3, <1>1, <1>2 DEF Backup, Local, SaveBackup, provider, queueing, requests,
     IsDisabled, Baseline, Raise, files, ProducersQuiesced, Finish, Guarded, script,
     TypeOK, ScriptControl, Sides, InService, OutOfService, ConsumerKept,
     SavingSteps, RestoreSteps
<1>4. CASE Flush /\ UNCHANGED <<script, kills>>
  BY <1>4, <1>1, <1>2 DEF Flush, Goto, Local, provider, queueing, requests, script,
     TypeOK, ScriptControl, Sides, InService, OutOfService, ConsumerKept,
     SavingSteps, RestoreSteps, Guarded
<1>5. CASE SaveContent /\ UNCHANGED <<script, kills>>
  BY <1>5, <1>1, <1>2 DEF SaveContent, Goto, Raise, Local, Saved, Finish, Guarded,
     provider, queueing, requests, script, TypeOK, ScriptControl, Sides, InService,
     OutOfService, ConsumerKept, SavingSteps, RestoreSteps
<1>6. CASE SaveMeta /\ UNCHANGED <<script, kills>>
  BY <1>6, <1>1, <1>2 DEF SaveMeta, Raise, Fault, Saved, provider, queueing,
     requests, Finish, Guarded, script, TypeOK, ScriptControl, Sides, InService,
     OutOfService, ConsumerKept, SavingSteps, RestoreSteps
<1>7. CASE Disable /\ UNCHANGED <<script, kills>>
  BY <1>7, <1>1, <1>2 DEF Disable, IsDisabled, Baseline, RecognizedPartial,
     Restoreable, Finish, Raise, Reading, BeginCutover, ProducersQuiesced, Guarded,
     Local, files, SaveBackup, queueing, provider, requests, script, TypeOK,
     ScriptControl, Sides, InService, OutOfService, ConsumerKept, SavingSteps,
     RestoreSteps
<1>8. CASE Recheck /\ UNCHANGED <<script, kills>>
  BY <1>8, <1>1, <1>2 DEF Recheck, Baseline, Raise, Reading, BeginCutover, Finish,
     Guarded, Local, files, SaveBackup, queueing, provider, requests, IsDisabled,
     ProducersQuiesced, script, TypeOK, ScriptControl, Sides, InService,
     OutOfService, ConsumerKept, SavingSteps, RestoreSteps
<1>9. CASE Quarantine /\ UNCHANGED <<script, kills>>
  BY <1>9, <1>1, <1>2 DEF Quarantine, Goto, Answer, Quiet, Raise, Fault, queueing,
     requests, files, Finish, Guarded, script, TypeOK, ScriptControl, Sides,
     InService, OutOfService, ConsumerKept, SavingSteps, RestoreSteps
<1>10. CASE CloseEdge /\ UNCHANGED <<script, kills>>
  BY <1>10, <1>1, <1>2 DEF CloseEdge, Answer, Quiet, Goto, Raise, Fault, queueing,
     requests, files, Finish, Guarded, script, TypeOK, ScriptControl, Sides,
     InService, OutOfService, ConsumerKept, SavingSteps, RestoreSteps
<1>11. CASE Drain /\ UNCHANGED <<script, kills>>
  BY <1>11, <1>1, <1>2 DEF Drain, ProducersQuiesced, Goto, Raise, Reading, Drained,
     Finish, Guarded, Local, files, provider, queueing, requests, script, TypeOK,
     ScriptControl, Sides, InService, OutOfService, ConsumerKept, SavingSteps,
     RestoreSteps
<1>12. CASE Detach /\ UNCHANGED <<script, kills>>
  BY <1>12, <1>1, <1>2 DEF Detach, Raise, Answer, DropTarget, queueing, files,
     Finish, Guarded, Goto, Fault, script, TypeOK, ScriptControl, Sides, InService,
     OutOfService, ConsumerKept, SavingSteps, RestoreSteps
<1>13. CASE After /\ UNCHANGED <<script, kills>>
  BY <1>13, <1>1, <1>2 DEF After, IsDisabled, Finish, Reading, ProducersQuiesced,
     Local, files, provider, queueing, requests, script, TypeOK, ScriptControl,
     Sides, InService, OutOfService, ConsumerKept, SavingSteps, RestoreSteps,
     Guarded
<1>14. CASE Restore /\ UNCHANGED <<script, kills>>
  BY <1>14, <1>1, <1>2 DEF Restore, Restoreable, Goto, Raise, Reading, Finish,
     Guarded, Local, files, provider, queueing, requests, script, TypeOK,
     ScriptControl, Sides, InService, OutOfService, ConsumerKept, SavingSteps,
     RestoreSteps
<1>15. CASE RestoreContent /\ UNCHANGED <<script, kills>>
  BY <1>15, <1>1, <1>2 DEF RestoreContent, Goto, Answer, Quiet, Raise, Fault,
     queueing, requests, files, Finish, Guarded, script, TypeOK, ScriptControl,
     Sides, InService, OutOfService, ConsumerKept, SavingSteps, RestoreSteps
<1>16. CASE PostConsumer /\ UNCHANGED <<script, kills>>
  BY <1>16, <1>1, <1>2 DEF PostConsumer, Goto, Fault, queueing, requests, files,
     script, TypeOK, ScriptControl, Sides, InService, OutOfService, ConsumerKept,
     SavingSteps, RestoreSteps, Guarded
<1>17. CASE KeepConsumer /\ UNCHANGED <<script, kills>>
  BY <1>17, <1>1, <1>2 DEF KeepConsumer, Goto, Reading, Local, files, provider,
     queueing, requests, script, TypeOK, ScriptControl, Sides, InService,
     OutOfService, ConsumerKept, SavingSteps, RestoreSteps, Guarded
<1>18. CASE ContentLost /\ UNCHANGED <<script, kills>>
  BY <1>18, <1>1, <1>2 DEF ContentLost, Raise, Reading, Finish, Guarded, Local,
     files, provider, queueing, requests, script, TypeOK, ScriptControl, Sides,
     InService, OutOfService, ConsumerKept, SavingSteps, RestoreSteps
<1>19. CASE PollConsumer /\ UNCHANGED <<script, kills>>
  BY <1>19, <1>1, <1>2 DEF PollConsumer, Goto, Raise, Reading, Finish, Guarded,
     Local, files, provider, queueing, requests, script, TypeOK, ScriptControl,
     Sides, InService, OutOfService, ConsumerKept, SavingSteps, RestoreSteps
<1>20. CASE Publish /\ UNCHANGED <<script, kills>>
  BY <1>20, <1>1, <1>2 DEF Publish, Goto, Answer, Quiet, Raise, Fault, queueing,
     requests, files, Finish, Guarded, script, TypeOK, ScriptControl, Sides,
     InService, OutOfService, ConsumerKept, SavingSteps, RestoreSteps
<1>21. CASE PublishAgain /\ UNCHANGED <<script, kills>>
  BY <1>21, <1>1, <1>2 DEF PublishAgain, Answer, Quiet, Goto, Raise, Fault,
     queueing, requests, files, Finish, Guarded, script, TypeOK, ScriptControl,
     Sides, InService, OutOfService, ConsumerKept, SavingSteps, RestoreSteps
<1>22. CASE Verify /\ UNCHANGED <<script, kills>>
  BY <1>22, <1>1, <1>2 DEF Verify, Finish, Raise, provider, queueing, requests,
     files, Guarded, script, TypeOK, ScriptControl, Sides, InService, OutOfService,
     ConsumerKept, SavingSteps, RestoreSteps
<1>23. CASE RequestFails /\ UNCHANGED <<script, kills>>
  BY <1>23, <1>1, <1>2 DEF RequestFails, Raise, Fault, provider, queueing, requests,
     files, Finish, Guarded, script, TypeOK, ScriptControl, Sides, InService,
     OutOfService, ConsumerKept, SavingSteps, RestoreSteps
<1>24. CASE Invoke /\ UNCHANGED <<script, kills>>
  BY <1>24, <1>1, <1>2 DEF Invoke, provider, requests, files, control, script,
     TypeOK, ScriptControl, Sides, InService, OutOfService, ConsumerKept,
     SavingSteps, RestoreSteps, Guarded
<1>25. CASE Produce /\ UNCHANGED <<script, kills>>
  BY <1>25, <1>1, <1>2 DEF Produce, provider, requests, files, control, script,
     TypeOK, ScriptControl, Sides, InService, OutOfService, ConsumerKept,
     SavingSteps, RestoreSteps, Guarded
<1>26. CASE Consume /\ UNCHANGED <<script, kills>>
  BY <1>26, <1>1, <1>2 DEF Consume, provider, requests, files, control, script,
     TypeOK, ScriptControl, Sides, InService, OutOfService, ConsumerKept,
     SavingSteps, RestoreSteps, Guarded
<1>27. CASE LandModule /\ UNCHANGED <<script, kills>>
  BY <1>27, <1>1, <1>2 DEF LandModule, Lands, queueing, files, control, script,
     TypeOK, ScriptControl, Sides, InService, OutOfService, ConsumerKept,
     SavingSteps, RestoreSteps, Guarded
<1>28. CASE LandEdge /\ UNCHANGED <<script, kills>>
  BY <1>28, <1>1, <1>2 DEF LandEdge, Lands, queueing, files, control, script,
     TypeOK, ScriptControl, Sides, InService, OutOfService, ConsumerKept,
     SavingSteps, RestoreSteps, Guarded
<1>29. CASE LandAttach /\ UNCHANGED <<script, kills>>
  BY <1>29, <1>1, <1>2 DEF LandAttach, Lands, queueing, files, control, script,
     TypeOK, ScriptControl, Sides, InService, OutOfService, ConsumerKept,
     SavingSteps, RestoreSteps, Guarded
<1>30. CASE LandDetach /\ UNCHANGED <<script, kills>>
  BY <1>30, <1>1, <1>2 DEF LandDetach, DropTarget, Lands, queueing, files, control,
     script, TypeOK, ScriptControl, Sides, InService, OutOfService, ConsumerKept,
     SavingSteps, RestoreSteps, Guarded
<1>31. CASE Begin
  BY <1>31, <1>1, <1>2 DEF Begin, Ended, Proceed, cutover, provider, queueing,
     requests, files, control, TypeOK, ScriptControl, Sides, InService,
     OutOfService, ConsumerKept, SavingSteps, RestoreSteps, Guarded
<1>32. CASE InstallUnits
  BY <1>32, <1>1, <1>2 DEF InstallUnits, Proceed, cutover, provider, queueing,
     requests, files, control, TypeOK, ScriptControl, Sides, InService,
     OutOfService, ConsumerKept, SavingSteps, RestoreSteps, Guarded
<1>33. CASE Prove
  BY <1>33, <1>1, <1>2 DEF Prove, Start, cutover, Reading, provider, queueing,
     requests, files, control, Local, TypeOK, ScriptControl, Sides, InService,
     OutOfService, ConsumerKept, SavingSteps, RestoreSteps, Guarded
<1>34. CASE BackedUp
  BY <1>34, <1>1, <1>2 DEF BackedUp, Start, Ended, cutover, Reading, provider,
     queueing, requests, files, control, Local, TypeOK, ScriptControl, Sides,
     InService, OutOfService, ConsumerKept, SavingSteps, RestoreSteps, Guarded
<1>35. CASE CutOver
  BY <1>35, <1>1, <1>2 DEF CutOver, Ended, cutover, provider, queueing, requests,
     files, control, TypeOK, ScriptControl, Sides, InService, OutOfService,
     ConsumerKept, SavingSteps, RestoreSteps, Guarded
<1>36. CASE Activate
  BY <1>36, <1>1, <1>2 DEF Activate, Proceed, cutover, provider, queueing, requests,
     files, control, TypeOK, ScriptControl, Sides, InService, OutOfService,
     ConsumerKept, SavingSteps, RestoreSteps, Guarded
<1>37. CASE WriteReceipts
  BY <1>37, <1>1, <1>2 DEF WriteReceipts, cutover, provider, queueing, requests,
     files, control, TypeOK, ScriptControl, Sides, InService, OutOfService,
     ConsumerKept, SavingSteps, RestoreSteps, Guarded
<1>38. CASE OnError
  BY <1>38, <1>1, <1>2 DEF OnError, Start, cutover, Reading, provider, queueing,
     requests, files, control, Local, TypeOK, ScriptControl, Sides, InService,
     OutOfService, ConsumerKept, SavingSteps, RestoreSteps, Guarded
<1>39. CASE Restored
  BY <1>39, <1>1, <1>2 DEF Restored, Fault, Ended, provider, queueing, requests,
     files, control, cutover, TypeOK, ScriptControl, Sides, InService, OutOfService,
     ConsumerKept, SavingSteps, RestoreSteps, Guarded
<1>40. CASE RollbackLocal
  BY <1>40, <1>1, <1>2 DEF RollbackLocal, Proceed, cutover, provider, queueing,
     requests, files, control, TypeOK, ScriptControl, Sides, InService,
     OutOfService, ConsumerKept, SavingSteps, RestoreSteps, Guarded
<1>41. CASE Recover
  BY <1>41, <1>1, <1>2 DEF Recover, Start, script, Reading, Local, files, provider,
     queueing, requests, TypeOK, ScriptControl, Sides, InService, OutOfService,
     ConsumerKept, SavingSteps, RestoreSteps, Guarded
<1>42. CASE Retry
  BY <1>42, <1>1, <1>2 DEF Retry, Start, script, Reading, Local, files, provider,
     queueing, requests, TypeOK, ScriptControl, Sides, InService, OutOfService,
     ConsumerKept, SavingSteps, RestoreSteps, Guarded
<1>43. CASE Kill
  BY <1>43, <1>1, <1>2 DEF Kill, Finish, Ended, provider, queueing, files, TypeOK,
     ScriptControl, Sides, InService, OutOfService, ConsumerKept, SavingSteps,
     RestoreSteps, Guarded
<1>44. CASE UNCHANGED vars
  BY <1>44, <1>1, <1>2 DEF vars, provider, queueing, requests, files, control,
     cutover, script, TypeOK, ScriptControl, Sides, InService, OutOfService,
     ConsumerKept, SavingSteps, RestoreSteps, Guarded
<1> QED BY <1>3, <1>4, <1>5, <1>6, <1>7, <1>8, <1>9, <1>10, <1>11, <1>12, <1>13,
  <1>14, <1>15, <1>16, <1>17, <1>18, <1>19, <1>20, <1>21, <1>22, <1>23, <1>24,
  <1>25, <1>26, <1>27, <1>28, <1>29, <1>30, <1>31, <1>32, <1>33, <1>34, <1>35,
  <1>36, <1>37, <1>38, <1>39, <1>40, <1>41, <1>42, <1>43, <1>44 DEF Next, ToolStep,
  Provider, Scripted

\* The script starts with the legacy Worker in service and nothing on disk.
LEMMA InitHolds == Init => IInv
<1> SUFFICES ASSUME Init PROVE IInv
  OBVIOUS
<1>1. TypeOK
  <2>1. Flags BY DEF Init, CutoverInit, Flags
  <2>2. Ranges
    BY CutoverAssumption, KillsAssumption
    DEF Init, CutoverInit, Ranges, FileStates, Steps, ScriptSteps
  <2> QED BY <2>1, <2>2 DEF TypeOK, Flags, Ranges
<1>2. /\ BackupsKept /\ MutatedIsBackedUp
      /\ TargetHeld /\ ConsumerKept /\ DetachedIsDrained
  BY DEF Init, CutoverInit, BackupsKept, MutatedIsBackedUp, TargetHeld,
     ConsumerKept, DetachedIsDrained, Guarded, Changing, SavingSteps
<1>3. ScriptControl /\ Sides
  BY DEF Init, CutoverInit, ScriptControl, Sides, SavingSteps, RestoreSteps, InService
<1> QED BY <1>1, <1>2, <1>3 DEF IInv

\* The invariant holds throughout.
LEMMA Invariance == Spec => []IInv
<1>1. IInv /\ [Next]_vars => IInv'
  BY TypesStep, BackupsStep, ConsumerStep, ControlStep, SidesStep DEF IInv
<1> QED BY <1>1, InitHolds, PTL DEF Spec

\* For any backlog, faults and kills every variable keeps its type, and the tool
\* only runs for the step of the script that waits for it.
THEOREM TypeCorrect == Spec => []TypeOK
<1>1. IInv => TypeOK
  BY DEF IInv
<1> QED BY <1>1, Invariance, PTL

\* Wherever the tool or the script fails or is killed, a Worker that has been
\* changed has both backups complete, so that restore can be run.
THEOREM BackedUpFirst == Spec => []MutatedIsBackedUp
<1>1. IInv => MutatedIsBackedUp
  BY DEF IInv
<1> QED BY <1>1, Invariance, PTL

\* No message is ever left in the queue of a quarantined Worker without consumer,
\* unless the quarantine or the removal of the consumer was given up on and took
\* effect later.
THEOREM DrainedFirst == Spec => []DetachedIsDrained
<1>1. IInv => DetachedIsDrained
  BY DEF IInv
<1> QED BY <1>1, Invariance, PTL

\* A deployment that nobody killed ends with the Worker in service or wholly out
\* of it, or with the recovery marker, as long as nothing it gave up on takes
\* effect; requests that fail, or lose their answer, do not matter.
THEOREM SettledOrMarked == Spec => []MarkerOrSettled
<1>1. IInv => MarkerOrSettled
  BY DEF IInv, Sides, InService, OutOfService, MarkerOrSettled
<1> QED BY <1>1, Invariance, PTL

\* The tool opens the public edge over the legacy module with a consumer attached,
\* unless a quarantine or a removal of the consumer it had given up on has taken
\* effect since the last cutover began; the other opening there is, is one it gave up
\* on that takes effect.
THEOREM EdgeLast == Spec => EdgeOpensLast
<1> DEFINE Opening == ~edge /\ edge' =>
                      \/ content = "legacy" /\ consumers > 0
                      \/ landed' \cap {"quarantine", "detach", "open"} # {}
<1>1. ASSUME IInv, Next PROVE Opening
  <2>1. CASE Publish \/ PublishAgain
    BY <1>1, <2>1 DEF IInv, ConsumerKept, Publish, PublishAgain, Quiet, requests
  <2>2. CASE ToolStep /\ ~Publish /\ ~PublishAgain
    BY <2>2 DEF ToolStep, Backup, Local, SaveBackup, provider, Flush, SaveContent,
       SaveMeta, Disable, Reading, BeginCutover, Recheck, Quarantine, CloseEdge,
       Drain, Detach, After, Restore, RestoreContent, PostConsumer, KeepConsumer,
       ContentLost, PollConsumer, Publish, PublishAgain, Verify
  <2>3. CASE RequestFails \/ Provider
    BY <2>3 DEF RequestFails, Provider, Invoke, Produce, Consume, LandModule,
       LandEdge, Lands, LandAttach, LandDetach, DropTarget, provider
  <2>4. CASE Scripted \/ Recover \/ Retry \/ Kill
    BY <2>4 DEF Scripted, Begin, cutover, provider, InstallUnits, Prove, Start,
       Reading, Local, BackedUp, CutOver, Activate, WriteReceipts, OnError,
       Restored, RollbackLocal, Recover, Retry, Kill
  <2> QED BY <1>1, <2>1, <2>2, <2>3, <2>4 DEF Next
<1>2. IInv /\ [Next]_vars => [Opening]_vars
  BY <1>1 DEF vars, cutover, provider
<1> QED BY <1>2, Invariance, PTL DEF Spec, EdgeOpensLast

=============================================================================
