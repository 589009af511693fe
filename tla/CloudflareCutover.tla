-------------------------- MODULE CloudflareCutover -------------------------
(***************************************************************************)
(* cloudflare_reconcile.py: the tool that takes the rescued Worker out of  *)
(* service (disable) and puts it back (restore), one request to the        *)
(* provider at a time, with its backups on disk.  The provider goes on     *)
(* meanwhile: the Worker's cron and public edge feed a queue, the queue's  *)
(* consumer drains it.  A request may fail, its answer may be lost, a      *)
(* change that timed out may take effect long after the tool has given up  *)
(* on it, and the tool may be killed at any step.                          *)
(*                                                                         *)
(* Cron expression, custom domains, settings digest and queue identity are *)
(* the same at every read here: the tool only refuses to go on when they   *)
(* drift.                                                                  *)
(***************************************************************************)
EXTENDS Naturals

CONSTANTS
  MaxBacklog,  \* bound: messages the legacy queue is let to hold
  MaxFaults    \* bound: provider requests that fail, time out or lose their answer

ASSUME CutoverAssumption == MaxBacklog \in Nat /\ MaxFaults \in Nat

VARIABLES
  consumers,      \* consumers attached to the legacy queue
  content,        \* the module the Worker runs: "legacy" or "quarantined"
  edge,           \* workers.dev serves the Worker
  backlog,        \* messages in the legacy queue
  invoked,        \* a legacy handler has started and not yet enqueued
  target,         \* the consumer whose id disable last read is attached
  late,           \* changes given up on that may still take effect, of each kind
  landed,         \* history: kinds that did since disable last read its baseline
  backup,         \* BACKUP_PATH: "none", "partial" (unreadable) or "good"
  contentBackup,  \* the content file and its metadata, likewise
  marker,         \* RECOVERY_PATH exists
  at,             \* what the tool does next
  then,           \* what follows a save or restore: "exit", "recheck",
                  \* "raise" or "quarantine"
  result,         \* how the last command ended
  faults

provider == <<consumers, content, edge, target>>
queueing == <<backlog, invoked>>
requests == <<late, landed>>
files == <<backup, contentBackup>>
control == <<at, then, result>>
cutover == <<provider, queueing, requests, files, marker, control, faults>>

\* The changes the tool asks of the provider: PUT of either module, DELETE and
\* POST of the subdomain, DELETE and POST of the consumer.
Changes == {"quarantine", "legacy", "close", "open", "detach", "attach"}

FileStates == {"none", "partial", "good"}

Steps == {"idle", "backup", "disable", "recheck", "flush", "save_content", "save_meta",
          "quarantine", "close_edge", "drain", "detach", "after", "restore", "content",
          "consumer", "poll", "publish", "verify"}

\* The steps inside disable's try block, whose handler is restore.
Guarded == {"quarantine", "close_edge", "drain", "detach"}

CutoverInit ==
  /\ consumers = 1 /\ content = "legacy" /\ edge = TRUE
  /\ backlog = 0 /\ invoked = FALSE
  /\ target = FALSE /\ late = [c \in Changes |-> 0] /\ landed = {}
  /\ backup = "none" /\ contentBackup = "none" /\ marker = FALSE
  /\ at = "idle" /\ then = "exit" /\ result = "none"
  /\ faults = 0

-----------------------------------------------------------------------------
(* The provider on its own.                                                *)

\* A request to the public edge, or the hourly cron, starts the legacy handler.
\* The quarantined module answers 410 and ignores the cron.
Invoke ==
  /\ content = "legacy" /\ ~invoked
  /\ invoked' = TRUE
  /\ UNCHANGED <<provider, backlog, requests, files, marker, control, faults>>

Produce ==
  /\ invoked /\ backlog < MaxBacklog
  /\ invoked' = FALSE
  /\ backlog' \in {backlog, backlog + 1}
  /\ UNCHANGED <<provider, requests, files, marker, control, faults>>

\* Both modules hand the batch to the legacy queue handler.
Consume ==
  /\ consumers > 0 /\ backlog > 0
  /\ backlog' = backlog - 1
  /\ UNCHANGED <<provider, invoked, requests, files, marker, control, faults>>

\* A change given up on takes effect after all.
Lands(c) ==
  /\ late[c] > 0
  /\ landed' = landed \cup {c}
  /\ UNCHANGED <<queueing, files, marker, control, faults>>

LandModule ==
  \E c \in {"quarantine", "legacy"} :
    /\ Lands(c) /\ late' = [late EXCEPT ![c] = @ - 1]
    /\ content' = IF c = "legacy" THEN "legacy" ELSE "quarantined"
    /\ UNCHANGED <<consumers, edge, target>>

LandEdge ==
  \E c \in {"close", "open"} :
    /\ Lands(c) /\ late' = [late EXCEPT ![c] = @ - 1]
    /\ edge' = (c = "open")
    /\ UNCHANGED <<consumers, content, target>>

LandAttach ==
  /\ Lands("attach") /\ late' = [late EXCEPT !["attach"] = @ - 1]
  /\ consumers' = consumers + 1
  /\ UNCHANGED <<content, edge, target>>

\* The consumer with the id that disable read goes, and with it all that the other
\* DELETEs on their way could find: only a sole consumer's id is ever read.
DropTarget ==
  /\ target /\ target' = FALSE
  /\ consumers' = consumers - 1
  /\ late' = [late EXCEPT !["detach"] = 0]

LandDetach ==
  /\ Lands("detach") /\ DropTarget
  /\ UNCHANGED <<content, edge>>

Provider ==
  \/ Invoke \/ Produce \/ Consume
  \/ LandModule \/ LandEdge \/ LandAttach \/ LandDetach

-----------------------------------------------------------------------------
(* What the tool reads.                                                    *)

ProducersQuiesced == content = "quarantined" /\ ~edge

IsDisabled == consumers = 0 /\ ProducersQuiesced /\ backlog = 0

Baseline == backlog = 0 /\ consumers = 1 /\ edge /\ content = "legacy"

RecognizedPartial ==
  /\ backup = "good" /\ consumers <= 1 /\ backlog = 0
  /\ consumers = 0 \/ ~edge \/ content = "quarantined"

Restoreable == backup = "good" /\ contentBackup = "good"

(* How a step of the tool ends. *)

Goto(step) == at' = step /\ UNCHANGED <<then, result>>

Finish(how) == at' = "idle" /\ result' = how /\ then' = "exit"

\* An exception.  disable's handler restores and raises again; everything
\* else, restore included, propagates it and the command fails.
Raise ==
  \/ at \in Guarded /\ at' = "restore" /\ then' = "raise" /\ UNCHANGED result
  \/ at \notin Guarded /\ Finish("failed")

Fault == faults < MaxFaults /\ faults' = faults + 1

\* A change took effect; its answer arrives, or is lost and taken for a failure.
Answer(step) ==
  \/ Goto(step) /\ UNCHANGED faults
  \/ Raise /\ Fault

\* The changes the tool asks for at this step.  Modules and edge are sent only
\* where they are not yet as wanted, the edge again while it is verified.
Sent ==
  CASE at = "quarantine" /\ content = "legacy" -> {"quarantine"}
    [] at = "content" /\ content = "quarantined" -> {"legacy"}
    [] at = "close_edge" -> {"close"}
    [] at = "publish" /\ ~edge -> {"open"}
    [] at = "verify" /\ ~edge /\ consumers <= 1 /\ content = "legacy" -> {"open"}
    [] at = "detach" /\ target -> {"detach"}
    [] at = "consumer" /\ content = "legacy" /\ consumers = 0 -> {"attach"}
    [] OTHER -> {}

\* The tool gives up on the answer: what it asked for never happens, or may still.
GiveUp ==
  /\ \/ UNCHANGED late
     \/ \E c \in Sent : late' = [late EXCEPT ![c] = @ + 1]
  /\ UNCHANGED landed

\* A request that fails or times out (the consumer's creation: PostConsumer).
RequestFails ==
  /\ at # "idle"
  /\ Raise /\ Fault
  /\ IF at = "consumer" THEN UNCHANGED requests ELSE GiveUp
  /\ UNCHANGED <<provider, queueing, files, marker>>

Local == UNCHANGED <<provider, queueing, requests, marker, faults>>
Reading == Local /\ UNCHANGED files
Quiet == UNCHANGED <<queueing, requests, files, marker>>

-----------------------------------------------------------------------------
(* Commands.                                                               *)

Start(command) ==
  /\ at = "idle"
  /\ at' = command /\ then' = "exit" /\ result' = "none"
  /\ Reading

\* _save_backup on the state just read.  O_EXCL creates the file before it is
\* written: until "flush" a reader finds it unreadable.
SaveBackup(next) ==
  \/ backup = "good" /\ (IsDisabled \/ Baseline)
     /\ at' = "save_content" /\ then' = next /\ UNCHANGED <<result, files>>
  \/ backup = "none" /\ Baseline
     /\ backup' = "partial"
     /\ at' = "flush" /\ then' = next /\ UNCHANGED <<result, contentBackup>>
  \/ ~(backup = "good" /\ IsDisabled) /\ ~(backup # "partial" /\ Baseline)
     /\ Raise /\ UNCHANGED files

Backup == at = "backup" /\ SaveBackup("exit") /\ Local

Flush ==
  /\ at = "flush"
  /\ backup' = "good" /\ Goto("save_content")
  /\ UNCHANGED contentBackup /\ Local

Saved ==
  \/ then = "exit" /\ Finish("ok")
  \/ then = "quarantine" /\ at' = "quarantine" /\ then' = "exit" /\ UNCHANGED result

\* A slip the properties must catch: a content file without its metadata counts
\* as a backup.
SaveContentReuse ==
  /\ at = "save_content"
  /\ \/ contentBackup # "none" /\ Saved /\ UNCHANGED contentBackup
     \/ contentBackup = "none" /\ content = "legacy"
        /\ contentBackup' = "partial" /\ Goto("save_meta")
  /\ UNCHANGED backup /\ Local

SaveContent ==
  /\ at = "save_content"
  /\ \/ contentBackup = "good" /\ Saved /\ UNCHANGED contentBackup
     \/ contentBackup = "none" /\ content = "legacy"
        /\ contentBackup' = "partial" /\ Goto("save_meta")
     \/ contentBackup # "good" /\ ~(contentBackup = "none" /\ content = "legacy")
        /\ Raise /\ UNCHANGED contentBackup
  /\ UNCHANGED backup /\ Local

\* The content file goes again when its metadata cannot be written; the
\* metadata file may be left behind half written.
SaveMeta ==
  /\ at = "save_meta"
  /\ \/ contentBackup' = "good" /\ Saved /\ UNCHANGED faults
     \/ contentBackup' \in {"none", "partial"} /\ Raise /\ Fault
  /\ UNCHANGED <<backup, provider, queueing, requests, marker>>

\* The baseline is read, with the id of the one consumer there is, and saved.
BeginCutover ==
  /\ Baseline
  /\ target' = TRUE /\ landed' = {}
  /\ SaveBackup("quarantine")
  /\ UNCHANGED <<consumers, content, edge, queueing, late, marker, faults>>

Disable ==
  /\ at = "disable"
  /\ \/ IsDisabled /\ Restoreable /\ Finish("already") /\ Reading
     \/ IsDisabled /\ ~Restoreable /\ Raise /\ Reading
     \/ BeginCutover
     \/ ~IsDisabled /\ ~Baseline /\ RecognizedPartial
        /\ at' = "restore" /\ then' = "recheck" /\ UNCHANGED result /\ Reading
     \/ ~IsDisabled /\ ~Baseline /\ ~RecognizedPartial /\ Raise /\ Reading

Recheck ==
  /\ at = "recheck"
  /\ \/ BeginCutover
     \/ ~Baseline /\ Raise /\ Reading

Quarantine ==
  /\ at = "quarantine"
  /\ \/ content = "legacy" /\ content' = "quarantined" /\ Answer("close_edge")
     \/ content = "quarantined" /\ Goto("close_edge") /\ UNCHANGED <<content, faults>>
  /\ UNCHANGED <<consumers, edge, target>> /\ Quiet

CloseEdge ==
  /\ at = "close_edge"
  /\ edge' = FALSE
  /\ Answer("drain")
  /\ UNCHANGED <<consumers, content, target>> /\ Quiet

\* A slip the properties must catch: one empty reading instead of a quiet window.
DrainedNow == ProducersQuiesced /\ consumers = 1 /\ backlog = 0

\* The quiet window outlasts every handler that had started: it cannot close
\* over one still to enqueue.
Drained == ProducersQuiesced /\ consumers = 1 /\ backlog = 0 /\ ~invoked

Drain ==
  /\ at = "drain"
  /\ \/ Drained /\ Goto("detach")
     \/ (consumers # 1 \/ ~ProducersQuiesced \/ backlog > 0) /\ Raise
  /\ Reading

\* Not found when a DELETE of the same consumer has landed before.
Detach ==
  /\ at = "detach"
  /\ \/ DropTarget /\ Answer("after")
     \/ ~target /\ Raise /\ UNCHANGED <<consumers, target, late, faults>>
  /\ UNCHANGED <<content, edge, queueing, landed, files, marker>>

After ==
  /\ at = "after"
  /\ \/ IsDisabled /\ Finish("ok")
     \/ ~IsDisabled /\ at' = "restore" /\ then' = "raise" /\ UNCHANGED result
  /\ Reading

-----------------------------------------------------------------------------
(* restore: content first, then the consumer, then the public edge.        *)

\* A slip the properties must catch: a missing consumer counts as drift.
RestoreAttached ==
  /\ at = "restore"
  /\ \/ Restoreable /\ consumers = 1 /\ Goto("content")
     \/ (~Restoreable \/ consumers # 1) /\ Raise
  /\ Reading

Restore ==
  /\ at = "restore"
  /\ \/ Restoreable /\ consumers <= 1 /\ Goto("content")
     \/ (~Restoreable \/ consumers > 1) /\ Raise
  /\ Reading

RestoreContent ==
  /\ at = "content"
  /\ \/ content = "quarantined" /\ content' = "legacy" /\ Answer("consumer")
     \/ content = "legacy" /\ Goto("consumer") /\ UNCHANGED <<content, faults>>
  /\ UNCHANGED <<consumers, edge, target>> /\ Quiet

\* The state is read again; the creation is sent once, and every failure of it is
\* swallowed: it took effect, it never will, or it still may.
PostConsumer ==
  /\ at = "consumer" /\ content = "legacy" /\ consumers = 0
  /\ \/ consumers' = 1 /\ UNCHANGED <<requests, faults>>
     \/ Fault /\ GiveUp /\ UNCHANGED consumers
  /\ Goto("poll")
  /\ UNCHANGED <<content, edge, target, queueing, files, marker>>

KeepConsumer ==
  /\ at = "consumer" /\ content = "legacy" /\ consumers > 0
  /\ Goto("publish")
  /\ Reading

ContentLost ==
  /\ at = "consumer" /\ content # "legacy"
  /\ Raise
  /\ Reading

\* A slip the properties must catch: the creation's answer is not waited for.
PollOnce ==
  /\ at = "poll"
  /\ Goto("publish")
  /\ Reading

PollConsumer ==
  /\ at = "poll"
  /\ \/ consumers = 1 /\ Goto("publish")
     \/ consumers # 1 /\ Raise
  /\ Reading

Publish ==
  /\ at = "publish"
  /\ \/ ~edge /\ edge' = TRUE /\ Answer("verify")
     \/ edge /\ Goto("verify") /\ UNCHANGED <<edge, faults>>
  /\ UNCHANGED <<consumers, content, target>> /\ Quiet

\* The verification loop opens the edge again, consumer or not, when it finds it
\* closed.
PublishAgain ==
  /\ at = "verify" /\ ~edge /\ consumers <= 1 /\ content = "legacy"
  /\ edge' = TRUE /\ Answer("verify")
  /\ UNCHANGED <<consumers, content, target>> /\ Quiet

\* All is as saved; or something is not, at once or when the time is up.
Verify ==
  /\ at = "verify"
  /\ \/ consumers = 1 /\ edge /\ content = "legacy" /\ marker' = FALSE
        /\ \/ then = "exit" /\ Finish("ok")
           \/ then = "raise" /\ Finish("failed")
           \/ then = "recheck" /\ at' = "recheck" /\ then' = "exit" /\ UNCHANGED result
     \/ (consumers # 1 \/ ~edge \/ content # "legacy") /\ Raise /\ UNCHANGED marker
  /\ UNCHANGED <<provider, queueing, requests, files, faults>>

ToolStep ==
  \/ Backup \/ Flush \/ SaveContent \/ SaveMeta
  \/ Disable \/ Recheck \/ Quarantine \/ CloseEdge \/ Drain \/ Detach \/ After
  \/ Restore \/ RestoreContent \/ PostConsumer \/ KeepConsumer \/ ContentLost
  \/ PollConsumer \/ Publish \/ PublishAgain \/ Verify

=============================================================================
