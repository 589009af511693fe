------------------------------- MODULE RowImport -------------------------------
(***************************************************************************)
(* The data steps of a deployment and of the finalisation: import_d1.py,   *)
(* seed_instrument_types.py, apply_endpoint_overrides.py and import_kv.py, *)
(* run one after the other on the production database, each of which may   *)
(* be killed, be refused, or be run again by a later release, while the    *)
(* release installed before goes on storing scraped pages in the tables.   *)
(***************************************************************************)
EXTENDS Integers, FiniteSets, Sequences

CONSTANTS
  Rescued,        \* the ids of each store's rescued rows
  ExpectedCount,  \* EXPECTED_COUNT: the taxonomy has the ids 1 .. ExpectedCount
  Manifests,      \* the endpoint manifests of the releases
  None,           \* no manifest
  MaxId,          \* bound: ids
  MaxRuns         \* bound: runs of the data steps

\* TABLE_COLUMNS; r2_uploads stands for scrape_jobs and scrape_logs as well,
\* which like it are empty in the rescue and only written by the service.
D1Tables == {"counties", "deed_records", "instrument_types", "r2_uploads"}
Stores == D1Tables \cup {"dedup_kv"}
Ids == 1 .. MaxId

ASSUME ImportAssumption ==
  /\ MaxId \in Nat /\ MaxRuns \in Nat /\ None \notin Manifests
  /\ ExpectedCount \in Nat /\ ExpectedCount <= MaxId
  /\ Rescued \in [Stores -> SUBSET Ids]
  /\ Rescued["instrument_types"] = {}

\* The orders of provision_data, and of verify_provisioning_compatibility and
\* the finalisation.
Provisioning == <<"counties", "deed_records", "instrument_types", "r2_uploads",
                  "taxonomy", "endpoints", "dedup_kv">>
Recheck == <<"counties", "deed_records", "instrument_types", "r2_uploads",
             "taxonomy", "dedup_kv", "endpoints">>
Last == 7
Steps == Stores \cup {"taxonomy", "endpoints"}

VARIABLES
  rows,      \* the committed ids of each store
  changed,   \* rescued deeds that a later page has rewritten
  next,      \* the next value of each table's identity sequence
  receipts,  \* the stores with an import receipt (d1_table, kv_namespace)
  active,    \* the manifest whose endpoints the counties have
  applied,   \* the run that last confirmed each manifest's receipt, 0 if none
  proved,    \* the run that last wrote a step's subset or taxonomy receipt
  plan, at,  \* the steps of the current run, and the next one
  pc,        \* where the run is within its step
  written,   \* ids written by the open transaction
  run,       \* the number of the run
  manifest,  \* the manifest of its release
  outcome,   \* how it ended
  serving    \* a release was installed on provisioned data

data == <<rows, changed, next, receipts, active, applied, proved>>
control == <<plan, at, pc, written, run, manifest, outcome, serving>>
vars == <<data, control>>

Init ==
  /\ rows = [s \in Stores |-> {}] /\ changed = {}
  /\ next = [s \in D1Tables |-> 1]
  /\ receipts = {} /\ active = None
  /\ applied = [m \in Manifests |-> 0] /\ proved = [s \in Steps |-> 0]
  /\ plan = Provisioning /\ at = 1 /\ pc = "idle" /\ written = {}
  /\ run = 0 /\ manifest = None /\ outcome = "none" /\ serving = FALSE

-----------------------------------------------------------------------------
(* A run.                                                                  *)

\* Compatibility and the finalisation look again at data that was provisioned.
Begin ==
  /\ pc = "idle" /\ pc' = "step"
  /\ run < MaxRuns /\ run' = run + 1
  /\ \/ plan' = Provisioning
     \/ serving /\ plan' = Recheck
  /\ at' = 1 /\ manifest' \in Manifests /\ outcome' = "none"
  /\ UNCHANGED <<data, written, serving>>

Finish ==
  /\ pc = "step" /\ at > Last /\ pc' = "idle"
  /\ outcome' = "green" /\ serving' = TRUE
  /\ UNCHANGED <<data, plan, at, written, run, manifest>>

\* A slip the properties must catch: the next run goes on with the transaction.
InterruptUncommitted ==
  /\ pc # "idle" /\ pc' = "idle" /\ outcome' = "killed"
  /\ UNCHANGED <<data, plan, at, written, run, manifest, serving>>

\* A kill, or a failure of the host or of the connection: the transaction is lost.
Interrupt ==
  /\ pc # "idle" /\ pc' = "idle" /\ outcome' = "killed" /\ written' = {}
  /\ UNCHANGED <<data, plan, at, run, manifest, serving>>

AtStep(s) == pc = "step" /\ at <= Last /\ plan[at] = s
StepDone(s) ==
  /\ at' = at + 1 /\ proved' = [proved EXCEPT ![s] = run]
  /\ UNCHANGED <<plan, run, manifest, outcome, serving>>

-----------------------------------------------------------------------------
(* import_table and import_namespace.                                      *)

\* verify_imported_subset, _verify_owned_subset: every rescued row is there,
\* and no column of a rescued deed has changed.
Kept(s) == Rescued[s] \subseteq rows[s] /\ (s = "deed_records" => changed = {})

\* A slip the properties must catch: the table may not have grown.
CanPreserveExact(s) == s \in receipts /\ rows[s] = Rescued[s] /\ Kept(s)

\* Both no-op and preserved-operational-state.
CanPreserve(s) ==
  s \in receipts /\ Cardinality(rows[s]) >= Cardinality(Rescued[s]) /\ Kept(s)

CanImport(s) == s \notin receipts /\ rows[s] = {}

Preserve(s) ==
  /\ AtStep(s) /\ CanPreserve(s) /\ StepDone(s)
  /\ UNCHANGED <<rows, changed, next, receipts, active, applied, pc, written>>

BeginImport(s) ==
  /\ AtStep(s) /\ CanImport(s) /\ pc' = "insert"
  /\ UNCHANGED <<data, plan, at, written, run, manifest, outcome, serving>>

Importing(s) == pc = "insert" /\ plan[at] = s

\* A slip the properties must catch: every batch is committed.
InsertCommitted(s) ==
  /\ Importing(s)
  /\ \E last \in Rescued[s] \ written :
       /\ written' = {id \in Rescued[s] : id <= last}
       /\ rows' = [rows EXCEPT ![s] = @ \cup written']
  /\ UNCHANGED <<changed, next, receipts, active, applied, proved,
                 plan, at, pc, run, manifest, outcome, serving>>

\* _upsert_batch, in the order of the ids.
InsertBatch(s) ==
  /\ Importing(s)
  /\ \E last \in Rescued[s] \ written :
       written' = {id \in Rescued[s] : id <= last}
  /\ UNCHANGED <<data, plan, at, pc, run, manifest, outcome, serving>>

\* setval(COALESCE(MAX(id), 1), EXISTS (...)) leaves n as the next value.
Follows(n, ids) == (\A id \in ids : id < n) /\ (n = 1 \/ n - 1 \in ids)

\* A slip the properties must catch: the sequence is left where it was.
SetValNot(s) ==
  /\ Importing(s) /\ written = Rescued[s] /\ pc' = "verify"
  /\ UNCHANGED <<data, plan, at, written, run, manifest, outcome, serving>>

\* Not undone by a rollback.  Keys of the KV namespace have no sequence.
SetVal(s) ==
  /\ Importing(s) /\ written = Rescued[s] /\ pc' = "verify"
  /\ \/ s \in D1Tables /\ \E n \in 1 .. MaxId + 1 :
          Follows(n, written) /\ next' = [next EXCEPT ![s] = n]
     \/ s \notin D1Tables /\ UNCHANGED next
  /\ UNCHANGED <<rows, changed, receipts, active, applied, proved,
                 plan, at, written, run, manifest, outcome, serving>>

\* The rows, re-read, the import receipt and the subset receipt are committed
\* together.
CommitImport(s) ==
  /\ pc = "verify" /\ plan[at] = s /\ rows[s] \cup written = Rescued[s]
  /\ pc' = "step" /\ StepDone(s)
  /\ rows' = [rows EXCEPT ![s] = @ \cup written] /\ written' = {}
  /\ receipts' = receipts \cup {s}
  /\ UNCHANGED <<changed, next, active, applied>>

ImportStep(s) ==
  Preserve(s) \/ BeginImport(s) \/ InsertBatch(s) \/ SetVal(s) \/ CommitImport(s)

-----------------------------------------------------------------------------
(* seed_taxonomy and apply_manifest, each one transaction.                 *)

TaxonomyIds == 1 .. ExpectedCount

CanSeed ==
  rows["instrument_types"] = {} \/ TaxonomyIds \subseteq rows["instrument_types"]

Seed ==
  /\ AtStep("taxonomy") /\ CanSeed /\ StepDone("taxonomy")
  /\ \/ /\ rows["instrument_types"] = {}
        /\ rows' = [rows EXCEPT !["instrument_types"] = TaxonomyIds]
        /\ next' = [next EXCEPT !["instrument_types"] = ExpectedCount + 1]
     \/ rows["instrument_types"] # {} /\ UNCHANGED <<rows, next>>
  /\ UNCHANGED <<changed, receipts, active, applied, pc, written>>

\* A slip the properties must catch: the receipt of a manifest is enough.
CanApplyKnown == Rescued["counties"] \subseteq rows["counties"]

\* A manifest with a receipt must be what the counties have (_state_matches).
CanApply ==
  /\ Rescued["counties"] \subseteq rows["counties"]
  /\ applied[manifest] > 0 => active = manifest

Apply ==
  /\ AtStep("endpoints") /\ CanApply /\ StepDone("endpoints")
  /\ active' = IF applied[manifest] > 0 THEN active ELSE manifest
  /\ applied' = [applied EXCEPT ![manifest] = run]
  /\ UNCHANGED <<rows, changed, next, receipts, pc, written>>

\* The step raises, and the deployment or the finalisation is red.
Refuse ==
  /\ \/ \E s \in Stores : AtStep(s) /\ ~CanPreserve(s) /\ ~CanImport(s)
     \/ AtStep("taxonomy") /\ ~CanSeed
     \/ AtStep("endpoints") /\ ~CanApply
  /\ pc' = "idle" /\ outcome' = "refused"
  /\ UNCHANGED <<data, plan, at, written, run, manifest, serving>>

-----------------------------------------------------------------------------
(* complete_scrape of the installed release, at any time.                  *)

\* A page takes a new id of r2_uploads and, for a record, one of deed_records;
\* a record known by (county, instrument_type, external_id) rewrites its deed,
\* and the id that the sequence gave it is lost.
SavePage ==
  /\ serving /\ next["deed_records"] <= MaxId /\ next["r2_uploads"] <= MaxId
  /\ next' = [next EXCEPT !["deed_records"] = @ + 1, !["r2_uploads"] = @ + 1]
  /\ \/ /\ rows' = [rows EXCEPT !["deed_records"] = @ \cup {next["deed_records"]},
                                !["r2_uploads"] = @ \cup {next["r2_uploads"]}]
        /\ UNCHANGED changed
     \/ /\ rows' = [rows EXCEPT !["r2_uploads"] = @ \cup {next["r2_uploads"]}]
        /\ \E id \in rows["deed_records"] :
             changed' = changed \cup ({id} \cap Rescued["deed_records"])
  /\ UNCHANGED <<receipts, active, applied, proved, control>>

-----------------------------------------------------------------------------

Next ==
  \/ Begin \/ Finish \/ Interrupt \/ Refuse
  \/ \E s \in Stores : ImportStep(s)
  \/ Seed \/ Apply \/ SavePage

Spec == Init /\ [][Next]_vars

-----------------------------------------------------------------------------
(* Properties.                                                             *)

DataOK ==
  /\ rows \in [Stores -> SUBSET Ids] /\ changed \subseteq Rescued["deed_records"]
  /\ next \in [D1Tables -> 1 .. MaxId + 1] /\ receipts \subseteq Stores
  /\ active \in Manifests \cup {None}
  /\ applied \in [Manifests -> 0 .. MaxRuns] /\ proved \in [Steps -> 0 .. MaxRuns]

\* Every variable has its type, and no transaction is open between runs.
TypeOK ==
  /\ DataOK
  /\ plan \in {Provisioning, Recheck} /\ at \in 1 .. Last + 1
  /\ pc \in {"idle", "step", "insert", "verify"}
  /\ written \subseteq Ids /\ (pc \in {"idle", "step"} => written = {})
  /\ run \in 0 .. MaxRuns /\ manifest \in Manifests \cup {None}
  /\ outcome \in {"none", "green", "refused", "killed"} /\ serving \in BOOLEAN

\* A table with an import receipt has every rescued row, and one without has no
\* row at all: a killed import leaves nothing that makes the next one refuse
\* (import_table, import_namespace).
ReceiptIsWhole ==
  \A s \in Stores :
    IF s \in receipts THEN Rescued[s] \subseteq rows[s] ELSE rows[s] = {}

\* The service never draws an id that an import or the seed has taken: the
\* sequence of a table is past its rows, whatever was killed (setval).
LiveIdsFree ==
  \A s \in D1Tables : \A id \in rows[s] : id < next[s]

\* README: provisioning is "deliberately monotonic and idempotent".  A run is
\* refused for two causes only: a page rewrote a rescued deed, or the counties
\* have the endpoints of another release's manifest, applied after the receipt
\* of this one.  Neither a killed run nor rows added by the service is one.
RefusedForCause ==
  outcome = "refused" =>
    \/ changed # {}
    \/ applied[manifest] > 0 /\ active # manifest

\* A green run has proved every store again, and the counties have the endpoints
\* of its own release, whichever release ran before (the statements about
\* migration_receipts in finalize_migration.sql).
GreenIsProved ==
  outcome = "green" =>
    /\ \A s \in Steps : proved[s] = run
    /\ active = manifest /\ applied[manifest] = run
    /\ TaxonomyIds \subseteq rows["instrument_types"]

=============================================================================
