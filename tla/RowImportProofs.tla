---------------------------- MODULE RowImportProofs ----------------------------
(***************************************************************************)
(* What RowImport keeps for every rescue, every set of manifests and any   *)
(* number of runs.  The inductive invariant adds to the properties what a  *)
(* run knows of the steps it has passed and what an open import may still  *)
(* rely on.                                                                *)
(***************************************************************************)
EXTENDS RowImport, FiniteSetTheorems, TLAPS

\* The steps of the current run that are done.
Passed == {plan[i] : i \in 1 .. at - 1}

\* What the steps that are done have left behind, for the rest of the run.
PassedHolds ==
  pc # "idle" =>
    \A s \in Passed :
      /\ proved[s] = run
      /\ s \in Stores => s \in receipts
      /\ s = "taxonomy" => TaxonomyIds \subseteq rows["instrument_types"]
      /\ s = "endpoints" => active = manifest /\ applied[manifest] = run

\* A run that has not ended has no outcome; an open import is that of a store
\* without a receipt, whose sequence is past the rows it has written.
OpenImport ==
  /\ pc # "idle" => outcome = "none" /\ manifest \in Manifests
  /\ pc \in {"insert", "verify"} =>
       /\ at <= Last /\ plan[at] \in Stores /\ plan[at] \notin receipts
       /\ written \subseteq Rescued[plan[at]]
  /\ pc = "verify" /\ plan[at] \in D1Tables =>
       \A id \in written : id < next[plan[at]]

\* The service runs on imported tables only, and nothing but the seed writes
\* the taxonomy.
Settled ==
  /\ serving => Stores \subseteq receipts
  /\ rows["instrument_types"] \in {{}, TaxonomyIds}

IInv ==
  /\ TypeOK /\ ReceiptIsWhole /\ LiveIdsFree /\ RefusedForCause /\ GreenIsProved
  /\ PassedHolds /\ OpenImport /\ Settled

-----------------------------------------------------------------------------

\* Both orders have all the steps, the counties first and the taxonomy after the
\* table that it seeds.
LEMMA PlanFacts ==
  ASSUME TypeOK
  PROVE  /\ \A i \in 1 .. Last : plan[i] \in Steps
         /\ plan[1] = "counties" /\ plan[3] = "instrument_types"
         /\ \A i \in 1 .. Last : plan[i] = "taxonomy" => i = 5
         /\ \A i \in 1 .. Last : plan[i] = "endpoints" => i >= 6
         /\ \A s \in Steps : \E i \in 1 .. Last : plan[i] = s
<1>1. CASE plan = Provisioning
  <2>1. /\ plan[1] = "counties" /\ plan[2] = "deed_records"
        /\ plan[3] = "instrument_types" /\ plan[4] = "r2_uploads"
        /\ plan[5] = "taxonomy" /\ plan[6] = "endpoints" /\ plan[7] = "dedup_kv"
    BY <1>1 DEF Provisioning
  <2> QED
    BY <2>1 DEF Last, Steps, Stores, D1Tables
<1>2. CASE plan = Recheck
  <2>1. /\ plan[1] = "counties" /\ plan[2] = "deed_records"
        /\ plan[3] = "instrument_types" /\ plan[4] = "r2_uploads"
        /\ plan[5] = "taxonomy" /\ plan[6] = "dedup_kv" /\ plan[7] = "endpoints"
    BY <1>2 DEF Recheck
  <2> QED
    BY <2>1 DEF Last, Steps, Stores, D1Tables
<1> QED
  BY <1>1, <1>2 DEF TypeOK

\* The two steps of a plan that are not stores, and the types of the tables.
LEMMA Names ==
  /\ "taxonomy" \notin Stores /\ "endpoints" \notin Stores
  /\ D1Tables \subseteq Stores /\ Stores \subseteq Steps
  /\ {"counties", "deed_records", "instrument_types", "r2_uploads"} \subseteq D1Tables
  /\ {"taxonomy", "endpoints"} \subseteq Steps
  /\ TaxonomyIds \subseteq Ids /\ 1 .. ExpectedCount = TaxonomyIds
BY ImportAssumption DEF Stores, D1Tables, Steps, TaxonomyIds, Ids

\* A store with a receipt can be preserved unless a deed was rewritten, however
\* many rows the service has added.
LEMMA ReceiptPreserves ==
  ASSUME TypeOK, ReceiptIsWhole, NEW s \in Stores, s \in receipts, changed = {}
  PROVE  CanPreserve(s)
<1>1. Rescued[s] \subseteq rows[s] /\ rows[s] \subseteq 1 .. MaxId
  BY DEF ReceiptIsWhole, TypeOK, DataOK, Ids
<1>2. IsFiniteSet(rows[s])
  <2>1. 1 \in Int /\ MaxId \in Int
    BY ImportAssumption
  <2>2. IsFiniteSet(1 .. MaxId)
    BY ONLY <2>1, FS_Interval
  <2> QED
    BY ONLY <1>1, <2>2, FS_Subset
<1>3. Cardinality(Rescued[s]) <= Cardinality(rows[s])
  BY <1>1, <1>2, FS_Subset
<1>4. Cardinality(Rescued[s]) \in Nat /\ Cardinality(rows[s]) \in Nat
  BY <1>1, <1>2, FS_Subset, FS_CardinalityType
<1> QED
  BY <1>1, <1>3, <1>4 DEF CanPreserve, Kept

\* At the taxonomy step, and at that of the endpoints, the tables they need have
\* been imported.
LEMMA EarlierSteps ==
  ASSUME IInv, pc = "step", at <= Last
  PROVE  /\ plan[at] = "taxonomy" => "instrument_types" \in receipts
         /\ plan[at] = "endpoints" => "counties" \in receipts
<1> USE PlanFacts, Names DEF IInv, Last
<1>1. at \in 1 .. 7
  BY DEF TypeOK
<1>2. \A i \in 1 .. at - 1 : plan[i] \in Stores => plan[i] \in receipts
  BY DEF PassedHolds, Passed
<1>3. CASE plan[at] = "taxonomy"
  BY <1>1, <1>2, <1>3
<1>4. CASE plan[at] = "endpoints"
  BY <1>1, <1>2, <1>4
<1> QED
  BY <1>3, <1>4

\* A step that is done joins the steps passed.
LEMMA PassedGrows ==
  ASSUME TypeOK, NEW s, plan[at] = s, at' = at + 1, plan' = plan
  PROVE  Passed' = Passed \cup {s}
<1>1. at \in 1 .. Last + 1
  BY DEF TypeOK
<1>2. 1 .. at' - 1 = (1 .. at - 1) \cup {at}
  BY <1>1 DEF Last
<1> QED
  BY <1>2 DEF Passed

\* A page of the service only adds rows, under the ids that its tables' sequences
\* were at, and moves these sequences on.
LEMMA PageMoves ==
  ASSUME DataOK, SavePage
  PROVE  /\ next' \in [D1Tables -> 1 .. MaxId + 1] /\ rows' \in [Stores -> SUBSET Ids]
         /\ \A s \in Stores : rows[s] \subseteq rows'[s]
         /\ \A s \in D1Tables :
              next[s] \in Nat /\ next'[s] \in Nat /\ next[s] <= next'[s]
         /\ \A s \in D1Tables : \A id \in rows'[s] :
              id \in rows[s] \/ (id = next[s] /\ next'[s] = next[s] + 1)
         /\ rows'["instrument_types"] = rows["instrument_types"]
<1> DEFINE d == next["deed_records"]  u == next["r2_uploads"]
<1> USE Names
<1>1. /\ d \in 1 .. MaxId /\ d + 1 \in 1 .. MaxId + 1
      /\ u \in 1 .. MaxId /\ u + 1 \in 1 .. MaxId + 1
  <2>1. d \in 1 .. MaxId + 1 /\ u \in 1 .. MaxId + 1 /\ d <= MaxId /\ u <= MaxId
    BY DEF DataOK, SavePage
  <2>2. MaxId \in Nat
    BY ImportAssumption
  <2> QED
    BY ONLY <2>1, <2>2
<1>2. next' = [next EXCEPT !["deed_records"] = d + 1, !["r2_uploads"] = u + 1]
  BY DEF SavePage
<1>3. next \in [D1Tables -> 1 .. MaxId + 1]
  BY DEF DataOK
<1>4. \A s \in D1Tables :
        next'[s] = IF s = "deed_records" THEN d + 1
                   ELSE IF s = "r2_uploads" THEN u + 1 ELSE next[s]
  BY ONLY <1>2, <1>3, Names
<1>5. next' \in [D1Tables -> 1 .. MaxId + 1]
  BY ONLY <1>1, <1>2, <1>3, Names
<1>6. \A s \in D1Tables : next[s] \in Nat /\ next'[s] \in Nat /\ next[s] <= next'[s]
  <2>1. \A s \in D1Tables : next[s] \in Nat
    BY <1>3, ImportAssumption
  <2> QED
    BY <2>1, <1>1, <1>4
<1>7. rows \in [Stores -> SUBSET Ids] /\ {d} \subseteq Ids /\ {u} \subseteq Ids
  BY <1>1 DEF DataOK, Ids
<1>8. \/ rows' = [rows EXCEPT !["deed_records"] = @ \cup {d},
                           !["r2_uploads"] = @ \cup {u}]
      \/ rows' = [rows EXCEPT !["r2_uploads"] = @ \cup {u}]
  BY DEF SavePage
<1>9. rows' \in [Stores -> SUBSET Ids]
  BY ONLY <1>7, <1>8, Names
<1>10. \A s \in Stores :
         /\ rows[s] \subseteq rows'[s]
         /\ s \notin {"deed_records", "r2_uploads"} => rows'[s] = rows[s]
         /\ s = "deed_records" => rows'[s] \subseteq rows[s] \cup {d}
         /\ s = "r2_uploads" => rows'[s] \subseteq rows[s] \cup {u}
  BY ONLY <1>7, <1>8, Names
<1>11. \A s \in D1Tables : \A id \in rows'[s] :
         id \in rows[s] \/ (id = next[s] /\ next'[s] = next[s] + 1)
  BY <1>4, <1>10
<1> QED
  BY <1>5, <1>6, <1>9, <1>10, <1>11

\* Every step keeps the types of the database.
LEMMA DataStep ==
  ASSUME IInv, [Next]_vars
  PROVE  DataOK'
<1> USE ImportAssumption, Names DEF IInv, TypeOK, DataOK, Ids
<1>1. ASSUME Begin PROVE DataOK'
  BY <1>1 DEF Begin, data, control
<1>2. ASSUME Finish PROVE DataOK'
  BY <1>2 DEF Finish, data, control
<1>3. ASSUME Interrupt PROVE DataOK'
  BY <1>3 DEF Interrupt, data, control
<1>4. ASSUME Refuse PROVE DataOK'
  BY <1>4 DEF Refuse, data, control
<1>5. ASSUME NEW s \in Stores, Preserve(s) PROVE DataOK'
  BY <1>5 DEF Preserve, AtStep, StepDone, data, control
<1>6. ASSUME NEW s \in Stores, BeginImport(s) PROVE DataOK'
  BY <1>6 DEF BeginImport, AtStep, data, control
<1>7. ASSUME NEW s \in Stores, InsertBatch(s) PROVE DataOK'
  BY <1>7 DEF InsertBatch, Importing, data, control
<1>8. ASSUME NEW s \in Stores, SetVal(s) PROVE DataOK'
  <2>1. next' \in [D1Tables -> 1 .. MaxId + 1]
    BY <1>8 DEF SetVal
  <2> QED
    BY <2>1, <1>8 DEF SetVal
<1>9. ASSUME NEW s \in Stores, CommitImport(s) PROVE DataOK'
  <2>1. rows' \in [Stores -> SUBSET Ids] /\ receipts' \subseteq Stores
    BY <1>9 DEF CommitImport
  <2>2. proved' \in [Steps -> 0 .. MaxRuns]
    BY <1>9 DEF CommitImport, StepDone
  <2> QED
    BY <2>1, <2>2, <1>9 DEF CommitImport
<1>10. ASSUME Seed PROVE DataOK'
  <2>1. rows' \in [Stores -> SUBSET Ids]
    BY <1>10 DEF Seed
  <2>2. next' \in [D1Tables -> 1 .. MaxId + 1]
    <3>1. ExpectedCount + 1 \in 1 .. MaxId + 1
      OBVIOUS
    <3> QED
      BY ONLY DataOK, <3>1, <1>10, Names DEF Seed, DataOK
  <2>3. proved' \in [Steps -> 0 .. MaxRuns]
    BY <1>10 DEF Seed, StepDone
  <2> QED
    BY <2>1, <2>2, <2>3, <1>10 DEF Seed
<1>11. ASSUME Apply PROVE DataOK'
  <2>1. proved' \in [Steps -> 0 .. MaxRuns] /\ applied' \in [Manifests -> 0 .. MaxRuns]
    BY <1>11 DEF Apply, StepDone
  <2>2. active' \in Manifests \cup {None}
    BY <1>11 DEF Apply, AtStep, OpenImport
  <2> QED
    BY <2>1, <2>2, <1>11 DEF Apply
<1>12. ASSUME SavePage PROVE DataOK'
  BY <1>12, PageMoves DEF SavePage
<1>13. CASE UNCHANGED vars
  BY <1>13 DEF vars, data, control
<1> QED
  BY <1>1, <1>2, <1>3, <1>4, <1>5, <1>6, <1>7, <1>8, <1>9, <1>10,
     <1>11, <1>12, <1>13 DEF Next, ImportStep

\* Every step keeps the types.
LEMMA TypeStep ==
  ASSUME IInv, [Next]_vars
  PROVE  TypeOK'
<1> USE ImportAssumption, Names, DataStep DEF IInv, TypeOK, Last
<1>1. ASSUME Begin PROVE TypeOK'
  BY <1>1 DEF Begin, data, control
<1>2. ASSUME Finish PROVE TypeOK'
  BY <1>2 DEF Finish, data, control
<1>3. ASSUME Interrupt PROVE TypeOK'
  BY <1>3 DEF Interrupt, data, control
<1>4. ASSUME Refuse PROVE TypeOK'
  BY <1>4 DEF Refuse, AtStep, data
<1>5. ASSUME NEW s \in Stores, Preserve(s) PROVE TypeOK'
  BY <1>5 DEF Preserve, AtStep, StepDone, data, control
<1>6. ASSUME NEW s \in Stores, BeginImport(s) PROVE TypeOK'
  BY <1>6 DEF BeginImport, AtStep, data, control
<1>7. ASSUME NEW s \in Stores, InsertBatch(s) PROVE TypeOK'
  <2>1. written' \subseteq Ids
    BY <1>7 DEF InsertBatch, Ids, DataOK
  <2> QED
    BY <2>1, <1>7 DEF InsertBatch, Importing
<1>8. ASSUME NEW s \in Stores, SetVal(s) PROVE TypeOK'
  BY <1>8 DEF SetVal, Importing, data, control
<1>9. ASSUME NEW s \in Stores, CommitImport(s) PROVE TypeOK'
  BY <1>9 DEF CommitImport, StepDone, OpenImport
<1>10. ASSUME Seed PROVE TypeOK'
  BY <1>10 DEF Seed, AtStep, StepDone, data, control
<1>11. ASSUME Apply PROVE TypeOK'
  BY <1>11 DEF Apply, AtStep, StepDone, data, control
<1>12. ASSUME SavePage PROVE TypeOK'
  BY <1>12 DEF SavePage, control
<1>13. CASE UNCHANGED vars
  BY <1>13 DEF vars, data, control
<1> QED
  BY <1>1, <1>2, <1>3, <1>4, <1>5, <1>6, <1>7, <1>8, <1>9, <1>10,
     <1>11, <1>12, <1>13 DEF Next, ImportStep

\* Every step keeps receipts and rows together: rows of a store without a receipt
\* are only written by the commit that adds the receipt.
LEMMA ReceiptStep ==
  ASSUME IInv, [Next]_vars
  PROVE  ReceiptIsWhole'
<1> USE ImportAssumption, Names DEF IInv, ReceiptIsWhole
<1>1. ASSUME Begin PROVE ReceiptIsWhole'
  BY <1>1 DEF Begin, data, control
<1>2. ASSUME Finish PROVE ReceiptIsWhole'
  BY <1>2 DEF Finish, data, control
<1>3. ASSUME Interrupt PROVE ReceiptIsWhole'
  BY <1>3 DEF Interrupt, data, control
<1>4. ASSUME Refuse PROVE ReceiptIsWhole'
  BY <1>4 DEF Refuse, data, control
<1>5. ASSUME NEW s \in Stores, Preserve(s) PROVE ReceiptIsWhole'
  BY <1>5 DEF Preserve, AtStep, StepDone, data, control
<1>6. ASSUME NEW s \in Stores, BeginImport(s) PROVE ReceiptIsWhole'
  BY <1>6 DEF BeginImport, AtStep, data, control
<1>7. ASSUME NEW s \in Stores, InsertBatch(s) PROVE ReceiptIsWhole'
  BY <1>7 DEF InsertBatch, Importing, data, control
<1>8. ASSUME NEW s \in Stores, SetVal(s) PROVE ReceiptIsWhole'
  BY <1>8 DEF SetVal, Importing, data, control
<1>9. ASSUME NEW s \in Stores, CommitImport(s) PROVE ReceiptIsWhole'
  <2>1. rows' = [rows EXCEPT ![s] = @ \cup written] /\ receipts' = receipts \cup {s}
        /\ rows[s] \cup written = Rescued[s]
    BY <1>9 DEF CommitImport
  <2> QED
    BY <2>1 DEF TypeOK, DataOK
<1>10. ASSUME Seed PROVE ReceiptIsWhole'
  <2>1. "instrument_types" \in receipts
    BY <1>10, EarlierSteps DEF Seed, AtStep
  <2>2. \A s \in Stores : rows[s] \subseteq rows'[s]
                          /\ (s # "instrument_types" => rows'[s] = rows[s])
    BY <1>10 DEF Seed, TypeOK, DataOK
  <2> QED
    BY <2>1, <2>2, <1>10 DEF Seed
<1>11. ASSUME Apply PROVE ReceiptIsWhole'
  BY <1>11 DEF Apply, AtStep, StepDone, data, control
<1>12. ASSUME SavePage PROVE ReceiptIsWhole'
  <2>1. Stores \subseteq receipts /\ receipts' = receipts
    BY <1>12 DEF SavePage, Settled
  <2>2. \A s \in Stores : rows[s] \subseteq rows'[s]
    BY <1>12, PageMoves DEF TypeOK
  <2> QED
    BY <2>1, <2>2
<1>13. CASE UNCHANGED vars
  BY <1>13 DEF vars, data, control
<1> QED
  BY <1>1, <1>2, <1>3, <1>4, <1>5, <1>6, <1>7, <1>8, <1>9, <1>10,
     <1>11, <1>12, <1>13 DEF Next, ImportStep

\* Every step keeps the sequences past the rows.
LEMMA SequenceStep ==
  ASSUME IInv, [Next]_vars
  PROVE  LiveIdsFree'
<1> USE ImportAssumption, Names DEF IInv, LiveIdsFree
<1>1. ASSUME Begin PROVE LiveIdsFree'
  BY <1>1 DEF Begin, data, control
<1>2. ASSUME Finish PROVE LiveIdsFree'
  BY <1>2 DEF Finish, data, control
<1>3. ASSUME Interrupt PROVE LiveIdsFree'
  BY <1>3 DEF Interrupt, data, control
<1>4. ASSUME Refuse PROVE LiveIdsFree'
  BY <1>4 DEF Refuse, data, control
<1>5. ASSUME NEW s \in Stores, Preserve(s) PROVE LiveIdsFree'
  BY <1>5 DEF Preserve, AtStep, StepDone, data, control
<1>6. ASSUME NEW s \in Stores, BeginImport(s) PROVE LiveIdsFree'
  BY <1>6 DEF BeginImport, AtStep, data, control
<1>7. ASSUME NEW s \in Stores, InsertBatch(s) PROVE LiveIdsFree'
  BY <1>7 DEF InsertBatch, Importing, data, control
<1>8. ASSUME NEW s \in Stores, SetVal(s) PROVE LiveIdsFree'
  <2>1. plan[at] = s /\ s \notin receipts /\ rows' = rows
    BY <1>8 DEF SetVal, Importing, OpenImport
  <2>2. rows[s] = {}
    BY <2>1 DEF ReceiptIsWhole
  <2>3. \A r \in D1Tables \ {s} : next'[r] = next[r]
    BY <1>8 DEF SetVal, TypeOK, DataOK
  <2> QED
    BY <2>1, <2>2, <2>3
<1>9. ASSUME NEW s \in Stores, CommitImport(s) PROVE LiveIdsFree'
  <2>1. \A id \in written : s \in D1Tables => id < next[s]
    BY <1>9 DEF CommitImport, OpenImport
  <2>2. rows' = [rows EXCEPT ![s] = @ \cup written] /\ next' = next
    BY <1>9 DEF CommitImport
  <2> QED
    BY <2>1, <2>2 DEF TypeOK, DataOK
<1>10. ASSUME Seed PROVE LiveIdsFree'
  <2>1. CASE rows["instrument_types"] = {}
    <3>1. rows' = [rows EXCEPT !["instrument_types"] = TaxonomyIds]
          /\ next' = [next EXCEPT !["instrument_types"] = ExpectedCount + 1]
      BY <1>10, <2>1 DEF Seed
    <3>2. \A id \in TaxonomyIds : id < ExpectedCount + 1
      BY DEF TaxonomyIds
    <3> QED
      BY <3>1, <3>2 DEF TypeOK, DataOK
  <2>2. CASE rows["instrument_types"] # {}
    BY <1>10, <2>2 DEF Seed
  <2> QED
    BY <2>1, <2>2
<1>11. ASSUME Apply PROVE LiveIdsFree'
  BY <1>11 DEF Apply, AtStep, StepDone, data, control
<1>12. ASSUME SavePage PROVE LiveIdsFree'
  <2>1. \A s \in D1Tables : next[s] \in Nat /\ next'[s] \in Nat /\ next[s] <= next'[s]
    BY <1>12, PageMoves DEF TypeOK
  <2>3. \A s \in D1Tables : rows[s] \subseteq Nat
    <3>1. rows \in [Stores -> SUBSET (1 .. MaxId)] /\ 1 .. MaxId \subseteq Nat
      BY DEF TypeOK, DataOK, Ids
    <3> QED
      BY ONLY <3>1, Names
  <2>2. \A s \in D1Tables : \A id \in rows'[s] :
          id \in rows[s] \/ (id = next[s] /\ next'[s] = next[s] + 1)
    BY <1>12, PageMoves DEF TypeOK
  <2> QED
    BY <2>1, <2>2, <2>3
<1>13. CASE UNCHANGED vars
  BY <1>13 DEF vars, data, control
<1> QED
  BY <1>1, <1>2, <1>3, <1>4, <1>5, <1>6, <1>7, <1>8, <1>9, <1>10,
     <1>11, <1>12, <1>13 DEF Next, ImportStep

\* A step that is refused has one of the two causes: without them a receipt
\* preserves, its absence imports, the taxonomy is whole or absent, and the
\* counties are there.
LEMMA RefusedStep ==
  ASSUME IInv, [Next]_vars
  PROVE  RefusedForCause'
<1> USE ImportAssumption, Names DEF IInv, RefusedForCause
<1>1. ASSUME Begin PROVE RefusedForCause'
  BY <1>1 DEF Begin, data, control
<1>2. ASSUME Finish PROVE RefusedForCause'
  BY <1>2 DEF Finish, data, control
<1>3. ASSUME Interrupt PROVE RefusedForCause'
  BY <1>3 DEF Interrupt, data, control
<1>4. ASSUME Refuse PROVE RefusedForCause'
  <2> SUFFICES ASSUME changed = {}, ~(applied[manifest] > 0 /\ active # manifest)
               PROVE  FALSE
    BY <1>4 DEF Refuse, data
  <2>1. ASSUME NEW s \in Stores, AtStep(s), ~CanPreserve(s), ~CanImport(s) PROVE FALSE
    <3>1. s \notin receipts
      BY <2>1, ReceiptPreserves
    <3> QED
      BY <2>1, <3>1 DEF CanImport, ReceiptIsWhole
  <2>2. CanSeed
    BY DEF Settled, CanSeed
  <2>3. ASSUME AtStep("endpoints") PROVE CanApply
    <3>1. "counties" \in receipts
      BY <2>3, EarlierSteps DEF AtStep
    <3> QED
      BY <3>1 DEF CanApply, ReceiptIsWhole
  <2> QED
    BY <1>4, <2>1, <2>2, <2>3 DEF Refuse
<1>5. ASSUME NEW s \in Stores, Preserve(s) PROVE RefusedForCause'
  BY <1>5 DEF Preserve, AtStep, StepDone, data, control
<1>6. ASSUME NEW s \in Stores, BeginImport(s) PROVE RefusedForCause'
  BY <1>6 DEF BeginImport, AtStep, data, control
<1>7. ASSUME NEW s \in Stores, InsertBatch(s) PROVE RefusedForCause'
  BY <1>7 DEF InsertBatch, Importing, data, control
<1>8. ASSUME NEW s \in Stores, SetVal(s) PROVE RefusedForCause'
  BY <1>8 DEF SetVal, Importing, data, control
<1>9. ASSUME NEW s \in Stores, CommitImport(s) PROVE RefusedForCause'
  BY <1>9 DEF CommitImport, StepDone, OpenImport, data, control
<1>10. ASSUME Seed PROVE RefusedForCause'
  BY <1>10 DEF Seed, AtStep, StepDone, OpenImport, data, control
<1>11. ASSUME Apply PROVE RefusedForCause'
  BY <1>11 DEF Apply, AtStep, StepDone, OpenImport, data, control
<1>12. ASSUME SavePage PROVE RefusedForCause'
  <2>1. changed \subseteq changed' /\ UNCHANGED <<outcome, applied, active, manifest>>
    BY <1>12 DEF SavePage, control
  <2> QED
    BY <2>1
<1>13. CASE UNCHANGED vars
  BY <1>13 DEF vars, data, control
<1> QED
  BY <1>1, <1>2, <1>3, <1>4, <1>5, <1>6, <1>7, <1>8, <1>9, <1>10,
     <1>11, <1>12, <1>13 DEF Next, ImportStep

\* A run that ends green has passed every step.
LEMMA GreenStep ==
  ASSUME IInv, [Next]_vars
  PROVE  GreenIsProved'
<1> USE ImportAssumption, Names DEF IInv, GreenIsProved
<1>1. ASSUME Begin PROVE GreenIsProved'
  BY <1>1 DEF Begin, data, control
<1>2. ASSUME Finish PROVE GreenIsProved'
  <2>1. at = 8
    BY <1>2 DEF Finish, TypeOK, Last
  <2>2. \A s \in Steps : s \in Passed
    BY <2>1, PlanFacts DEF Passed, Last
  <2>3. \A s \in Steps : proved[s] = run
    BY <1>2, <2>2 DEF PassedHolds, Finish
  <2>4. TaxonomyIds \subseteq rows["instrument_types"]
    BY <1>2, <2>2 DEF PassedHolds, Finish
  <2>5. active = manifest /\ applied[manifest] = run
    BY <1>2, <2>2 DEF PassedHolds, Finish
  <2> QED
    BY <1>2, <2>3, <2>4, <2>5 DEF Finish, data
<1>3. ASSUME Interrupt PROVE GreenIsProved'
  BY <1>3 DEF Interrupt, data, control
<1>4. ASSUME Refuse PROVE GreenIsProved'
  BY <1>4 DEF Refuse, data, control
<1>5. ASSUME NEW s \in Stores, Preserve(s) PROVE GreenIsProved'
  BY <1>5 DEF Preserve, AtStep, StepDone, OpenImport, data, control
<1>6. ASSUME NEW s \in Stores, BeginImport(s) PROVE GreenIsProved'
  BY <1>6 DEF BeginImport, AtStep, data, control
<1>7. ASSUME NEW s \in Stores, InsertBatch(s) PROVE GreenIsProved'
  BY <1>7 DEF InsertBatch, Importing, data, control
<1>8. ASSUME NEW s \in Stores, SetVal(s) PROVE GreenIsProved'
  BY <1>8 DEF SetVal, Importing, data, control
<1>9. ASSUME NEW s \in Stores, CommitImport(s) PROVE GreenIsProved'
  BY <1>9 DEF CommitImport, StepDone, OpenImport, data, control
<1>10. ASSUME Seed PROVE GreenIsProved'
  BY <1>10 DEF Seed, AtStep, StepDone, OpenImport, data, control
<1>11. ASSUME Apply PROVE GreenIsProved'
  BY <1>11 DEF Apply, AtStep, StepDone, OpenImport, data, control
<1>12. ASSUME SavePage PROVE GreenIsProved'
  <2>1. UNCHANGED <<outcome, proved, run, active, manifest, applied>>
    BY <1>12 DEF SavePage, control
  <2>2. rows["instrument_types"] \subseteq rows'["instrument_types"]
    BY <1>12, PageMoves DEF TypeOK
  <2> QED
    BY <2>1, <2>2
<1>13. CASE UNCHANGED vars
  BY <1>13 DEF vars, data, control
<1> QED
  BY <1>1, <1>2, <1>3, <1>4, <1>5, <1>6, <1>7, <1>8, <1>9, <1>10,
     <1>11, <1>12, <1>13 DEF Next, ImportStep

\* What the steps passed have left stays, and a step adds its own share.
LEMMA PassedStep ==
  ASSUME IInv, [Next]_vars
  PROVE  PassedHolds'
<1> USE ImportAssumption, Names DEF IInv, PassedHolds
<1>0. proved \in [Steps -> 0 .. MaxRuns]
  BY DEF TypeOK, DataOK
<1>1. ASSUME Begin PROVE PassedHolds'
  <2>1. Passed' = {}
    BY <1>1 DEF Begin, Passed
  <2> QED
    BY <2>1
<1>2. ASSUME Finish PROVE PassedHolds'
  BY <1>2 DEF Finish, data, control
<1>3. ASSUME Interrupt PROVE PassedHolds'
  BY <1>3 DEF Interrupt, data, control
<1>4. ASSUME Refuse PROVE PassedHolds'
  BY <1>4 DEF Refuse, data, control
<1>5. ASSUME NEW s \in Stores, Preserve(s) PROVE PassedHolds'
  <2>1. Passed' = Passed \cup {s}
    BY <1>5, PassedGrows DEF Preserve, AtStep, StepDone
  <2>2. s \in receipts /\ pc # "idle" /\ proved' = [proved EXCEPT ![s] = run]
        /\ UNCHANGED <<rows, receipts, active, applied, manifest, run>>
    BY <1>5 DEF Preserve, AtStep, StepDone, CanPreserve
  <2> QED
    BY <1>0, <2>1, <2>2
<1>6. ASSUME NEW s \in Stores, BeginImport(s) PROVE PassedHolds'
  BY <1>6 DEF BeginImport, AtStep, Passed, data
<1>7. ASSUME NEW s \in Stores, InsertBatch(s) PROVE PassedHolds'
  BY <1>7 DEF InsertBatch, Importing, Passed, data
<1>8. ASSUME NEW s \in Stores, SetVal(s) PROVE PassedHolds'
  BY <1>8 DEF SetVal, Importing, Passed
<1>9. ASSUME NEW s \in Stores, CommitImport(s) PROVE PassedHolds'
  <2>1. Passed' = Passed \cup {s}
    BY <1>9, PassedGrows DEF CommitImport, StepDone
  <2>2. /\ pc # "idle" /\ proved' = [proved EXCEPT ![s] = run]
        /\ receipts' = receipts \cup {s} /\ rows' = [rows EXCEPT ![s] = @ \cup written]
        /\ UNCHANGED <<active, applied, manifest, run>>
    BY <1>9 DEF CommitImport, StepDone
  <2>3. rows["instrument_types"] \subseteq rows'["instrument_types"]
    BY <2>2 DEF TypeOK, DataOK
  <2> QED
    BY <1>0, <2>1, <2>2, <2>3
<1>10. ASSUME Seed PROVE PassedHolds'
  <2>1. Passed' = Passed \cup {"taxonomy"}
    BY <1>10, PassedGrows DEF Seed, AtStep, StepDone
  <2>2. /\ pc # "idle" /\ proved' = [proved EXCEPT !["taxonomy"] = run]
        /\ UNCHANGED <<receipts, active, applied, manifest, run>>
    BY <1>10 DEF Seed, AtStep, StepDone
  <2>3. TaxonomyIds \subseteq rows'["instrument_types"]
    BY <1>10 DEF Seed, CanSeed, TypeOK, DataOK
  <2> QED
    BY <1>0, <2>1, <2>2, <2>3
<1>11. ASSUME Apply PROVE PassedHolds'
  <2>1. Passed' = Passed \cup {"endpoints"}
    BY <1>11, PassedGrows DEF Apply, AtStep, StepDone
  <2>2. /\ pc # "idle" /\ proved' = [proved EXCEPT !["endpoints"] = run]
        /\ UNCHANGED <<receipts, rows, manifest, run>>
    BY <1>11 DEF Apply, AtStep, StepDone
  <2>3. active' = manifest /\ applied'[manifest] = run
    BY <1>11 DEF Apply, CanApply, AtStep, OpenImport, TypeOK, DataOK
  <2> QED
    BY <1>0, <2>1, <2>2, <2>3
<1>12. ASSUME SavePage PROVE PassedHolds'
  <2>1. Passed' = Passed
        /\ UNCHANGED <<pc, proved, run, receipts, active, manifest, applied>>
    BY <1>12 DEF SavePage, control, Passed
  <2>2. rows["instrument_types"] \subseteq rows'["instrument_types"]
    BY <1>12, PageMoves DEF TypeOK
  <2> QED
    BY <2>1, <2>2
<1>13. CASE UNCHANGED vars
  BY <1>13 DEF vars, data, control, Passed
<1> QED
  BY <1>1, <1>2, <1>3, <1>4, <1>5, <1>6, <1>7, <1>8, <1>9, <1>10,
     <1>11, <1>12, <1>13 DEF Next, ImportStep

\* An import that is open keeps its store to itself: the service only writes
\* tables that have a receipt, and only moves sequences on.
LEMMA OpenStep ==
  ASSUME IInv, [Next]_vars
  PROVE  OpenImport'
<1> USE ImportAssumption, Names DEF IInv, OpenImport
<1>1. ASSUME Begin PROVE OpenImport'
  BY <1>1 DEF Begin, data, control
<1>2. ASSUME Finish PROVE OpenImport'
  BY <1>2 DEF Finish
<1>3. ASSUME Interrupt PROVE OpenImport'
  BY <1>3 DEF Interrupt
<1>4. ASSUME Refuse PROVE OpenImport'
  BY <1>4 DEF Refuse
<1>5. ASSUME NEW s \in Stores, Preserve(s) PROVE OpenImport'
  BY <1>5 DEF Preserve, AtStep, StepDone, data, control
<1>6. ASSUME NEW s \in Stores, BeginImport(s) PROVE OpenImport'
  BY <1>6 DEF BeginImport, AtStep, CanImport, TypeOK, DataOK, data
<1>7. ASSUME NEW s \in Stores, InsertBatch(s) PROVE OpenImport'
  BY <1>7 DEF InsertBatch, Importing, data
<1>8. ASSUME NEW s \in Stores, SetVal(s) PROVE OpenImport'
  <2>1. plan[at] = s /\ written \subseteq Rescued[s] /\ s \notin receipts /\ at <= Last
    BY <1>8 DEF SetVal, Importing
  <2>2. s \in D1Tables => \A id \in written : id < next'[s]
    BY <1>8 DEF SetVal, Follows, TypeOK, DataOK
  <2> QED
    BY <2>1, <2>2, <1>8 DEF SetVal, Importing
<1>9. ASSUME NEW s \in Stores, CommitImport(s) PROVE OpenImport'
  BY <1>9 DEF CommitImport, StepDone, data, control
<1>10. ASSUME Seed PROVE OpenImport'
  BY <1>10 DEF Seed, AtStep, StepDone, data, control
<1>11. ASSUME Apply PROVE OpenImport'
  BY <1>11 DEF Apply, AtStep, StepDone, data, control
<1>12. ASSUME SavePage PROVE OpenImport'
  <2>1. UNCHANGED <<pc, outcome, manifest, at, plan, receipts, written>>
    BY <1>12 DEF SavePage, control
  <2>2. \A s \in D1Tables : next[s] \in Nat /\ next'[s] \in Nat /\ next[s] <= next'[s]
    BY <1>12, PageMoves DEF TypeOK
  <2>3. written \subseteq Nat
    BY DEF TypeOK, DataOK, Ids
  <2> QED
    BY <2>1, <2>2, <2>3
<1>13. CASE UNCHANGED vars
  BY <1>13 DEF vars, data, control
<1> QED
  BY <1>1, <1>2, <1>3, <1>4, <1>5, <1>6, <1>7, <1>8, <1>9, <1>10,
     <1>11, <1>12, <1>13 DEF Next, ImportStep

\* Every step keeps the service to imported tables and the taxonomy whole.
LEMMA SettledStep ==
  ASSUME IInv, [Next]_vars
  PROVE  Settled'
<1> USE ImportAssumption, Names DEF IInv, Settled
<1>1. ASSUME Begin PROVE Settled'
  BY <1>1 DEF Begin, data, control
<1>2. ASSUME Finish PROVE Settled'
  <2>1. at = 8
    BY <1>2 DEF Finish, TypeOK, Last
  <2>2. \A s \in Stores : s \in Passed
    BY <2>1, PlanFacts DEF Passed, Last
  <2> QED
    BY <1>2, <2>2 DEF PassedHolds, Finish, data
<1>3. ASSUME Interrupt PROVE Settled'
  BY <1>3 DEF Interrupt, data, control
<1>4. ASSUME Refuse PROVE Settled'
  BY <1>4 DEF Refuse, data, control
<1>5. ASSUME NEW s \in Stores, Preserve(s) PROVE Settled'
  BY <1>5 DEF Preserve, AtStep, StepDone, data, control
<1>6. ASSUME NEW s \in Stores, BeginImport(s) PROVE Settled'
  BY <1>6 DEF BeginImport, AtStep, data, control
<1>7. ASSUME NEW s \in Stores, InsertBatch(s) PROVE Settled'
  BY <1>7 DEF InsertBatch, Importing, data, control
<1>8. ASSUME NEW s \in Stores, SetVal(s) PROVE Settled'
  BY <1>8 DEF SetVal, Importing, data, control
<1>9. ASSUME NEW s \in Stores, CommitImport(s) PROVE Settled'
  <2>1. rows' = [rows EXCEPT ![s] = @ \cup written] /\ receipts' = receipts \cup {s}
        /\ serving' = serving /\ rows[s] \cup written = Rescued[s]
    BY <1>9 DEF CommitImport, StepDone
  <2>2. rows'["instrument_types"] \in {{}, TaxonomyIds}
    BY <2>1 DEF TypeOK, DataOK
  <2> QED
    BY <2>1, <2>2
<1>10. ASSUME Seed PROVE Settled'
  <2>1. rows'["instrument_types"] \in {{}, TaxonomyIds}
    BY <1>10 DEF Seed, TypeOK, DataOK
  <2> QED
    BY <1>10, <2>1 DEF Seed, StepDone
<1>11. ASSUME Apply PROVE Settled'
  BY <1>11 DEF Apply, AtStep, StepDone, data, control
<1>12. ASSUME SavePage PROVE Settled'
  <2>1. rows'["instrument_types"] = rows["instrument_types"]
    BY <1>12, PageMoves DEF TypeOK
  <2> QED
    BY <1>12, <2>1 DEF SavePage, control
<1>13. CASE UNCHANGED vars
  BY <1>13 DEF vars, data, control
<1> QED
  BY <1>1, <1>2, <1>3, <1>4, <1>5, <1>6, <1>7, <1>8, <1>9, <1>10,
     <1>11, <1>12, <1>13 DEF Next, ImportStep

\* The empty schema satisfies the invariant.
LEMMA InitHolds == Init => IInv
<1> SUFFICES ASSUME Init PROVE IInv
  OBVIOUS
<1> USE ImportAssumption, Names DEF Init
<1>1. DataOK
  BY DEF DataOK, Ids
<1>2. TypeOK
  <2>1. at \in 1 .. Last + 1 /\ run \in 0 .. MaxRuns /\ written \subseteq Ids
    BY DEF Last
  <2> QED
    BY <1>1, <2>1 DEF TypeOK
<1>3. ReceiptIsWhole /\ LiveIdsFree /\ RefusedForCause /\ GreenIsProved
  BY DEF ReceiptIsWhole, LiveIdsFree, RefusedForCause, GreenIsProved
<1>4. PassedHolds /\ OpenImport /\ Settled
  BY DEF PassedHolds, OpenImport, Settled
<1> QED
  BY <1>2, <1>3, <1>4 DEF IInv

\* The invariant is inductive.
LEMMA Inductive == IInv /\ [Next]_vars => IInv'
BY TypeStep, ReceiptStep, SequenceStep, RefusedStep, GreenStep, PassedStep, OpenStep,
   SettledStep DEF IInv

\* Every behaviour satisfies the invariant.
LEMMA AlwaysIInv == Spec => []IInv
BY InitHolds, Inductive, PTL DEF Spec

-----------------------------------------------------------------------------

\* For any rescue and any manifests, every variable keeps its type, and no
\* transaction is open between runs.
THEOREM TypeCorrect == Spec => []TypeOK
<1>1. IInv => TypeOK
  BY DEF IInv
<1> QED
  BY <1>1, AlwaysIInv, PTL

\* Whatever is killed, a store with an import receipt has all its rescued rows
\* and one without has none (import_table, import_namespace).
THEOREM ImportedWhole == Spec => []ReceiptIsWhole
<1>1. IInv => ReceiptIsWhole
  BY DEF IInv
<1> QED
  BY <1>1, AlwaysIInv, PTL

\* The identity sequences are always past the rows, so that the service never
\* draws an id that an import or the seed has taken.
THEOREM SequencesAhead == Spec => []LiveIdsFree
<1>1. IInv => LiveIdsFree
  BY DEF IInv
<1> QED
  BY <1>1, AlwaysIInv, PTL

\* Runs of the data steps are refused for a rewritten deed or for the endpoints
\* of another release, and for nothing else.
THEOREM RefusalsHaveCause == Spec => []RefusedForCause
<1>1. IInv => RefusedForCause
  BY DEF IInv
<1> QED
  BY <1>1, AlwaysIInv, PTL

\* A green run has proved every store again and left its own endpoints active.
THEOREM GreenRunsProve == Spec => []GreenIsProved
<1>1. IInv => GreenIsProved
  BY DEF IInv
<1> QED
  BY <1>1, AlwaysIInv, PTL

=============================================================================
