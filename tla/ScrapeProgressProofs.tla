------------------------ MODULE ScrapeProgressProofs ------------------------
(***************************************************************************)
(* Theorems about ScrapeProgress, for any number of consumers, overlapping *)
(* schedulers, pairs and pages.                                            *)
(***************************************************************************)
EXTENDS ScrapeProgress, FiniteSetTheorems, TLAPS

\* A scheduler that has found the queue idle is alone, and no discovery that any
\* scheduler ever enqueued is unsettled.
SchedulerAlone ==
  /\ \A s, t \in Schedulers : spc[s] # "idle" /\ spc[t] # "idle" => s = t
  /\ \A s \in Schedulers : spc[s] # "idle" =>
       /\ pick[s] \in [hour : Hours, pair : Pairs \cup {None}]
       /\ spc[s] = "chosen" => pick[s].pair \in Pairs
  /\ \A s \in Schedulers : spc[s] \in {"clear", "chosen"} =>
       \A r \in Hourly : ~Unsettled(r)

\* A consumer inside a transaction of complete_* works on a row; once it has
\* acknowledged the row nobody takes it back.
Acknowledged ==
  \A c \in Consumers :
    /\ pc[c] # "idle" => job[c] \in Rows
    /\ pc[c] = "reset" => job[c] \in Searches
    /\ pc[c] \in {"acknowledged", "looked", "recorded"} =>
         job[c] \in Scrapes /\ holder[job[c]] = c

\* The version a consumer wrote of a checkpoint it has locked.
Drafted ==
  /\ \A p \in Pairs : jobLock[p] # None =>
       pc[jobLock[p]] \in {"reset", "recorded"} /\ job[jobLock[p]].pair = p
  /\ \A c \in Consumers : pc[c] \in {"reset", "recorded"} =>
       /\ jobLock[job[c].pair] = c
       /\ draft[c].scraped = IF pc[c] = "reset" THEN 0
                             ELSE progress[job[c].pair].scraped + 1

\* The pages counted are completed, so that none is counted twice.
CountedOnce ==
  \A p \in Pairs :
    /\ IsFiniteSet(counted[p])
    /\ \A r \in counted[p] : r \in Scrapes /\ rows[r] = "completed"

\* The inductive invariant.
IInv == /\ TypeOK /\ SchedulerAlone /\ OneAtATime
        /\ Acknowledged /\ Drafted /\ CountedOnce /\ CountsAddUp

-----------------------------------------------------------------------------
\* The four kinds of rows are disjoint, and each row has its pair.
LEMMA RowKinds ==
  /\ \A r \in Hourly : r \notin Scrapes /\ r \notin Requested
  /\ \A r \in Searches : r \notin Scrapes
  /\ \A r \in Rows : r.pair \in Pairs
  /\ \A s, n : PageRow(s, n) \notin Hourly
  /\ \A r \in Hourly : r.kind = "hourly"
<1> USE ScopeAssumption
    DEF Hourly, Requested, Searches, Found, Direct, Scrapes, Rows, PageRow
<1>1. \A r \in Hourly : r.kind = "hourly" /\ r.pair \in Pairs
  OBVIOUS
<1>2. \A r \in Requested : r.kind = "requested" /\ r.pair \in Pairs
  OBVIOUS
<1>3. \A r \in Found : r.kind = "page" /\ r.pair \in Pairs
  BY <1>1, <1>2
<1>4. \A r \in Direct : r.kind = "direct" /\ r.pair \in Pairs
  OBVIOUS
<1> QED
  BY <1>1, <1>2, <1>3, <1>4

\* A record keeps its type when one field changes.
LEMMA FieldsKept ==
  /\ \A k \in Checkpoint :
       /\ [k EXCEPT !.due = TRUE] \in Checkpoint
       /\ [k EXCEPT !.due = TRUE].scraped = k.scraped
  /\ \A k \in [hour : Hours, pair : Pairs \cup {None}], p \in Pairs :
       /\ [k EXCEPT !.pair = p] \in [hour : Hours, pair : Pairs \cup {None}]
       /\ [k EXCEPT !.pair = p].pair = p
  BY DEF Checkpoint

\* Every step keeps the types, and leases with the processing rows.
LEMMA TypesStep ==
  ASSUME IInv, [Next]_vars
  PROVE  TypeOK'
<1> USE ScopeAssumption, RowKinds
    DEF TypeOK, IInv, Acknowledged, Checkpoint, Untouched, States, Rows, Searches,
        Scrapes
<1>1. ASSUME NEW c \in Consumers, NEW r \in Rows, Take(c, r)
      PROVE  TypeOK'
  BY <1>1 DEF Take, Goto, consumers, schedulers
<1>2. ASSUME NEW c \in Consumers, NEW n \in 0..MaxPages, Reset(c, n)
      PROVE  TypeOK'
  BY <1>2 DEF Reset, Goto, Upsert, PairOf, consumers, schedulers
<1>3. ASSUME NEW c \in Consumers, FanOut(c)
      PROVE  TypeOK'
  BY <1>3 DEF FanOut, Finish, Unlock, PairOf, consumers, schedulers
<1>4. ASSUME NEW c \in Consumers, Acknowledge(c)
      PROVE  TypeOK'
  BY <1>4 DEF Acknowledge, Goto, consumers, schedulers
<1>5. ASSUME NEW c \in Consumers, Look(c)
      PROVE  TypeOK'
  BY <1>5 DEF Look, Goto, consumers, schedulers
<1>6. ASSUME NEW c \in Consumers, Record(c)
      PROVE  TypeOK'
  BY <1>6 DEF Record, Goto, Upsert, PairOf, consumers, schedulers
<1>7. ASSUME NEW c \in Consumers, CommitScrape(c)
      PROVE  TypeOK'
  BY <1>7 DEF CommitScrape, Finish, Unlock, PairOf, consumers, schedulers
<1>8. ASSUME NEW c \in Consumers, Drop(c)
      PROVE  TypeOK'
  BY <1>8 DEF Drop, Unlock, consumers, schedulers
<1>9. ASSUME NEW s \in Schedulers, Begin(s)
      PROVE  TypeOK'
  BY <1>9 DEF Begin, SGoto, consumers, schedulers
<1>10. ASSUME NEW s \in Schedulers, Quit(s)
      PROVE  TypeOK'
  BY <1>10 DEF Quit, SGoto, consumers, schedulers
<1>11. ASSUME NEW s \in Schedulers, Check(s)
      PROVE  TypeOK'
  BY <1>11 DEF Check, SGoto, consumers, schedulers
<1>12. ASSUME NEW s \in Schedulers, Choose(s)
      PROVE  TypeOK'
  <2>1. PICK p \in Pairs : pick' = [pick EXCEPT ![s] = [pick[s] EXCEPT !.pair = p]]
    BY <1>12 DEF Choose, Candidates
  <2>2. [pick[s] EXCEPT !.pair = p] \in [hour : Hours, pair : Pairs \cup {None}]
    BY <1>12, <2>1, FieldsKept DEF Choose, SGoto, SchedulerAlone
  <2> QED
    BY <1>12, <2>1, <2>2 DEF Choose, SGoto, consumers
<1>13. ASSUME NEW s \in Schedulers, Insert(s)
      PROVE  TypeOK'
  <2>1. /\ spc' = [spc EXCEPT ![s] = "idle"]
        /\ pick' = [pick EXCEPT ![s] = None]
        /\ UNCHANGED <<holder, progress, jobLock, consumers, hour, counted>>
    BY ONLY <1>13 DEF Insert, SGoto
  <2>2. PICK h : rows' = [rows EXCEPT ![h] = IF @ = "absent" THEN "waiting" ELSE @]
    BY ONLY <1>13 DEF Insert
  <2> HIDE <1>13
  <2>3. /\ rows' \in [Rows -> States]
        /\ \A r \in Rows : rows'[r] = "processing" <=> rows[r] = "processing"
    <3>1. rows \in [Rows -> States]
      OBVIOUS
    <3> QED
      BY ONLY <2>2, <3>1 DEF States
  <2> QED
    BY ONLY <2>1, <2>3, TypeOK, ScopeAssumption
       DEF TypeOK, consumers, States, Checkpoint, Rows
<1>14. ASSUME NEW r \in Rows, GiveBack(r)
      PROVE  TypeOK'
  BY <1>14 DEF GiveBack, Acknowledging, consumers, schedulers
<1>15. ASSUME NEW r \in Requested \cup Direct, Request(r)
      PROVE  TypeOK'
  BY <1>15 DEF Request, consumers, schedulers
<1>16. ASSUME NEW p \in Pairs, ComeDue(p)
      PROVE  TypeOK'
  <2>1. [progress[p] EXCEPT !.due = TRUE] \in Checkpoint
    BY FieldsKept
  <2>2. progress' = [progress EXCEPT ![p] = [progress[p] EXCEPT !.due = TRUE]]
    BY <1>16 DEF ComeDue
  <2>3. progress' \in [Pairs -> Checkpoint]
    BY <2>1, <2>2
  <2> QED
    BY <1>16, <2>3 DEF ComeDue, consumers, schedulers
<1>17. ASSUME NextHour
      PROVE  TypeOK'
  BY <1>17 DEF NextHour, consumers, schedulers
<1>18. CASE UNCHANGED vars
  BY <1>18 DEF vars, consumers, schedulers
<1> QED
  BY <1>1, <1>2, <1>3, <1>4, <1>5, <1>6, <1>7, <1>8, <1>9,
     <1>10, <1>11, <1>12, <1>13, <1>14, <1>15, <1>16, <1>17, <1>18
     DEF Next, Consume, Schedule

\* Every step keeps the schedulers apart and their discoveries one at a time.
LEMMA OneHourlyStep ==
  ASSUME IInv, [Next]_vars
  PROVE  (SchedulerAlone /\ OneAtATime)'
<1> USE ScopeAssumption, RowKinds
    DEF IInv, TypeOK, SchedulerAlone, OneAtATime, Unsettled, Rows, Searches, Scrapes
<1>1. ASSUME NEW c \in Consumers, NEW r \in Rows, Take(c, r)
      PROVE  (SchedulerAlone /\ OneAtATime)'
  BY <1>1 DEF Take, Goto, consumers, schedulers
<1>2. ASSUME NEW c \in Consumers, NEW n \in 0..MaxPages, Reset(c, n)
      PROVE  (SchedulerAlone /\ OneAtATime)'
  BY <1>2 DEF Reset, Goto, Upsert, PairOf, consumers, schedulers
<1>3. ASSUME NEW c \in Consumers, FanOut(c)
      PROVE  (SchedulerAlone /\ OneAtATime)'
  <2>1. \A r \in Hourly : rows'[r] \in {"completed", rows[r]}
    BY <1>3 DEF FanOut
  <2>2. UNCHANGED <<spc, pick>>
    BY <1>3 DEF FanOut, Finish, schedulers
  <2> QED
    BY <2>1, <2>2
<1>4. ASSUME NEW c \in Consumers, Acknowledge(c)
      PROVE  (SchedulerAlone /\ OneAtATime)'
  BY <1>4 DEF Acknowledge, Goto, consumers, schedulers
<1>5. ASSUME NEW c \in Consumers, Look(c)
      PROVE  (SchedulerAlone /\ OneAtATime)'
  BY <1>5 DEF Look, Goto, consumers, schedulers
<1>6. ASSUME NEW c \in Consumers, Record(c)
      PROVE  (SchedulerAlone /\ OneAtATime)'
  BY <1>6 DEF Record, Goto, Upsert, PairOf, consumers, schedulers
<1>7. ASSUME NEW c \in Consumers, CommitScrape(c)
      PROVE  (SchedulerAlone /\ OneAtATime)'
  BY <1>7 DEF CommitScrape, Finish, Unlock, PairOf, consumers, schedulers
<1>8. ASSUME NEW c \in Consumers, Drop(c)
      PROVE  (SchedulerAlone /\ OneAtATime)'
  BY <1>8 DEF Drop, Unlock, consumers, schedulers
<1>9. ASSUME NEW s \in Schedulers, Begin(s)
      PROVE  (SchedulerAlone /\ OneAtATime)'
  BY <1>9 DEF Begin, SGoto, consumers, schedulers
<1>10. ASSUME NEW s \in Schedulers, Quit(s)
      PROVE  (SchedulerAlone /\ OneAtATime)'
  BY <1>10 DEF Quit, SGoto, consumers, schedulers
<1>11. ASSUME NEW s \in Schedulers, Check(s)
      PROVE  (SchedulerAlone /\ OneAtATime)'
  BY <1>11 DEF Check, SGoto, consumers, schedulers
<1>12. ASSUME NEW s \in Schedulers, Choose(s)
      PROVE  (SchedulerAlone /\ OneAtATime)'
  <2>1. PICK p \in Pairs : pick' = [pick EXCEPT ![s] = [pick[s] EXCEPT !.pair = p]]
    BY <1>12 DEF Choose, Candidates
  <2>2. /\ [pick[s] EXCEPT !.pair = p] \in [hour : Hours, pair : Pairs \cup {None}]
        /\ [pick[s] EXCEPT !.pair = p].pair = p
    BY <1>12, <2>1 DEF Choose, SGoto
  <2> QED
    BY <1>12, <2>1, <2>2 DEF Choose, SGoto, consumers
<1>13. ASSUME NEW s \in Schedulers, Insert(s)
      PROVE  (SchedulerAlone /\ OneAtATime)'
  BY <1>13 DEF Insert, SGoto, HourlyRow, consumers, schedulers
<1>14. ASSUME NEW r \in Rows, GiveBack(r)
      PROVE  (SchedulerAlone /\ OneAtATime)'
  BY <1>14 DEF GiveBack, Acknowledging, consumers, schedulers
<1>15. ASSUME NEW r \in Requested \cup Direct, Request(r)
      PROVE  (SchedulerAlone /\ OneAtATime)'
  BY <1>15 DEF Request, consumers, schedulers
<1>16. ASSUME NEW p \in Pairs, ComeDue(p)
      PROVE  (SchedulerAlone /\ OneAtATime)'
  BY <1>16 DEF ComeDue, consumers, schedulers
<1>17. ASSUME NextHour
      PROVE  (SchedulerAlone /\ OneAtATime)'
  BY <1>17 DEF NextHour, consumers, schedulers
<1>18. CASE UNCHANGED vars
  BY <1>18 DEF vars, consumers, schedulers
<1> QED
  BY <1>1, <1>2, <1>3, <1>4, <1>5, <1>6, <1>7, <1>8, <1>9,
     <1>10, <1>11, <1>12, <1>13, <1>14, <1>15, <1>16, <1>17, <1>18
     DEF Next, Consume, Schedule

\* Every step keeps what each consumer has acknowledged, locked and written.
LEMMA LocksStep ==
  ASSUME IInv, [Next]_vars
  PROVE  (Acknowledged /\ Drafted)'
<1> USE ScopeAssumption, RowKinds
    DEF IInv, TypeOK, Acknowledged, Drafted, Checkpoint, Rows, Searches, Scrapes
<1>1. ASSUME NEW c \in Consumers, NEW r \in Rows, Take(c, r)
      PROVE  (Acknowledged /\ Drafted)'
  BY <1>1 DEF Take, Goto, consumers, schedulers
<1>2. ASSUME NEW c \in Consumers, NEW n \in 0..MaxPages, Reset(c, n)
      PROVE  (Acknowledged /\ Drafted)'
  BY <1>2 DEF Reset, Goto, Upsert, PairOf, consumers, schedulers
<1>3. ASSUME NEW c \in Consumers, FanOut(c)
      PROVE  (Acknowledged /\ Drafted)'
  BY <1>3 DEF FanOut, Finish, Unlock, PairOf, consumers, schedulers
<1>4. ASSUME NEW c \in Consumers, Acknowledge(c)
      PROVE  (Acknowledged /\ Drafted)'
  BY <1>4 DEF Acknowledge, Goto, consumers, schedulers
<1>5. ASSUME NEW c \in Consumers, Look(c)
      PROVE  (Acknowledged /\ Drafted)'
  BY <1>5 DEF Look, Goto, consumers, schedulers
<1>6. ASSUME NEW c \in Consumers, Record(c)
      PROVE  (Acknowledged /\ Drafted)'
  BY <1>6 DEF Record, Goto, Upsert, PairOf, consumers, schedulers
<1>7. ASSUME NEW c \in Consumers, CommitScrape(c)
      PROVE  (Acknowledged /\ Drafted)'
  BY <1>7 DEF CommitScrape, Finish, Unlock, PairOf, consumers, schedulers
<1>8. ASSUME NEW c \in Consumers, Drop(c)
      PROVE  (Acknowledged /\ Drafted)'
  BY <1>8 DEF Drop, Unlock, consumers, schedulers
<1>9. ASSUME NEW s \in Schedulers, Begin(s)
      PROVE  (Acknowledged /\ Drafted)'
  BY <1>9 DEF Begin, SGoto, consumers, schedulers
<1>10. ASSUME NEW s \in Schedulers, Quit(s)
      PROVE  (Acknowledged /\ Drafted)'
  BY <1>10 DEF Quit, SGoto, consumers, schedulers
<1>11. ASSUME NEW s \in Schedulers, Check(s)
      PROVE  (Acknowledged /\ Drafted)'
  BY <1>11 DEF Check, SGoto, consumers, schedulers
<1>12. ASSUME NEW s \in Schedulers, Choose(s)
      PROVE  (Acknowledged /\ Drafted)'
  BY <1>12 DEF Choose, SGoto, Candidates, consumers, schedulers
<1>13. ASSUME NEW s \in Schedulers, Insert(s)
      PROVE  (Acknowledged /\ Drafted)'
  BY <1>13 DEF Insert, SGoto, HourlyRow, consumers, schedulers
<1>14. ASSUME NEW r \in Rows, GiveBack(r)
      PROVE  (Acknowledged /\ Drafted)'
  BY <1>14 DEF GiveBack, Acknowledging, consumers, schedulers
<1>15. ASSUME NEW r \in Requested \cup Direct, Request(r)
      PROVE  (Acknowledged /\ Drafted)'
  BY <1>15 DEF Request, consumers, schedulers
<1>16. ASSUME NEW p \in Pairs, ComeDue(p)
      PROVE  (Acknowledged /\ Drafted)'
  BY <1>16 DEF ComeDue, consumers, schedulers
<1>17. ASSUME NextHour
      PROVE  (Acknowledged /\ Drafted)'
  BY <1>17 DEF NextHour, consumers, schedulers
<1>18. CASE UNCHANGED vars
  BY <1>18 DEF vars, consumers, schedulers
<1> QED
  BY <1>1, <1>2, <1>3, <1>4, <1>5, <1>6, <1>7, <1>8, <1>9,
     <1>10, <1>11, <1>12, <1>13, <1>14, <1>15, <1>16, <1>17, <1>18
     DEF Next, Consume, Schedule

\* Every step counts each completed page once.
LEMMA CountsStep ==
  ASSUME IInv, [Next]_vars
  PROVE  (CountedOnce /\ CountsAddUp)'
<1> USE ScopeAssumption, RowKinds
    DEF IInv, TypeOK, Acknowledged, Drafted, CountedOnce, CountsAddUp, Checkpoint, Rows
<1>1. ASSUME NEW c \in Consumers, NEW r \in Rows, Take(c, r)
      PROVE  (CountedOnce /\ CountsAddUp)'
  BY <1>1 DEF Take, Goto, consumers, schedulers
<1>2. ASSUME NEW c \in Consumers, NEW n \in 0..MaxPages, Reset(c, n)
      PROVE  (CountedOnce /\ CountsAddUp)'
  BY <1>2 DEF Reset, Goto, Upsert, PairOf, consumers, schedulers
<1>3. ASSUME NEW c \in Consumers, FanOut(c)
      PROVE  (CountedOnce /\ CountsAddUp)'
  <2>0. CountedOnce /\ CountsAddUp
    BY DEF IInv
  <2>1. \A p \in Pairs \ {PairOf(c)} :
          counted'[p] = counted[p] /\ progress'[p] = progress[p]
    BY <1>3 DEF FanOut, Finish
  <2>2. counted'[PairOf(c)] = {} /\ progress'[PairOf(c)].scraped = 0
    BY <1>3 DEF FanOut, Finish, PairOf
  <2>3. \A r \in Rows : rows[r] = "completed" => rows'[r] = "completed"
    BY <1>3 DEF FanOut
  <2>4. IsFiniteSet({}) /\ Cardinality({}) = 0
    BY FS_EmptySet
  <2> HIDE DEF IInv, TypeOK, Acknowledged, Drafted, Checkpoint, CountsAddUp
  <2>5. CountedOnce'
    BY <2>0, <2>1, <2>2, <2>3, <2>4
  <2>6. CountsAddUp'
    BY <2>0, <2>1, <2>2, <2>4 DEF CountsAddUp
  <2> QED
    BY <2>5, <2>6
<1>4. ASSUME NEW c \in Consumers, Acknowledge(c)
      PROVE  (CountedOnce /\ CountsAddUp)'
  BY <1>4 DEF Acknowledge, Goto, consumers, schedulers
<1>5. ASSUME NEW c \in Consumers, Look(c)
      PROVE  (CountedOnce /\ CountsAddUp)'
  BY <1>5 DEF Look, Goto, consumers, schedulers
<1>6. ASSUME NEW c \in Consumers, Record(c)
      PROVE  (CountedOnce /\ CountsAddUp)'
  BY <1>6 DEF Record, Goto, Upsert, PairOf, consumers, schedulers
<1>7. ASSUME NEW c \in Consumers, CommitScrape(c)
      PROVE  (CountedOnce /\ CountsAddUp)'
  <2>0. CountedOnce /\ CountsAddUp
    BY DEF IInv
  <2>1. job[c] \in Scrapes /\ rows[job[c]] = "processing" /\ PairOf(c) \in Pairs
    BY <1>7 DEF CommitScrape, PairOf
  <2>2. \A p \in Pairs \ {PairOf(c)} :
          counted'[p] = counted[p] /\ progress'[p] = progress[p]
    BY <1>7 DEF CommitScrape, Finish
  <2>3. /\ counted'[PairOf(c)] = counted[PairOf(c)] \cup {job[c]}
        /\ progress'[PairOf(c)].scraped = progress[PairOf(c)].scraped + 1
    BY <1>7, <2>1 DEF CommitScrape, Finish, PairOf
  <2>4. \A r \in Rows : rows[r] = "completed" => rows'[r] = "completed"
    BY <1>7 DEF CommitScrape
  <2>5. rows'[job[c]] = "completed"
    BY <1>7, <2>1 DEF CommitScrape
  <2>6. IsFiniteSet(counted[PairOf(c)]) /\ job[c] \notin counted[PairOf(c)]
    BY <2>1
  <2> HIDE DEF IInv, TypeOK, Acknowledged, Drafted, Checkpoint, CountedOnce, CountsAddUp
  <2>7. /\ IsFiniteSet(counted'[PairOf(c)])
        /\ Cardinality(counted'[PairOf(c)]) = Cardinality(counted[PairOf(c)]) + 1
    <3>1. ASSUME NEW S, NEW x, IsFiniteSet(S), x \notin S
          PROVE  /\ IsFiniteSet(S \cup {x})
                 /\ Cardinality(S \cup {x}) = Cardinality(S) + 1
      BY ONLY <3>1, FS_AddElement
    <3>2. /\ IsFiniteSet(counted[PairOf(c)] \cup {job[c]})
          /\ Cardinality(counted[PairOf(c)] \cup {job[c]})
               = Cardinality(counted[PairOf(c)]) + 1
      BY ONLY <2>6, <3>1
    <3> QED
      BY ONLY <2>3, <3>2
  <2>8. CountedOnce'
    <3>1. ASSUME NEW p \in Pairs
          PROVE  IsFiniteSet(counted'[p])
      BY <2>0, <2>2, <2>7, <3>1 DEF CountedOnce
    <3>2. ASSUME NEW p \in Pairs, NEW r \in counted'[p]
          PROVE  r \in Scrapes /\ rows'[r] = "completed"
      <4>1. r \in counted[p] \/ r = job[c]
        BY <2>2, <2>3, <3>2
      <4> QED
        BY <2>0, <2>1, <2>4, <2>5, <4>1 DEF CountedOnce
    <3> QED
      BY <3>1, <3>2 DEF CountedOnce
  <2>9. CountsAddUp'
    BY <2>0, <2>1, <2>2, <2>3, <2>7 DEF CountsAddUp
  <2> QED
    BY <2>8, <2>9
<1>8. ASSUME NEW c \in Consumers, Drop(c)
      PROVE  (CountedOnce /\ CountsAddUp)'
  BY <1>8 DEF Drop, Unlock, consumers, schedulers
<1>9. ASSUME NEW s \in Schedulers, Begin(s)
      PROVE  (CountedOnce /\ CountsAddUp)'
  BY <1>9 DEF Begin, SGoto, consumers, schedulers
<1>10. ASSUME NEW s \in Schedulers, Quit(s)
      PROVE  (CountedOnce /\ CountsAddUp)'
  BY <1>10 DEF Quit, SGoto, consumers, schedulers
<1>11. ASSUME NEW s \in Schedulers, Check(s)
      PROVE  (CountedOnce /\ CountsAddUp)'
  BY <1>11 DEF Check, SGoto, consumers, schedulers
<1>12. ASSUME NEW s \in Schedulers, Choose(s)
      PROVE  (CountedOnce /\ CountsAddUp)'
  BY <1>12 DEF Choose, SGoto, Candidates, consumers, schedulers
<1>13. ASSUME NEW s \in Schedulers, Insert(s)
      PROVE  (CountedOnce /\ CountsAddUp)'
  BY <1>13 DEF Insert, SGoto, HourlyRow, consumers, schedulers
<1>14. ASSUME NEW r \in Rows, GiveBack(r)
      PROVE  (CountedOnce /\ CountsAddUp)'
  BY <1>14 DEF GiveBack, Acknowledging, consumers, schedulers
<1>15. ASSUME NEW r \in Requested \cup Direct, Request(r)
      PROVE  (CountedOnce /\ CountsAddUp)'
  BY <1>15 DEF Request, consumers, schedulers
<1>16. ASSUME NEW p \in Pairs, ComeDue(p)
      PROVE  (CountedOnce /\ CountsAddUp)'
  BY <1>16 DEF ComeDue, consumers, schedulers
<1>17. ASSUME NextHour
      PROVE  (CountedOnce /\ CountsAddUp)'
  BY <1>17 DEF NextHour, consumers, schedulers
<1>18. CASE UNCHANGED vars
  BY <1>18 DEF vars, consumers, schedulers
<1> QED
  BY <1>1, <1>2, <1>3, <1>4, <1>5, <1>6, <1>7, <1>8, <1>9,
     <1>10, <1>11, <1>12, <1>13, <1>14, <1>15, <1>16, <1>17, <1>18
     DEF Next, Consume, Schedule

\* The inductive invariant holds throughout.
LEMMA Invariance == Spec => []IInv
<1>1. Init => IInv
  BY ScopeAssumption, FS_EmptySet, RowKinds
     DEF Init, IInv, TypeOK, Untouched, Checkpoint, States, SchedulerAlone, OneAtATime,
         Unsettled, Acknowledged, Drafted, CountedOnce, CountsAddUp, Searches, Rows
<1>2. IInv /\ [Next]_vars => IInv'
  BY TypesStep, OneHourlyStep, LocksStep, CountsStep DEF IInv
<1> QED
  BY <1>1, <1>2, PTL DEF Spec

\* Every variable has its type, and a row carries a lease exactly while it is
\* processing.
THEOREM TypeCorrect == Spec => []TypeOK
<1>1. IInv => TypeOK
  BY DEF IInv
<1> QED
  BY <1>1, Invariance, PTL

\* Whatever timers and manual runs of the scheduler overlap, at most one of the
\* discoveries they enqueue is unsettled.
THEOREM SchedulerOneAtATime == Spec => []OneAtATime
<1>1. IInv => OneAtATime
  BY DEF IInv
<1> QED
  BY <1>1, Invariance, PTL

\* Any number of concurrent consumers of one pair count every page once.
THEOREM NoPageLost == Spec => []CountsAddUp
<1>1. IInv => CountsAddUp
  BY DEF IInv
<1> QED
  BY <1>1, Invariance, PTL

-----------------------------------------------------------------------------
(* A single consumer: what the checkpoint says of the queue.               *)

\* The deployment runs one general consumer.
Single == \A c, d \in Consumers : c = d

Others(c) == {r \in Scrapes \ {job[c]} : r.pair = PairOf(c)}

\* A discovery has pages only once it is completed, so that it finds none of them
\* in the table when it fans out; the checkpoint it resets waits for them.
PagesLast ==
  /\ \A s \in Searches, n \in 0..MaxPages - 1 :
       rows[PageRow(s, n)] # "absent" => rows[s] = "completed"
  /\ \A c \in Consumers : pc[c] = "reset" =>
       /\ seen[c] \in 0..MaxPages /\ draft[c].total = seen[c]
       /\ draft[c].status = IF seen[c] = 0 THEN "completed" ELSE "pending"

\* What a page looked up stays true until it commits the status it derived: no
\* page of the pair starts to wait, and one that was unsettled is so or is dead.
LookedAt ==
  \A c \in Consumers :
    /\ pc[c] \in {"looked", "recorded"} =>
         IF seen[c] = 0 THEN \A r \in Others(c) \cap Found : ~Unsettled(r)
         ELSE \E r \in Others(c) : Unsettled(r) \/ rows[r] = "dead"
    /\ pc[c] = "recorded" =>
         draft[c].status = IF seen[c] = 0 THEN "completed" ELSE "running"

\* The inductive invariant of a single consumer.
SingleInv == PagesLast /\ LookedAt /\ CompletedMeansSettled /\ StuckOnlyByDeath

\* A page is a row of its search's pair, and no other search or number has it.
LEMMA PageRows ==
  /\ \A s \in Searches, n \in 0..MaxPages - 1 :
       PageRow(s, n) \in Found /\ PageRow(s, n).pair = s.pair
  /\ \A s, t \in Searches, m, n \in 0..MaxPages - 1 :
       PageRow(s, m) = PageRow(t, n) => s = t
  /\ \A r \in Found : \E s \in Searches, n \in 0..MaxPages - 1 : r = PageRow(s, n)
  /\ Found \subseteq Scrapes
  /\ \A r \in Found : r.kind = "page" /\ r \notin Requested \cup Direct
  /\ \A r \in Scrapes : r.kind # "hourly"
  /\ \A s \in Schedulers : HourlyRow(s).kind = "hourly"
<1>1. ASSUME NEW s, NEW t, NEW m, NEW n, PageRow(s, m) = PageRow(t, n)
      PROVE  s = t
  <2>1. PageRow(s, m).key = <<s, m>> /\ PageRow(t, n).key = <<t, n>>
    BY DEF PageRow
  <2> QED BY <1>1, <2>1
<1>2. \A s, n : PageRow(s, n).pair = s.pair /\ PageRow(s, n).kind = "page"
  BY DEF PageRow
<1>3. /\ \A r \in Direct : r.kind = "direct"
      /\ \A r \in Requested : r.kind = "requested"
      /\ \A s \in Schedulers : HourlyRow(s).kind = "hourly"
  BY DEF Direct, Requested, HourlyRow
<1> QED
  BY <1>1, <1>2, <1>3 DEF Found, Scrapes

\* A page stays unsettled or dead until it is counted, and a settled one starts to
\* wait only when a discovery of its pair fans out.
PagesMove ==
  /\ \A r \in Scrapes : Unsettled(r) \/ rows[r] = "dead" =>
       \/ Unsettled(r)' \/ rows'[r] = "dead"
       \/ \E c \in Consumers : CommitScrape(c) /\ job[c] = r
  /\ \A r \in Found : Unsettled(r)' =>
       \/ Unsettled(r)
       \/ \E c \in Consumers : FanOut(c) /\ r.pair = PairOf(c) /\ seen[c] > 0

LEMMA ScrapeMoves ==
  ASSUME IInv, PagesLast, [Next]_vars
  PROVE  PagesMove
<1> USE ScopeAssumption, RowKinds, PageRows
    DEF IInv, TypeOK, Acknowledged, Unsettled, States, Rows, Searches, PagesMove
<1>1. ASSUME NEW c \in Consumers, NEW r \in Rows, Take(c, r)
      PROVE  PagesMove
  BY <1>1 DEF Take, Goto, consumers, schedulers
<1>2. ASSUME NEW c \in Consumers, NEW n \in 0..MaxPages, Reset(c, n)
      PROVE  PagesMove
  BY <1>2 DEF Reset, Goto, Upsert, PairOf, consumers, schedulers
<1>3. ASSUME NEW c \in Consumers, FanOut(c)
      PROVE  PagesMove
  <2>1. /\ job[c] \in Searches /\ seen[c] \in 0..MaxPages
        /\ rows \in [Rows -> States]
    BY <1>3 DEF FanOut, PagesLast
  <2>2. \A r \in Rows : rows'[r] = IF r = job[c] THEN "completed"
          ELSE IF r \in {PageRow(job[c], n) : n \in 0..seen[c] - 1}
                  /\ rows[r] = "absent" THEN "waiting" ELSE rows[r]
    BY <1>3 DEF FanOut
  <2>3. ASSUME NEW n \in 0..seen[c] - 1
        PROVE  PageRow(job[c], n).pair = PairOf(c) /\ seen[c] > 0
    BY <2>1 DEF PairOf
  <2>4. Found \subseteq Rows /\ job[c] \notin Scrapes
    BY <2>1 DEF Scrapes
  <2>5. \A r \in Scrapes : rows[r] # "absent" => rows'[r] = rows[r]
    BY <2>2, <2>4
  <2>6. ASSUME NEW r \in Found, rows'[r] # rows[r]
        PROVE  r.pair = PairOf(c) /\ seen[c] > 0
    BY <2>2, <2>3, <2>4, <2>6
  <2> QED
    BY <1>3, <2>5, <2>6
<1>4. ASSUME NEW c \in Consumers, Acknowledge(c)
      PROVE  PagesMove
  BY <1>4 DEF Acknowledge, Goto, consumers, schedulers
<1>5. ASSUME NEW c \in Consumers, Look(c)
      PROVE  PagesMove
  BY <1>5 DEF Look, Goto, consumers, schedulers
<1>6. ASSUME NEW c \in Consumers, Record(c)
      PROVE  PagesMove
  BY <1>6 DEF Record, Goto, Upsert, PairOf, consumers, schedulers
<1>7. ASSUME NEW c \in Consumers, CommitScrape(c)
      PROVE  PagesMove
  BY <1>7 DEF CommitScrape, Finish, PairOf, consumers, schedulers
<1>8. ASSUME NEW c \in Consumers, Drop(c)
      PROVE  PagesMove
  BY <1>8 DEF Drop, consumers, schedulers
<1>9. ASSUME NEW s \in Schedulers, Begin(s)
      PROVE  PagesMove
  BY <1>9 DEF Begin, SGoto, consumers, schedulers
<1>10. ASSUME NEW s \in Schedulers, Quit(s)
      PROVE  PagesMove
  BY <1>10 DEF Quit, SGoto, consumers, schedulers
<1>11. ASSUME NEW s \in Schedulers, Check(s)
      PROVE  PagesMove
  BY <1>11 DEF Check, SGoto, consumers, schedulers
<1>12. ASSUME NEW s \in Schedulers, Choose(s)
      PROVE  PagesMove
  BY <1>12 DEF Choose, SGoto, consumers, schedulers
<1>13. ASSUME NEW s \in Schedulers, Insert(s)
      PROVE  PagesMove
  <2>1. PICK h : /\ h.kind = "hourly"
                  /\ rows' = [rows EXCEPT ![h] =
                                IF rows[h] = "absent" THEN "waiting" ELSE rows[h]]
    BY <1>13 DEF Insert
  <2>2. /\ \A r \in Scrapes : rows'[r] = rows[r]
        /\ \A r \in Searches : rows[r] = "completed" => rows'[r] = "completed"
    <3>1. \A r \in Scrapes : r # h
      BY <2>1, PageRows
    <3>2. rows \in [Rows -> States] /\ Scrapes \subseteq Rows /\ Searches \subseteq Rows
      BY DEF Rows
    <3> QED BY ONLY <2>1, <3>1, <3>2
  <2>3. UNCHANGED consumers
    BY <1>13 DEF Insert
  <2>4. \A s1 \in Searches, n \in 0..MaxPages - 1 : PageRow(s1, n) \in Scrapes
    BY PageRows
  <2> QED BY <2>2, <2>3, <2>4 DEF consumers
<1>14. ASSUME NEW r \in Rows, GiveBack(r)
      PROVE  PagesMove
  BY <1>14 DEF GiveBack, consumers, schedulers
<1>15. ASSUME NEW r \in Requested \cup Direct, Request(r)
      PROVE  PagesMove
  BY <1>15 DEF Request, consumers, schedulers
<1>16. ASSUME NEW p \in Pairs, ComeDue(p)
      PROVE  PagesMove
  BY <1>16 DEF ComeDue, consumers, schedulers
<1>17. ASSUME NextHour
      PROVE  PagesMove
  BY <1>17 DEF NextHour, consumers, schedulers
<1>18. CASE UNCHANGED vars
  BY <1>18 DEF vars, consumers, schedulers
<1> QED
  BY <1>1, <1>2, <1>3, <1>4, <1>5, <1>6, <1>7, <1>8, <1>9, <1>10, <1>11, <1>12,
     <1>13, <1>14, <1>15, <1>16, <1>17, <1>18 DEF Next, Consume, Schedule

\* Every step keeps the pages behind their discovery.
LEMMA PagesStep ==
  ASSUME IInv, PagesLast, [Next]_vars
  PROVE  PagesLast'
<1> USE ScopeAssumption, RowKinds, PageRows
    DEF IInv, TypeOK, Acknowledged, States, Rows, PagesLast
<1>1. ASSUME NEW c \in Consumers, NEW r \in Rows, Take(c, r)
      PROVE  PagesLast'
  BY <1>1 DEF Take, Goto, consumers, schedulers
<1>2. ASSUME NEW c \in Consumers, NEW n \in 0..MaxPages, Reset(c, n)
      PROVE  PagesLast'
  <2>1. /\ pc' = [pc EXCEPT ![c] = "reset"] /\ seen' = [seen EXCEPT ![c] = n]
        /\ draft' = [draft EXCEPT ![c] =
                       [status |-> IF n = 0 THEN "completed" ELSE "pending",
                        total |-> n, scraped |-> 0, due |-> FALSE]]
        /\ rows' = rows
    BY <1>2 DEF Reset, Goto, Upsert
  <2>2. \A d \in Consumers \ {c} :
          pc'[d] = pc[d] /\ seen'[d] = seen[d] /\ draft'[d] = draft[d]
    BY <2>1
  <2>3. /\ seen'[c] = n /\ draft'[c].total = n
        /\ draft'[c].status = IF n = 0 THEN "completed" ELSE "pending"
    BY <2>1
  <2> QED BY <2>1, <2>2, <2>3
<1>3. ASSUME NEW c \in Consumers, FanOut(c)
      PROVE  PagesLast'
  <2>1. /\ job[c] \in Searches /\ seen[c] \in 0..MaxPages
        /\ rows \in [Rows -> States]
    BY <1>3 DEF FanOut
  <2>2. \A r \in Rows : rows'[r] = IF r = job[c] THEN "completed"
          ELSE IF r \in {PageRow(job[c], n) : n \in 0..seen[c] - 1}
                  /\ rows[r] = "absent" THEN "waiting" ELSE rows[r]
    BY <1>3 DEF FanOut
  <2>3. ASSUME NEW s \in Searches, NEW n \in 0..MaxPages - 1,
               rows'[PageRow(s, n)] # "absent"
        PROVE  rows'[s] = "completed"
    <3>1. CASE rows[PageRow(s, n)] # "absent"
      BY <2>1, <2>2, <3>1 DEF Scrapes
    <3>2. CASE rows[PageRow(s, n)] = "absent"
      <4>1. PageRow(s, n) \in Rows /\ PageRow(s, n) \in Scrapes /\ s \in Rows
        BY DEF Scrapes
      <4>2. PageRow(s, n) # job[c]
        BY <2>1, <4>1
      <4>3. PICK m \in 0..seen[c] - 1 : PageRow(s, n) = PageRow(job[c], m)
        BY <2>2, <2>3, <3>2, <4>1, <4>2
      <4>4. s = job[c]
        BY <2>1, <4>3
      <4> QED BY <2>2, <4>1, <4>4
    <3> QED BY <3>1, <3>2
  <2>4. \A d \in Consumers : pc'[d] = "reset" =>
          pc[d] = "reset" /\ seen'[d] = seen[d] /\ draft'[d] = draft[d]
    BY <1>3 DEF FanOut, Finish
  <2> QED BY <2>3, <2>4
<1>4. ASSUME NEW c \in Consumers, Acknowledge(c)
      PROVE  PagesLast'
  BY <1>4 DEF Acknowledge, Goto, consumers, schedulers
<1>5. ASSUME NEW c \in Consumers, Look(c)
      PROVE  PagesLast'
  BY <1>5 DEF Look, Goto, consumers, schedulers
<1>6. ASSUME NEW c \in Consumers, Record(c)
      PROVE  PagesLast'
  BY <1>6 DEF Record, Goto, Upsert, PairOf, consumers, schedulers
<1>7. ASSUME NEW c \in Consumers, CommitScrape(c)
      PROVE  PagesLast'
  <2>1. /\ pc[c] = "recorded" /\ job[c] \in Scrapes /\ rows[job[c]] = "processing"
        /\ rows' = [rows EXCEPT ![job[c]] = "completed"]
    BY <1>7 DEF CommitScrape
  <2>2. /\ \A r \in Rows : rows'[r] = rows[r] \/ rows'[r] = "completed"
        /\ \A r \in Rows : rows[r] = "absent" => rows'[r] = "absent"
    BY ONLY <2>1, rows \in [Rows -> States]
  <2>3. \A s \in Searches, n \in 0..MaxPages - 1 :
          rows'[PageRow(s, n)] # "absent" => rows'[s] = "completed"
    BY <2>2 DEF Scrapes
  <2>4. \A d \in Consumers : pc'[d] = "reset" =>
          pc[d] = "reset" /\ seen'[d] = seen[d] /\ draft'[d] = draft[d]
    BY <1>7 DEF CommitScrape, Finish
  <2> QED BY <2>3, <2>4
<1>8. ASSUME NEW c \in Consumers, Drop(c)
      PROVE  PagesLast'
  BY <1>8 DEF Drop, consumers, schedulers
<1>9. ASSUME NEW s \in Schedulers, Begin(s)
      PROVE  PagesLast'
  BY <1>9 DEF Begin, SGoto, consumers, schedulers
<1>10. ASSUME NEW s \in Schedulers, Quit(s)
      PROVE  PagesLast'
  BY <1>10 DEF Quit, SGoto, consumers, schedulers
<1>11. ASSUME NEW s \in Schedulers, Check(s)
      PROVE  PagesLast'
  BY <1>11 DEF Check, SGoto, consumers, schedulers
<1>12. ASSUME NEW s \in Schedulers, Choose(s)
      PROVE  PagesLast'
  BY <1>12 DEF Choose, SGoto, consumers, schedulers
<1>13. ASSUME NEW s \in Schedulers, Insert(s)
      PROVE  PagesLast'
  <2>1. PICK h : /\ h.kind = "hourly"
                  /\ rows' = [rows EXCEPT ![h] =
                                IF rows[h] = "absent" THEN "waiting" ELSE rows[h]]
    BY <1>13 DEF Insert
  <2>2. /\ \A r \in Scrapes : rows'[r] = rows[r]
        /\ \A r \in Searches : rows[r] = "completed" => rows'[r] = "completed"
    <3>1. \A r \in Scrapes : r # h
      BY <2>1, PageRows
    <3>2. rows \in [Rows -> States] /\ Scrapes \subseteq Rows /\ Searches \subseteq Rows
      BY DEF Rows
    <3> QED BY ONLY <2>1, <3>1, <3>2
  <2>3. UNCHANGED consumers
    BY <1>13 DEF Insert
  <2>4. \A s1 \in Searches, n \in 0..MaxPages - 1 : PageRow(s1, n) \in Scrapes
    BY PageRows
  <2> QED BY <2>2, <2>3, <2>4 DEF consumers
<1>14. ASSUME NEW r \in Rows, GiveBack(r)
      PROVE  PagesLast'
  BY <1>14 DEF GiveBack, consumers, schedulers
<1>15. ASSUME NEW r \in Requested \cup Direct, Request(r)
      PROVE  PagesLast'
  BY <1>15 DEF Request, consumers, schedulers
<1>16. ASSUME NEW p \in Pairs, ComeDue(p)
      PROVE  PagesLast'
  BY <1>16 DEF ComeDue, consumers, schedulers
<1>17. ASSUME NextHour
      PROVE  PagesLast'
  BY <1>17 DEF NextHour, consumers, schedulers
<1>18. CASE UNCHANGED vars
  BY <1>18 DEF vars, consumers, schedulers
<1> QED
  BY <1>1, <1>2, <1>3, <1>4, <1>5, <1>6, <1>7, <1>8, <1>9, <1>10, <1>11, <1>12,
     <1>13, <1>14, <1>15, <1>16, <1>17, <1>18 DEF Next, Consume, Schedule

\* A step that is not a consumer's leaves consumers and checkpoints alone, but for
\* the clock.
LEMMA OtherSteps ==
  ASSUME [Next]_vars, \A c \in Consumers : ~Consume(c)
  PROVE  /\ UNCHANGED consumers
         /\ \/ UNCHANGED progress
            \/ \E p \in Pairs : ComeDue(p)
BY DEF Next, Schedule, Begin, Quit, Check, Choose, Insert, GiveBack, Request, ComeDue,
   NextHour, vars, schedulers

\* Every step of a single consumer keeps what it has looked up.
LEMMA LookedStep ==
  ASSUME Single, IInv, PagesLast, LookedAt, [Next]_vars
  PROVE  LookedAt'
<1>1. PagesMove
  BY ScrapeMoves
<1>2. /\ rows \in [Rows -> States] /\ pc \in [Consumers -> {"idle", "working", "reset",
           "acknowledged", "looked", "recorded"}]
      /\ seen \in [Consumers -> Nat] /\ draft \in [Consumers -> Checkpoint]
      /\ job \in [Consumers -> Rows \cup {None}] /\ Scrapes \subseteq Rows
  BY DEF IInv, TypeOK, Rows
<1>3. CASE \A c \in Consumers : ~Consume(c)
  <2>1. UNCHANGED <<pc, job, seen, draft>>
    BY <1>3, OtherSteps DEF consumers
  <2>2. ASSUME NEW c \in Consumers
        PROVE  ~CommitScrape(c) /\ ~FanOut(c)
    BY <1>3 DEF Consume
  <2>3. /\ \A r \in Scrapes : Unsettled(r) \/ rows[r] = "dead" =>
             Unsettled(r)' \/ rows'[r] = "dead"
        /\ \A r \in Found : Unsettled(r)' => Unsettled(r)
    BY <1>1, <2>2 DEF PagesMove
  <2> QED
    BY <2>1, <2>3 DEF LookedAt, Others, PairOf
<1>4. ASSUME NEW c \in Consumers, Consume(c)
      PROVE  LookedAt'
  <2>1. \A d \in Consumers : d = c
    BY DEF Single
  <2>2. CASE pc'[c] \notin {"looked", "recorded"}
    BY <2>1, <2>2 DEF LookedAt
  <2>3. CASE Look(c)
    <3>1. /\ pc' = [pc EXCEPT ![c] = "looked"] /\ UNCHANGED <<rows, job>>
          /\ seen' = [seen EXCEPT ![c] = IF Remaining(c) = {} THEN 0 ELSE 1]
      BY <2>3 DEF Look, Goto
    <3>2. \A r \in Scrapes \ {job[c]} :
            r \in Remaining(c) <=> r.pair = PairOf(c) /\ Unsettled(r)
      BY DEF Remaining
    <3>3. \A r \in Remaining(c) : r \in Others(c) /\ Unsettled(r)
      BY DEF Remaining, Others
    <3>4. Others(c)' = Others(c) /\ \A r \in Rows : Unsettled(r)' <=> Unsettled(r)
      BY <3>1 DEF Others, PairOf, Unsettled
    <3>5. CASE Remaining(c) = {}
      <4>1. seen'[c] = 0 /\ pc'[c] = "looked"
        BY <1>2, <3>1, <3>5
      <4>2. \A r \in Others(c) \cap Found : ~Unsettled(r)
        BY <3>2, <3>5 DEF Others
      <4> QED BY <1>2, <2>1, <3>4, <4>1, <4>2 DEF LookedAt, Others
    <3>6. CASE Remaining(c) # {}
      <4>1. seen'[c] = 1 /\ pc'[c] = "looked"
        BY <1>2, <3>1, <3>6
      <4>2. \E r \in Others(c) : Unsettled(r)
        BY <3>3, <3>6
      <4> QED BY <1>2, <2>1, <3>4, <4>1, <4>2 DEF LookedAt, Others
    <3> QED BY <3>5, <3>6
  <2>4. CASE Record(c)
    <3>1. /\ pc[c] = "looked" /\ UNCHANGED <<rows, job, seen>>
          /\ pc' = [pc EXCEPT ![c] = "recorded"]
      BY <2>4 DEF Record, Goto
    <3>2. draft'[c].status = IF seen[c] = 0 THEN "completed" ELSE "running"
      BY <1>2, <2>4 DEF Record, Upsert
    <3> QED BY <1>2, <2>1, <3>1, <3>2 DEF LookedAt, Others, PairOf, Unsettled
  <2>5. CASE ~Look(c) /\ ~Record(c)
    <3>1. pc'[c] \notin {"looked", "recorded"}
      BY <1>2, <1>4, <2>5 DEF Consume, Take, Goto, Reset, FanOut, Finish, Acknowledge,
         CommitScrape, Drop
    <3> QED BY <2>2, <3>1
  <2> QED BY <2>3, <2>4, <2>5
<1> QED BY <1>3, <1>4

\* Every step of a single consumer keeps the checkpoints true.
LEMMA CheckpointStep ==
  ASSUME Single, IInv, SingleInv, [Next]_vars
  PROVE  (CompletedMeansSettled /\ StuckOnlyByDeath)'
<1>1. PagesMove
  BY ScrapeMoves DEF SingleInv
<1>2. /\ progress \in [Pairs -> Checkpoint] /\ rows \in [Rows -> States]
      /\ job \in [Consumers -> Rows \cup {None}] /\ Scrapes \subseteq Rows
      /\ Found \subseteq Scrapes
  BY PageRows DEF IInv, TypeOK, Rows
<1> SUFFICES ASSUME NEW p \in Pairs
             PROVE  /\ progress'[p].status = "completed" /\ progress'[p].total > 0 =>
                         \A r \in Found : r.pair = p => ~Unsettled(r)'
                    /\ progress'[p].status \in {"pending", "running"} =>
                         \E r \in Scrapes :
                           r.pair = p /\ (Unsettled(r)' \/ rows'[r] = "dead")
  BY DEF CompletedMeansSettled, StuckOnlyByDeath
<1>3. CASE /\ progress'[p].status = progress[p].status
           /\ progress'[p].total = progress[p].total
           /\ \A c \in Consumers : CommitScrape(c) \/ FanOut(c) => PairOf(c) # p
  <2>1. \A r \in Found : r.pair = p /\ Unsettled(r)' => Unsettled(r)
    BY <1>1, <1>3 DEF PagesMove
  <2>2. \A r \in Scrapes : r.pair = p /\ (Unsettled(r) \/ rows[r] = "dead") =>
          Unsettled(r)' \/ rows'[r] = "dead"
    BY <1>1, <1>3 DEF PagesMove, PairOf
  <2> QED
    BY <1>3, <2>1, <2>2 DEF SingleInv, CompletedMeansSettled, StuckOnlyByDeath
<1>4. ASSUME NEW c \in Consumers, FanOut(c), PairOf(c) = p
      PROVE  /\ progress'[p].status = "completed" /\ progress'[p].total > 0 => FALSE
             /\ progress'[p].status \in {"pending", "running"} =>
                  \E r \in Scrapes : r.pair = p /\ Unsettled(r)'
  <2>1. /\ job[c] \in Searches /\ seen[c] \in 0..MaxPages /\ draft[c].total = seen[c]
        /\ draft[c].status = IF seen[c] = 0 THEN "completed" ELSE "pending"
        /\ rows[job[c]] = "processing"
    BY <1>4, ScopeAssumption, RowKinds
    DEF FanOut, SingleInv, PagesLast, IInv, Acknowledged, TypeOK
  <2>2. progress'[p] = draft[c]
    BY <1>2, <1>4 DEF FanOut, Finish
  <2>3. CASE seen[c] = 0
    BY <2>1, <2>2, <2>3
  <2>4. CASE seen[c] # 0
    <3>1. 0 \in 0..seen[c] - 1 /\ 0 \in 0..MaxPages - 1
      BY <2>1, <2>4, ScopeAssumption
    <3> DEFINE r == PageRow(job[c], 0)
    <3>2. r \in Scrapes /\ r \in Rows /\ r.pair = p
      BY <1>2, <1>4, <2>1, <3>1, PageRows DEF PairOf
    <3>3. rows[r] = "absent" /\ r # job[c]
      BY <2>1, <3>1, <3>2, RowKinds DEF SingleInv, PagesLast
    <3>4. rows'[r] = "waiting"
      BY <1>4, <3>1, <3>2, <3>3 DEF FanOut
    <3> QED BY <2>1, <2>2, <2>4, <3>2, <3>4 DEF Unsettled
  <2> QED BY <2>3, <2>4
<1>5. ASSUME NEW c \in Consumers, CommitScrape(c), PairOf(c) = p
      PROVE  /\ progress'[p].status = "completed" =>
                  \A r \in Found : r.pair = p => ~Unsettled(r)'
             /\ progress'[p].status \in {"pending", "running"} =>
                  \E r \in Scrapes : r.pair = p /\ (Unsettled(r)' \/ rows'[r] = "dead")
  <2>1. progress'[p] = draft[c] /\ pc[c] = "recorded" /\ job[c] \in Rows
    BY <1>2, <1>5, ScopeAssumption
    DEF CommitScrape, Finish, IInv, Acknowledged
  <2>2. /\ rows'[job[c]] = "completed"
        /\ \A r \in Rows : r # job[c] => rows'[r] = rows[r]
    BY <1>2, <1>5, <2>1 DEF CommitScrape
  <2>3. \A r \in Rows : r # job[c] => (Unsettled(r)' <=> Unsettled(r))
    BY <2>2 DEF Unsettled
  <2>4. \A r \in Rows : r = job[c] => ~Unsettled(r)'
    BY <2>2 DEF Unsettled
  <2>5. CASE seen[c] = 0
    <3>1. \A r \in Others(c) \cap Found : ~Unsettled(r)
      BY <2>1, <2>5 DEF SingleInv, LookedAt
    <3>2. draft[c].status = "completed"
      BY <2>1, <2>5 DEF SingleInv, LookedAt
    <3> QED BY <1>2, <1>5, <2>1, <2>3, <2>4, <3>1, <3>2 DEF Others
  <2>6. CASE seen[c] # 0
    <3>1. PICK r \in Others(c) : Unsettled(r) \/ rows[r] = "dead"
      BY <2>1, <2>6 DEF SingleInv, LookedAt
    <3>2. draft[c].status = "running"
      BY <2>1, <2>6 DEF SingleInv, LookedAt
    <3> QED BY <1>2, <1>5, <2>1, <2>2, <2>3, <3>1, <3>2 DEF Others
  <2> QED BY <2>5, <2>6
<1>6. CASE \A c \in Consumers : CommitScrape(c) \/ FanOut(c) => PairOf(c) # p
  <2>1. CASE \E c \in Consumers : Consume(c)
    <3>1. PICK c \in Consumers : Consume(c)
      BY <2>1
    <3>2. UNCHANGED progress \/ CommitScrape(c) \/ FanOut(c)
      BY <3>1 DEF Consume, Take, Reset, Acknowledge, Look, Record, Drop
    <3>3. progress'[p] = progress[p]
      BY <1>2, <1>6, <3>2 DEF CommitScrape, FanOut, Finish
    <3> QED BY <1>3, <1>6, <3>3
  <2>2. CASE \A c \in Consumers : ~Consume(c)
    <3>1. /\ progress'[p].status = progress[p].status
          /\ progress'[p].total = progress[p].total
      BY <1>2, <2>2, OtherSteps DEF ComeDue, Checkpoint
    <3> QED BY <1>3, <1>6, <3>1
  <2> QED BY <2>1, <2>2
<1> QED BY <1>4, <1>5, <1>6

\* The invariant of a single consumer holds throughout.
LEMMA SingleInvariance ==
  ASSUME Single
  PROVE  Spec => []SingleInv
<1>1. Init => SingleInv
  BY PageRows
  DEF Init, SingleInv, PagesLast, LookedAt, CompletedMeansSettled, StuckOnlyByDeath,
      Untouched, Scrapes, Rows
<1>2. IInv /\ SingleInv /\ [Next]_vars => SingleInv'
  BY PagesStep, LookedStep, CheckpointStep DEF SingleInv
<1> QED BY <1>1, <1>2, Invariance, PTL DEF Spec

\* With one general consumer, whatever overlapping schedulers and API requests ask
\* for, a checkpoint that says completed has no page left in the queue.
THEOREM CompletedSettled ==
  ASSUME Single
  PROVE  Spec => []CompletedMeansSettled
<1>1. SingleInv => CompletedMeansSettled
  BY DEF SingleInv
<1> QED BY <1>1, SingleInvariance, PTL

\* With one general consumer, only a dead page leaves a checkpoint pending or
\* running for good.
THEOREM StuckByDeath ==
  ASSUME Single
  PROVE  Spec => []StuckOnlyByDeath
<1>1. SingleInv => StuckOnlyByDeath
  BY DEF SingleInv
<1> QED BY <1>1, SingleInvariance, PTL

=============================================================================
