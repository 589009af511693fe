---------------------------- MODULE ObjectStore ----------------------------
(***************************************************************************)
(* object_store.py under the workers of QueueWorker.  Inside its lease     *)
(* fence a worker checks whether the object exists, puts it if not, and    *)
(* reads it back.  The bucket is not part of the transaction: a worker     *)
(* whose put_object times out or loses the connection, or that is killed,  *)
(* releases the fence, while the PUT it had sent may still arrive; and the *)
(* client of MinIO sends a PUT again when it gets no answer in time.       *)
(*                                                                         *)
(* A page document carries the time it was rendered, so that every attempt *)
(* renders different bytes; the lease token names the attempt.  The body of*)
(* a canary depends on its identity only.  Each row writes one object here.*)
(***************************************************************************)
EXTENDS QueueWorker

CONSTANT MaxLate   \* bound on the PUTs explored that nobody waits for

ASSUME MaxLateAssumption == MaxLate \in Nat

VARIABLES
  stored,    \* what the bucket has under each key, or None
  io,        \* how far put_immutable of each worker is
  flight,    \* PUT requests nobody waits for: their sender has given them up,
             \* was killed or has sent them again
  recorded,  \* the body whose digest the ACK of each row recorded, or None
  late       \* history: keys such a PUT has reached

objects == <<stored, io, flight, recorded, late>>

Keys == {Object[j] : j \in Jobs}

Body(w) == [row |-> held[w], stamp |-> IF IsCanary(held[w]) THEN NoToken ELSE token[w]]

Bodies == [row : Jobs, stamp : Nat]

ASSUME NoneIsNoBody == None \notin Bodies

Key(w) == Object[held[w]]

ObjectsInit ==
  /\ stored = [k \in Keys |-> None]
  /\ io = [w \in Workers |-> "begin"]
  /\ flight = {}
  /\ recorded = [j \in Jobs |-> None]
  /\ late = {}

-----------------------------------------------------------------------------

\* A slip the properties must catch: the existence check is skipped.
StatBlind(w) ==
  /\ pc[w] = "putting" /\ io[w] = "begin"
  /\ io' = [io EXCEPT ![w] = "absent"]
  /\ UNCHANGED <<vars, stored, flight, recorded, late>>

\* A slip the properties must catch: the check is made before the fence is taken.
StatOutside(w) ==
  /\ pc[w] \in {"fencing", "putting"} /\ io[w] = "begin"
  /\ io' = [io EXCEPT ![w] = IF stored[Key(w)] = None THEN "absent" ELSE "divergent"]
  /\ UNCHANGED <<vars, stored, flight, recorded, late>>

\* read_existing before the PUT; other content ends in ObjectStoreError
Stat(w) ==
  /\ pc[w] = "putting" /\ io[w] = "begin"
  /\ io' = [io EXCEPT ![w] = CASE stored[Key(w)] = None -> "absent"
                               [] stored[Key(w)] = Body(w) -> "written"
                               [] OTHER -> "divergent"]
  /\ UNCHANGED <<vars, stored, flight, recorded, late>>

\* a PUT of w that gets no answer is lost, or may arrive later
Unanswered(w) ==
  \/ flight' = flight
  \/ /\ Cardinality(flight) < MaxLate
     /\ flight' = flight \cup {<<Key(w), Body(w)>>}

\* put_object; the client may have sent the same PUT before without an answer
Put(w) ==
  /\ pc[w] = "putting" /\ io[w] = "absent"
  /\ stored' = [stored EXCEPT ![Key(w)] = Body(w)]
  /\ io' = [io EXCEPT ![w] = "written"]
  /\ Unanswered(w)
  /\ UNCHANGED <<vars, recorded, late>>

\* the object read back has the digest that was put
Verified(w) == io[w] = "written" /\ stored[Key(w)] = Body(w)

\* complete_scrape records the digests of the pages it persisted in the commit
\* that completes the row; complete_discovery and complete_job record none
Persisted(j) == Kind[j] = "scrape" /\ Rounds[j] > 0

Record(w) ==
  recorded' = [j \in Jobs |->
    IF queue[j].state # "completed" /\ queue'[j].state = "completed" /\ Persisted(j)
      THEN Body(w) ELSE recorded[j]]

\* before its PUT is answered w may have sent it
Sending(w) == pc[w] = "putting" /\ io[w] = "absent"

\* any other step of the worker; it leaves the fence normally only with a
\* verified object, and with an error at any time: put_object raises with its
\* PUT not sent, lost, done or still to come
WorkerStep(w) ==
  /\ Step(w)
  /\ pc[w] = "putting" /\ pc'[w] = "working" => Verified(w)
  /\ IF Sending(w) THEN Unanswered(w) ELSE flight' = flight
  /\ io' = [io EXCEPT ![w] = "begin"]
  /\ Record(w)
  /\ UNCHANGED <<stored, late>>

KillWorker(w) ==
  /\ Crash(w)
  /\ IF Sending(w) THEN Unanswered(w) ELSE flight' = flight
  /\ io' = [io EXCEPT ![w] = "begin"]
  /\ UNCHANGED <<stored, recorded, late>>

\* a PUT nobody waits for is done by the store after all
Arrive ==
  \E f \in flight :
    /\ stored' = [stored EXCEPT ![f[1]] = f[2]]
    /\ flight' = flight \ {f}
    /\ late' = late \cup {f[1]}
    /\ UNCHANGED <<vars, io, recorded>>

StoreInit == Init /\ ObjectsInit

StoreStep ==
  \/ \E w \in Workers : Stat(w) \/ Put(w) \/ WorkerStep(w) \/ KillWorker(w)
  \/ Arrive

StoreNext ==
  \/ StoreStep
  \/ (Environment \/ \E w \in Workers : Start(w)) /\ UNCHANGED objects

StoreSpec == StoreInit /\ [][StoreNext]_<<vars, objects>>

-----------------------------------------------------------------------------
(* Properties.                                                             *)

\* The variables of the bucket have their types, and nobody looks at an object or
\* writes one outside the fence.
ObjectsOK ==
  /\ \A w \in Workers : io[w] # "begin" => pc[w] = "putting"
  /\ stored \in [Keys -> Bodies \cup {None}]
  /\ io \in [Workers -> {"begin", "absent", "written", "divergent"}]
  /\ flight \subseteq Keys \X Bodies
  /\ recorded \in [Jobs -> Bodies \cup {None}]
  /\ late \subseteq Keys

\* Objects are immutable: whatever workers race for a key, retry or take a row
\* over, the content of an object changes only when a PUT is done that no worker
\* waits for any more, its sender having timed out, been killed or sent it again.
WriteOnce ==
  [][\A k \in Keys : stored[k] # None /\ stored'[k] # stored[k] => k \in late'
    ]_<<vars, objects>>

\* The digest recorded for a completed row is the digest of its object, unless
\* a PUT that no worker waited for any more has been done since.
RecordedIsStored ==
  \A j \in Jobs : recorded[j] # None =>
    stored[Object[j]] = recorded[j] \/ Object[j] \in late

\* "Deterministic ... page persistence": an attempt that finds the object its own
\* row stored before finds the bytes it would put itself.
RetryMatches ==
  \A w \in Workers :
    pc[w] = "putting" /\ stored[Key(w)] # None /\ stored[Key(w)].row = held[w]
      => stored[Key(w)] = Body(w)

=============================================================================
