-------------------------- MODULE StagingResources --------------------------
(***************************************************************************)
(* provision_credentials.py --mode staging-create and staging-cleanup, as  *)
(* the deployment script calls them: a release has a database, a bucket    *)
(* and a MinIO identity named after it, while the credential directory is  *)
(* one fixed path for all releases.  Creation is a sequence of commands    *)
(* that can be killed between any two; cleanup removes the directory last. *)
(***************************************************************************)
EXTENDS Integers

CONSTANT Releases    \* the commits that are deployed; each names its resources

VARIABLES
  staged,     \* the resources that exist under each release's names
  directory,  \* STAGING_CREDENTIALS exists
  unit,       \* the staging API unit runs
  resources,  \* STAGING_RESOURCES of the running attempt
  reported,   \* history: releases an attempt of which has ended asking for attention
              \* to its staging, since a cleanup of it last returned
  overlooked  \* history: releases an attempt of which was killed, or whose cleanup
              \* took a MinIO that did not answer for an empty one, since it converged

memos == <<reported, overlooked>>
staging == <<staged, directory, unit, resources, memos>>

Resources == {"database", "bucket", "identity"}

StagingInit ==
  /\ staged = [r \in Releases |-> {}]
  /\ directory = FALSE /\ unit = FALSE /\ resources = FALSE
  /\ reported = {} /\ overlooked = {}

StagingOK ==
  /\ staged \in [Releases -> SUBSET Resources]
  /\ {directory, unit, resources} \subseteq BOOLEAN
  /\ reported \subseteq Releases /\ overlooked \subseteq Releases

-----------------------------------------------------------------------------
(* staging-create.                                                         *)

MakeDirectory ==
  /\ ~directory /\ directory' = TRUE
  /\ UNCHANGED <<staged, unit, resources, memos>>

\* One of CREATE ROLE and CREATE DATABASE, mb, policy and user; only the last two
\* replace what exists.
Create(r, resource) ==
  /\ resource = "identity" \/ resource \notin staged[r]
  /\ staged' = [staged EXCEPT ![r] = @ \cup {resource}]
  /\ UNCHANGED <<directory, unit, resources, memos>>

-----------------------------------------------------------------------------
(* staging-cleanup: MinIO first, unchecked, then probed by commands whose *)
(* failure is taken for absence; then the database and the role, checked   *)
(* and probed; then the directory.                                         *)

Cleaned(r) ==
  /\ staged' = [staged EXCEPT ![r] = {}]
  /\ directory' = FALSE
  /\ reported' = reported \ {r} /\ overlooked' = overlooked \ {r}

\* MinIO cannot be reached: removals and probes fail alike, which passes for gone.
CleanedBlind(r) ==
  /\ \E left \in SUBSET (staged[r] \ {"database"}) :
       staged' = [staged EXCEPT ![r] = left]
  /\ directory' = FALSE
  /\ reported' = reported \ {r} /\ overlooked' = overlooked \cup {r}

\* A slip the properties must catch: the directory is removed first.
NotCleanedButDirectory(r) ==
  /\ \E left \in SUBSET staged[r] : staged' = [staged EXCEPT ![r] = left]
  /\ directory' = FALSE

\* A probe finds what should be gone, or a command on the database fails: it
\* raises with the directory in place.
NotCleaned(r) ==
  /\ \E left \in SUBSET staged[r] : staged' = [staged EXCEPT ![r] = left]
  /\ UNCHANGED directory

=============================================================================
