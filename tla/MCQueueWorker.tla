--------------------------- MODULE MCQueueWorker ---------------------------
(***************************************************************************)
(* Instances of QueueWorker for TLC.  Four rows to choose from: a page     *)
(* scrape that may run twice, the canary of the release tool, a second     *)
(* scrape of the same page, a discovery that may run twice.                *)
(***************************************************************************)
EXTENDS QueueWorker

CONSTANTS w1, w2, page, canary, page2, discovery

MCKind == [j \in Jobs |-> CASE j = canary -> "acceptance_canary"
                            [] j = discovery -> "discover"
                            [] OTHER -> "scrape"]

MCTarget == [j \in Jobs |-> w2]

MCObject == [j \in Jobs |-> IF j = page2 THEN page ELSE j]

MCRounds == [j \in Jobs |-> 1]

MCMaxAttempts == [j \in Jobs |-> IF j \in {page, discovery} THEN 2 ELSE 1]

=============================================================================
