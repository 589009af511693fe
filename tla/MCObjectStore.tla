-------------------------- MODULE MCObjectStore -----------------------------
(***************************************************************************)
(* Instances of ObjectStore for TLC: a page that may be scraped twice, and *)
(* a second row for the same page, both under one object key.              *)
(***************************************************************************)
EXTENDS ObjectStore

CONSTANTS w1, w2, page, canary, page2, discovery

MCKind == [j \in Jobs |-> CASE j = canary -> "acceptance_canary"
                            [] j = discovery -> "discover"
                            [] OTHER -> "scrape"]

MCTarget == [j \in Jobs |-> w2]

MCObject == [j \in Jobs |-> IF j = page2 THEN page ELSE j]

MCRounds == [j \in Jobs |-> 1]

MCMaxAttempts == [j \in Jobs |-> IF j \in {page, discovery} THEN 2 ELSE 1]

=============================================================================
