-------------------------- MODULE MCScrapeProgress --------------------------
(***************************************************************************)
(* Instances of ScrapeProgress for TLC.                                    *)
(***************************************************************************)
EXTENDS ScrapeProgress

CONSTANTS deeds, liens, again

\* a client of the API asks for the deeds again
MCRequestPair == [k \in Requests |-> deeds]

MCId == [p \in Pairs |-> IF p = deeds THEN 1 ELSE 2]

=============================================================================
