--------------------------- MODULE MCReleaseGates ---------------------------
(***************************************************************************)
(* Two interchangeable releases for ReleaseGates.                          *)
(***************************************************************************)
EXTENDS ReleaseGates, TLC

ReleaseSymmetry == Permutations(Releases)

=============================================================================
