------------------------------ MODULE MCRowImport ------------------------------
EXTENDS RowImport, TLC

\* Two rescued deeds, one county, one owned key; the other tables are empty.
RescuedRows ==
  [s \in Stores |-> CASE s = "deed_records" -> {1, 2}
                      [] s \in {"counties", "dedup_kv"} -> {1}
                      [] OTHER -> {}]

ManifestSymmetry == Permutations(Manifests)

=============================================================================
