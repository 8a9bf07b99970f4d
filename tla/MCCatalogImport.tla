---- MODULE MCCatalogImport ----
EXTENDS CatalogImport, TLC
CONSTANTS r1, r2, d1, d2, j1, j2
Listings == {r1, r2, d1, d2}
OfRegistry == {r1, r2}
OldMerge == {r1, r2}
\* Both directories list one product, the first of them under the name of the registry
\* entries, and the second registry entry has its page in the same field.
Products4 == [d \in Listings |-> IF d = r1 THEN "p1" ELSE IF d = r2 THEN "p3" ELSE "p2"]
Fields4 == [p \in {"p1", "p2", "p3"} |-> IF p = "p1" THEN "repo" ELSE "page"]
Names4 == [d \in Listings |-> IF d = d2 THEN "n2" ELSE "n1"]
TwoImports == {j1, j2}
ImportSymmetry == Permutations(TwoImports)
====
