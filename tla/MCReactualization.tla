---- MODULE MCReactualization ----
EXTENDS Reactualization
CONSTANTS a1, a2, s1, s2, s3
TwoCards == {a1, a2}
ThreeRows == {s1, s2, s3}
CardOf == [s \in ThreeRows |-> IF s = s3 THEN a2 ELSE a1]
\* The first card went through the enrichment of a draft, which left it the URL-less row.
Kinds == [s \in ThreeRows |-> IF s = s2 THEN "bare" ELSE "feed"]
\* The second card is as the import made it; an editor took the mark off the first one's row.
ImportedRow == {s3}
====
