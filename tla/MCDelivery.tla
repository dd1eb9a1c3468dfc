----------------------------- MODULE MCDelivery -----------------------------
(* Instances of Delivery for TLC.                                          *)
EXTENDS Delivery

CONSTANTS os, rack, hostlink

Slugs == DimSlugs \cup MetricSlugs

(* Samples of each slug: one; two of the dimension no list backs; three of *)
(* the second metric.                                                      *)
OneEach == [s \in Slugs |-> 1]
TwoOfLast == [s \in Slugs |-> IF s = rack THEN 2 ELSE 1]
MostOfTwo == [s \in Slugs |-> IF s = 2 THEN 3 ELSE 1]
=============================================================================
