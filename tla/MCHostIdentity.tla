--------------------------- MODULE MCHostIdentity ---------------------------
(* Instances of HostIdentity for TLC.                                      *)
EXTENDS HostIdentity

CONSTANTS s1, s2, s3, m1, m2, nokey, foreign

OneMachine == [s \in Starts |-> m1]

(* No record, one without a key, two of them, or one with another's key.   *)
Unkeyed == Record(nokey, m1, "legacy")
AnyLegacy == {<<>>, <<Unkeyed>>, <<Unkeyed, Unkeyed>>, <<Record(foreign, m1, "legacy")>>}
=============================================================================
