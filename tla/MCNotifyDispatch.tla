--------------------------- MODULE MCNotifyDispatch ---------------------------
(* Three keys: of one holder each, or two plots of ann and one of bob.      *)
EXTENDS NotifyDispatch

CONSTANTS p1, p2, q1, ann, bob

OneEach == [k \in Keys |-> k]
TwoHolders == [k \in Keys |-> IF k = q1 THEN bob ELSE ann]
=============================================================================
