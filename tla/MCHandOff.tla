----------------------------- MODULE MCHandOff -----------------------------
(* The hand-off on small instances.                                        *)
EXTENDS HandOff

\* Ids are compared for equality only: they are taken in order.
IdsInOrder == posted' = 1..Cardinality(posted')
=============================================================================
