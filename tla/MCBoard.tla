------------------------------ MODULE MCBoard ------------------------------
(* The board on small instances.                                           *)
EXTENDS Board

\* Ids are compared for equality only, so which of the unused ones a post takes makes no
\* difference: they are taken in order.
IdsInOrder == posted' = 1..Cardinality(posted')

\* The first job is for either name and the later ones for this server, so a board holds jobs
\* of both or of one.
LaterForSelf == \A j \in OnBoard' : j > 1 => jobs'[j].to = Self

\* Stamps are compared by the third post only, so the clock rests after it.
ClockRests == 3 \in posted => clock' = clock

\* The server hears from itself before its second job, or not at all.
HeardEarly == presence # presence' /\ presence = None => Cardinality(posted) <= 1

SmallRun == IdsInOrder /\ LaterForSelf /\ ClockRests /\ HeardEarly
=============================================================================
