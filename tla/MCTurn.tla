------------------------------- MODULE MCTurn -------------------------------
(* The tool loop on small instances.                                          *)
EXTENDS Turn

\* The first turn runs to whatever end; the second to the end of its second request, which
\* is where what the first one left has been sent and answered.
SecondIsShort == turns = 2 => rounds <= 1
=============================================================================
