--------------------------- MODULE MCSessionStore ---------------------------
(* Two configured agents with different budgets, and one backend to adopt.    *)
EXTENDS SessionStore

CONSTANTS a, b, g

MCAgentBudget == [x \in {a, b} |-> IF x = a THEN 1 ELSE 2]
=============================================================================
