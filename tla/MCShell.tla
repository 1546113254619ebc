------------------------------ MODULE MCShell -------------------------------
EXTENDS Shell

\* `log` prints more than the budget of four bytes, in lines of several lengths or
\* with one line above the budget; `rm` is asked about and prints a byte.
MCPrints ==
  [s \in Sources |->
    IF s = "log" THEN {<<"c", "n", "c", "c", "n", "c", "n">>, <<"n", "c", "c", "c", "c", "c", "n">>,
                       <<"c">>}
                 ELSE {<<"c">>}]

\* What the commands after the first print, and which end is kept of it, is not told apart.
LaterAreShort == (runs' > 1 /\ runs' > runs) => (Len(out') = 1 /\ ~call'.tail)

\* A generation is only compared with others, and Windows differs only inside a run.
Fewer == (starts = 1 => generation = 1) /\ (platform = "windows" => runs + starts <= 2)

MCRisk == [s \in Sources |-> IF s = "log" THEN "run" ELSE "asked"]
=============================================================================
