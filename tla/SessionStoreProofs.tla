------------------------- MODULE SessionStoreProofs -------------------------
(***************************************************************************)
(* For every set of agents, every budget and every length of a run: the     *)
(* agent that is active is the one the session names, and the file is       *)
(* current whenever nobody is at work.                                      *)
(***************************************************************************)
EXTENDS SessionStore, TLAPS

Names == Agents \cup Gateways

\* A session's shape; the view shows no more than the nodes there are.
IsSession(s) ==
  /\ s \in [nodes : {s.nodes}, leaf : Nat, overrides : {s.overrides}, agent : {s.agent}]
  /\ \A i \in 1 .. s.leaf : i \in DOMAIN s.nodes

\* Where a thread may be; one that saves owes a save.
AtOK ==
  /\ at \in [Threads -> [pc : {"idle", "asking", "calling", "rebuilt", "open", "write"},
                         owed : 0 .. 2, agent : Names \cup {None}]]
  /\ \A t \in Threads : /\ at[t].pc \in {"open", "write"} => at[t].owed \in 1 .. 2
                        /\ at[t].pc = "rebuilt" => at[t].agent \in Names

\* A thread that works on the session has one.
SessionOK ==
  /\ IsSession(session)
  /\ HasSession => session.agent \in Names
  /\ \A t \in Threads : at[t].pc \in {"asking", "calling", "open", "write"} => HasSession
  /\ at["worker"].pc = "rebuilt" => HasSession
  /\ active \in Names
  /\ disk.kind = "whole" => IsSession(disk.body)

\* A switch under way alone has made its agent the active one.
SwitchOK ==
  (up = "on" /\ "race" \notin excuse) =>
    \A t \in Threads : at[t].pc = "rebuilt" =>
      /\ at[t].agent = active
      /\ at[Other(t)].pc # "rebuilt"

\* What the file says of the session while nobody has changed it since the last save.
Current ==
  \/ /\ disk.kind = "whole"
     /\ Chain(disk.body) = Chain(session)
     /\ disk.body.overrides = session.overrides
     /\ disk.body.agent \in Agents /\ ~chosen => disk.body.agent = session.agent
  \/ disk.kind = "none" /\ session.nodes = <<>> /\ session.overrides = NoOverrides

\* A switch that has not reached the session yet has changed nothing the file holds.
FileOK ==
  /\ up = "on" /\ ~HasSession => disk.kind = "none"
  /\ (/\ up = "on" /\ HasSession /\ ~doubtful
      /\ \A t \in Threads : at[t].pc \in {"idle", "rebuilt"}) => Current

AgentInv == AtOK /\ SessionOK /\ SwitchOK /\ NamesActive

\* No session, no override; only then is the agent's own number what a rebuild applies.
BudgetOK ==
  /\ up = "on" /\ ~HasSession => session.overrides = NoOverrides
  /\ BudgetInForce

-----------------------------------------------------------------------------
\* An append keeps the shape, and touches neither the settings nor the agent.
LEMMA AppendShape ==
  ASSUME NEW s, IsSession(s), NEW n
  PROVE  /\ IsSession(AppendAfterLeaf(s, n))
         /\ AppendAfterLeaf(s, n).agent = s.agent
         /\ AppendAfterLeaf(s, n).overrides = s.overrides
<1> DEFINE nodes == [i \in 1 .. s.leaf + 1 |-> IF i <= s.leaf THEN s.nodes[i] ELSE n]
           r == [nodes |-> nodes, leaf |-> s.leaf + 1, overrides |-> s.overrides,
                 agent |-> s.agent]
<1>1. DOMAIN nodes = 1 .. s.leaf + 1 /\ s.leaf + 1 \in Nat
  BY DEF IsSession
<1> HIDE DEF nodes
<1>2. IsSession(r) /\ r.agent = s.agent /\ r.overrides = s.overrides
  BY <1>1 DEF IsSession
<1>3. QED
  BY <1>2 DEF AppendAfterLeaf, nodes

\* So does the receipt of a call.
LEMMA AnsweredShape ==
  ASSUME NEW s, IsSession(s)
  PROVE  /\ IsSession(Answered(s)) /\ Answered(s).agent = s.agent
         /\ Answered(s).overrides = s.overrides
<1> DEFINE r == [s EXCEPT !.nodes[s.leaf].pending = FALSE]
<1>1. IsSession(r) /\ r.agent = s.agent /\ r.overrides = s.overrides
  <2> DEFINE e == [s.nodes EXCEPT ![s.leaf].pending = FALSE]
  <2>1. DOMAIN e = DOMAIN s.nodes
    OBVIOUS
  <2> HIDE DEF e
  <2>2. /\ IsSession([s EXCEPT !.nodes = e]) /\ [s EXCEPT !.nodes = e].agent = s.agent
        /\ [s EXCEPT !.nodes = e].overrides = s.overrides
    BY <2>1 DEF IsSession
  <2>3. QED
    BY <2>2 DEF e
<1> HIDE DEF r
<1>2. QED
  BY <1>1, AppendShape DEF Answered, r

\* Filing a cost keeps the shape.
LEMMA UsageShape ==
  ASSUME NEW s, IsSession(s), NEW turn
  PROVE  /\ IsSession(RecordTurnUsage(s, turn)) /\ RecordTurnUsage(s, turn).agent = s.agent
         /\ RecordTurnUsage(s, turn).overrides = s.overrides
<1>1. ASSUME NEW last
      PROVE  LET r == [s EXCEPT !.nodes[last].usage = turn]
             IN  IsSession(r) /\ r.agent = s.agent /\ r.overrides = s.overrides
  BY DEF IsSession
<1>2. QED
  BY <1>1 DEF RecordTurnUsage

\* However a turn leaves the conversation, its agent and its settings are the same.
LEMMA LeavesShape ==
  ASSUME IsSession(session), NEW s \in TurnLeaves
  PROVE  IsSession(s) /\ s.agent = session.agent /\ s.overrides = session.overrides
<1> DEFINE n == Node("assistant", FALSE, FALSE)
<1> HIDE DEF n
<1>1. s \in {session, Answered(session), AppendAfterLeaf(session, n)}
  BY DEF TurnLeaves, n
<1>2. CASE s = session
  BY <1>2
<1>3. CASE s = Answered(session)
  BY <1>3, AnsweredShape
<1>4. CASE s = AppendAfterLeaf(session, n)
  BY <1>4, AppendShape
<1>5. QED
  BY <1>1, <1>2, <1>3, <1>4

\* The session a handler works on has the shape and an agent.
LEMMA DefaultShape ==
  ASSUME SessionOK, AgentsAssumption
  PROVE  /\ IsSession(DefaultSession)
         /\ DefaultSession.agent \in Names
         /\ DefaultSession.agent # None
         /\ HasSession => DefaultSession = session
         /\ ~HasSession => /\ DefaultSession.agent = active
                           /\ DefaultSession.nodes = <<>>
                           /\ DefaultSession.overrides = NoOverrides
BY DEF SessionOK, IsSession, DefaultSession, NoSession, HasSession, AgentsAssumption, Names

\* What is written to the file shows the same chain.
LEMMA SerializeShape ==
  ASSUME NEW s, IsSession(s)
  PROVE  /\ IsSession(Serialize(s))
         /\ Chain(Serialize(s)) = Chain(s)
         /\ Serialize(s).overrides = s.overrides
         /\ Serialize(s).agent = s.agent
BY DEF IsSession, Serialize, KeepOnly, Chain

-----------------------------------------------------------------------------
LEMMA InitAgent == Init => AgentInv /\ FileOK /\ BudgetOK
BY AgentsAssumption DEF AgentsAssumption, Init, AgentInv, AtOK, SessionOK, SwitchOK, NamesActive,
   FileOK, BudgetOK, BudgetInForce, Idle, Threads, NoSession, IsSession, HasSession, File, Names

-----------------------------------------------------------------------------
\* A thread that moves leaves the other where it is.
LEMMA Moves ==
  ASSUME AtOK, NEW t \in Threads, NEW n \in 0 .. 2, NEW a \in Names \cup {None},
         NEW p \in {"idle", "asking", "calling", "rebuilt", "open", "write"},
         p \in {"open", "write"} => n \in 1 .. 2, p = "rebuilt" => a \in Names,
         Goto(t, p, n, a)
  PROVE  /\ AtOK'
         /\ at'[t].pc = p /\ at'[t].agent = a /\ at'[t].owed = n
         /\ at'[Other(t)] = at[Other(t)]
         /\ \A u \in Threads : u = t \/ u = Other(t)
         /\ Other(t) # t /\ Other(Other(t)) = t
BY DEF AtOK, Goto, Threads, Other

\* A thread that owes n saves is at the file, or done when there are none.
LEMMA Owes ==
  ASSUME AtOK, NEW t \in Threads, NEW n \in 0 .. 2, Owe(t, n)
  PROVE  /\ AtOK'
         /\ at'[t].pc = IF n = 0 THEN "idle" ELSE "open"
         /\ at'[Other(t)] = at[Other(t)]
         /\ \A u \in Threads : u = t \/ u = Other(t)
         /\ Other(t) # t /\ Other(Other(t)) = t
BY Moves DEF Owe

\* Every step keeps the invariant of the two arguments about the agent.
LEMMA NextAgent == AgentInv /\ [Next]_vars => AgentInv'
<1> SUFFICES ASSUME AgentInv, [Next]_vars PROVE AgentInv'
  OBVIOUS
<1> USE AgentsAssumption
<1>0. AtOK /\ SessionOK /\ SwitchOK /\ NamesActive
  BY DEF AgentInv
<1>d. /\ IsSession(DefaultSession) /\ DefaultSession.agent \in Names
      /\ DefaultSession.agent # None
      /\ HasSession => DefaultSession = session
      /\ ~HasSession => DefaultSession.agent = active
  BY <1>0, DefaultShape
<1>w. "worker" \in Threads /\ "route" \in Threads
  BY DEF Threads
<1>1. ASSUME NEW peer \in BOOLEAN, StartTurn(peer) PROVE AgentInv'
  <2>1. Goto("worker", "asking", 0, None)
    BY <1>1 DEF StartTurn
  <2>2. /\ IsSession(session') /\ session'.agent = DefaultSession.agent
    BY <1>1, <1>d, AppendShape DEF StartTurn
  <2>3. AtOK' /\ at'["worker"].pc = "asking" /\ at'["route"] = at["route"]
    BY <1>0, <1>w, <2>1, Moves DEF Other
  <2>4. QED
    BY <1>0, <1>1, <1>d, <1>w, <2>2, <2>3
       DEF AgentInv, SessionOK, SwitchOK, NamesActive, StartTurn, HasSession, files, agents,
           On, Other, Threads
<1>2. ASSUME ModelCalls PROVE AgentInv'
  <2>1. Goto("worker", "calling", 0, None)
    BY <1>2 DEF ModelCalls
  <2>2. IsSession(session') /\ session'.agent = session.agent
    BY <1>0, <1>2, AppendShape DEF ModelCalls, SessionOK
  <2>3. AtOK' /\ at'["worker"].pc = "calling" /\ at'["route"] = at["route"]
    BY <1>0, <1>w, <2>1, Moves DEF Other
  <2>4. QED
    BY <1>0, <1>2, <1>w, <2>2, <2>3
       DEF AgentInv, SessionOK, SwitchOK, NamesActive, ModelCalls, HasSession, files, agents,
           On, Other, Threads
<1>3. ASSUME CallReturns PROVE AgentInv'
  <2>1. Goto("worker", "asking", 0, None)
    BY <1>3 DEF CallReturns
  <2>2. IsSession(session') /\ session'.agent = session.agent
    BY <1>0, <1>3, AnsweredShape DEF CallReturns, SessionOK
  <2>3. AtOK' /\ at'["worker"].pc = "asking" /\ at'["route"] = at["route"]
    BY <1>0, <1>w, <2>1, Moves DEF Other
  <2>4. QED
    BY <1>0, <1>3, <1>w, <2>2, <2>3
       DEF AgentInv, SessionOK, SwitchOK, NamesActive, CallReturns, HasSession, files, agents,
           On, Other, Threads
<1>4. ASSUME NEW reported \in BOOLEAN, FinishTurn(reported) PROVE AgentInv'
  <2>1. Owe("worker", 1)
    BY <1>4 DEF FinishTurn
  <2>2. IsSession(session') /\ session'.agent = session.agent
    <3>1. \A s \in TurnLeaves : IsSession(s) /\ s.agent = session.agent
      BY <1>0, LeavesShape DEF SessionOK
    <3>2. QED
      BY <1>4, <3>1, UsageShape DEF FinishTurn
  <2>3. QED
    BY <1>0, <1>4, <1>w, <2>1, <2>2, Owes
       DEF AgentInv, SessionOK, SwitchOK, NamesActive, FinishTurn, HasSession, files, agents,
           Other, Threads
<1>5. ASSUME NEW t \in Threads, NEW turn \in 1 .. MaxNodes, Rewind(t, turn) PROVE AgentInv'
  <2>1. Owe(t, 1)
    BY <1>5 DEF Rewind
  <2>2. IsSession(session') /\ session'.agent = DefaultSession.agent
    <3> DEFINE s == DefaultSession
    <3>1. session' = [s EXCEPT !.leaf = turn - 1] /\ turn \in 1 .. s.leaf
      BY <1>5 DEF Rewind, Rewound, MayRewind
    <3>2. turn - 1 \in Nat /\ \A i \in 1 .. turn - 1 : i \in 1 .. s.leaf
      BY <3>1, <1>d DEF IsSession
    <3> HIDE DEF s
    <3>3. IsSession(s)
      BY <1>d DEF s
    <3>4. QED
      BY <3>1, <3>2, <3>3 DEF IsSession, s
  <2>3. QED
    BY <1>0, <1>5, <1>d, <2>1, <2>2, Owes
       DEF AgentInv, SessionOK, SwitchOK, NamesActive, Rewind, Changing, HasSession, files,
           agents, On, Other, Threads
<1>6. ASSUME Clear PROVE AgentInv'
  <2>1. Owe("worker", 1)
    BY <1>6 DEF Clear
  <2>2. IsSession(session') /\ session'.agent = DefaultSession.agent
    BY <1>6, <1>d DEF Clear, Cleared, IsSession
  <2>3. QED
    BY <1>0, <1>6, <1>d, <1>w, <2>1, <2>2, Owes
       DEF AgentInv, SessionOK, SwitchOK, NamesActive, Clear, Changing, HasSession, files,
           agents, On, Other, Threads
<1>7. ASSUME Show PROVE AgentInv'
  <2>1. Owe("worker", 1)
    BY <1>7 DEF Show
  <2>2. QED
    BY <1>0, <1>7, <1>d, <1>w, <2>1, Owes
       DEF AgentInv, SessionOK, SwitchOK, NamesActive, Show, Changing, HasSession, files,
           agents, On, Other, Threads
<1>8. ASSUME Read PROVE AgentInv'
  BY <1>0, <1>8, <1>d
     DEF AgentInv, AtOK, SessionOK, SwitchOK, NamesActive, Read, Changing, HasSession, files,
         agents, On, Other, Threads
<1>9. ASSUME NEW t \in Threads, NEW o, Override(t, o) PROVE AgentInv'
  <2>1. Saves(t, 1) \in 1 .. 2 /\ Owe(t, Saves(t, 1))
    BY <1>9 DEF Override, Saves
  <2>2. IsSession(session') /\ session'.agent = DefaultSession.agent
    BY <1>9, <1>d DEF Override, IsSession
  <2>3. QED
    BY <1>0, <1>9, <1>d, <2>1, <2>2, Owes
       DEF AgentInv, SessionOK, SwitchOK, NamesActive, Override, Changing, HasSession, files,
           agents, On, Other, Threads
<1>10. ASSUME NEW t \in Threads, NEW agent \in Agents \cup Gateways, Switch(t, agent)
       PROVE  AgentInv'
  <2>1. Goto(t, "rebuilt", 0, agent) /\ active' = agent
    BY <1>10 DEF Switch, RebuildToolbox
  <2>2. IsSession(session') /\ session'.agent \in {DefaultSession.agent, session.agent}
    BY <1>0, <1>10, <1>d DEF Switch, SessionOK
  <2>3. /\ AtOK' /\ at'[t].pc = "rebuilt" /\ at'[t].agent = agent
        /\ at'[Other(t)] = at[Other(t)]
        /\ \A u \in Threads : u = t \/ u = Other(t)
        /\ Other(t) # t /\ Other(Other(t)) = t
    BY <1>0, <2>1, Moves DEF Names
  <2>4. SwitchOK'
    BY <1>10, <2>1, <2>3 DEF SwitchOK, Switch, Names
  <2>5. SessionOK'
    BY <1>0, <1>10, <1>d, <2>1, <2>2, <2>3
       DEF SessionOK, Switch, HasSession, files, Threads, Other, Names
  <2>6. NamesActive'
    BY <2>3 DEF NamesActive
  <2>7. QED
    BY <2>3, <2>4, <2>5, <2>6 DEF AgentInv
<1>11. ASSUME NEW t \in Threads, SyncSession(t) PROVE AgentInv'
  <2> DEFINE n == IF HasSession /\ ~HasPendingToolCalls(session)
                  THEN Saves(t, 1) ELSE Saves(t, 0)
  <2>1. n \in 0 .. 2 /\ Owe(t, n) /\ at[t].pc = "rebuilt" /\ up = "on"
    BY <1>11 DEF SyncSession, Saves, On
  <2>2. n # 0 => HasSession
    BY <1>0, <1>11, <2>1, <1>w DEF Saves, SessionOK, Threads
  <2> HIDE DEF n
  <2>3. /\ AtOK' /\ at'[t].pc \in {"idle", "open"}
        /\ at'[t].pc = "open" => n # 0
        /\ at'[Other(t)] = at[Other(t)]
        /\ \A u \in Threads : u = t \/ u = Other(t)
        /\ Other(t) # t /\ Other(Other(t)) = t
    BY <1>0, <1>11, <2>1, Owes
  <2>a. /\ up' = up /\ active' = active
        /\ "race" \notin excuse' => "race" \notin excuse
    BY <1>11 DEF SyncSession
  <2>4. SwitchOK'
    BY <1>0, <1>11, <2>3, <2>a DEF SwitchOK, Threads, Other
  <2>5. CASE ~HasSession
    BY <1>0, <1>11, <2>2, <2>3, <2>4, <2>5
       DEF AgentInv, SessionOK, NamesActive, SyncSession, HasSession, files, Threads, Other
  <2>6. CASE HasSession /\ HasPendingToolCalls(session)
    BY <1>0, <1>11, <2>2, <2>3, <2>4, <2>6
       DEF AgentInv, SessionOK, NamesActive, SyncSession, HasSession, files, Threads, Other
  <2>7. CASE HasSession /\ ~HasPendingToolCalls(session)
    <3>1. session' = [session EXCEPT !.agent = at[t].agent]
      BY <1>11, <2>7 DEF SyncSession
    <3>2. IsSession(session') /\ session'.agent = at[t].agent
      BY <1>0, <3>1 DEF SessionOK, IsSession
    <3>3. at[t].agent \in Names
      BY <1>0, <1>11, <2>1 DEF AtOK
    <3>4. excuse' \cap {"race", "refused"} = {} => at[t].agent = active
      BY <1>0, <1>11, <2>1, <2>a DEF SwitchOK
    <3>5. NamesActive'
      BY <3>2, <3>4, <2>a DEF NamesActive
    <3>6. disk' = disk
      BY <1>11 DEF SyncSession, files
    <3>7. session'.agent # None
      BY <3>2, <3>3 DEF Names
    <3>8. SessionOK'
      BY <1>0, <3>2, <3>3, <3>6, <3>7, <2>a DEF SessionOK, HasSession
    <3>9. QED
      BY <2>3, <2>4, <3>5, <3>8 DEF AgentInv
  <2>8. QED
    BY <2>5, <2>6, <2>7
<1>12. ASSUME NEW t \in Threads, OpenFile(t) PROVE AgentInv'
  <2>1. Goto(t, "write", at[t].owed, None) /\ at[t].owed \in 1 .. 2 /\ at[t].pc = "open"
    BY <1>0, <1>12 DEF OpenFile, AtOK
  <2>2. /\ AtOK' /\ at'[t].pc = "write" /\ at'[Other(t)] = at[Other(t)]
    BY <1>0, <1>12, <2>1, Moves
  <2>3. QED
    BY <1>0, <1>12, <2>1, <2>2
       DEF AgentInv, SessionOK, SwitchOK, NamesActive, OpenFile, HasSession, agents, File,
           Other, Threads
<1>13. ASSUME NEW t \in Threads, WriteFile(t) PROVE AgentInv'
  <2>1. Owe(t, at[t].owed - 1) /\ at[t].owed - 1 \in 0 .. 2 /\ at[t].pc = "write"
    BY <1>0, <1>13 DEF WriteFile, AtOK
  <2>2. disk'.kind = "whole" => IsSession(disk'.body)
    BY <1>0, <1>13, SerializeShape DEF WriteFile, Written, File, SessionOK
  <2>3. /\ AtOK' /\ at'[t].pc \in {"idle", "open"} /\ at'[Other(t)] = at[Other(t)]
    BY <1>0, <1>13, <2>1, Owes
  <2>4. QED
    BY <1>0, <1>13, <2>1, <2>2, <2>3
       DEF AgentInv, SessionOK, SwitchOK, NamesActive, WriteFile, HasSession, agents,
           Other, Threads
<1>20. ASSUME NEW t \in Threads, OpenFails(t) PROVE AgentInv'
  <2>1. Owe(t, at[t].owed - 1) /\ at[t].owed - 1 \in 0 .. 2 /\ at[t].pc = "open"
    BY <1>0, <1>20 DEF OpenFails, AtOK
  <2>2. /\ AtOK' /\ at'[t].pc \in {"idle", "open"} /\ at'[Other(t)] = at[Other(t)]
    BY <1>0, <1>20, <2>1, Owes
  <2>3. QED
    BY <1>0, <1>20, <2>1, <2>2
       DEF AgentInv, SessionOK, SwitchOK, NamesActive, OpenFails, HasSession, agents,
           Other, Threads
<1>14. ASSUME Shutdown PROVE AgentInv'
  <2>1. CASE HasSession
    <3>1. Owe("worker", 1)
      BY <1>14, <2>1 DEF Shutdown
    <3>2. QED
      BY <1>0, <1>14, <1>w, <2>1, <3>1, Owes
         DEF AgentInv, SessionOK, SwitchOK, NamesActive, Shutdown, HasSession, files, agents,
             Other, Threads
  <2>2. CASE ~HasSession
    BY <1>0, <1>14, <2>2
       DEF AgentInv, AtOK, SessionOK, SwitchOK, NamesActive, Shutdown, HasSession, files, agents
  <2>3. QED
    BY <2>1, <2>2
<1>15. ASSUME Crash PROVE AgentInv'
  BY <1>0, <1>15
     DEF AgentInv, AtOK, SessionOK, SwitchOK, NamesActive, Crash, HasSession, files, agents,
         Idle, NoSession, IsSession, Threads
<1>16. ASSUME NEW named \in Agents \cup {None}, Initialize(named) PROVE AgentInv'
  <2> DEFINE resumed == Resumed(named, disk.body.agent)
             default == IF named = None THEN DefaultAgent ELSE named
  <2>1. AtOK' /\ \A t \in Threads : at'[t].pc = "idle"
    BY <1>16 DEF Initialize, Loads, SetAside, AtOK, Idle
  <2>2. resumed \in Agents /\ default \in Agents
    BY DEF Resumed
  <2>3. CASE disk.kind = "whole"
    <3>1. session' = [disk.body EXCEPT !.agent = resumed] /\ active' = resumed /\ disk' = disk
      BY <1>16, <2>3 DEF Initialize, Loads, SetAside, ToolsFor
    <3>2. IsSession(session') /\ session'.agent = resumed
      BY <1>0, <2>3, <3>1 DEF SessionOK, IsSession
    <3> HIDE DEF resumed
    <3>3. QED
      BY <1>0, <2>1, <2>2, <3>1, <3>2, <1>w
         DEF AgentInv, SessionOK, SwitchOK, NamesActive, HasSession, Names
  <2>4. CASE disk.kind # "whole"
    <3>1. session' = NoSession /\ active' = default /\ disk' = File("none", None)
      BY <1>16, <2>4 DEF Initialize, Loads, SetAside
    <3> HIDE DEF default
    <3>2. QED
      BY <2>1, <2>2, <3>1, <1>w
         DEF AgentInv, SessionOK, SwitchOK, NamesActive, HasSession, NoSession, IsSession, File,
             Names
  <2>5. QED
    BY <2>3, <2>4
<1>17. ASSUME UNCHANGED vars PROVE AgentInv'
  BY <1>0, <1>17
     DEF AgentInv, AtOK, SessionOK, SwitchOK, NamesActive, HasSession, vars, files, agents
<1>18. ASSUME \/ \E t \in Threads, value \in Levels \cup {None} : SetThinking(t, value)
              \/ \E value \in ToolBudgets \cup {None} : SetToolBudget(value)
              \/ ClearSettings
       PROVE  AgentInv'
  BY <1>9, <1>18, <1>w DEF SetThinking, SetToolBudget, ClearSettings
<1>19. QED
  BY <1>18, <1>1, <1>2, <1>3, <1>4, <1>5, <1>6, <1>7, <1>8, <1>9, <1>10, <1>11, <1>12, <1>13, <1>14,
     <1>15, <1>16, <1>17, <1>20
     DEF Next, Threads, HandleRewind, HandleApiRewind, HandleBackend, HandleApiAgentSwitch

-----------------------------------------------------------------------------
\* A step that leaves the agents, the budget and the overrides alone.
LEMMA BudgetKept ==
  ASSUME BudgetOK, agents' = agents, up = "on", session'.overrides = session.overrides,
         ~HasSession' => ~HasSession
  PROVE  BudgetOK'
BY DEF BudgetOK, BudgetInForce, agents, ConfiguredToolBudget, InForce

\* Every step keeps the budget the one the settings name, or says why not.
LEMMA NextBudget == AgentInv /\ BudgetOK /\ [Next]_vars => BudgetOK'
<1> SUFFICES ASSUME AgentInv, BudgetOK, [Next]_vars PROVE BudgetOK'
  OBVIOUS
<1> USE AgentsAssumption
<1>0. AtOK /\ SessionOK
  BY DEF AgentInv
<1>d. /\ IsSession(DefaultSession) /\ DefaultSession.agent # None
      /\ HasSession => DefaultSession = session
      /\ ~HasSession => DefaultSession.overrides = NoOverrides
  BY <1>0, DefaultShape
<1>s. up = "on" => DefaultSession.overrides = session.overrides
  BY <1>d DEF BudgetOK
<1>1. ASSUME NEW peer \in BOOLEAN, StartTurn(peer) PROVE BudgetOK'
  <2>1. /\ session'.overrides = DefaultSession.overrides
        /\ session'.agent = DefaultSession.agent
    BY <1>1, <1>d, AppendShape DEF StartTurn
  <2>2. QED
    BY <1>1, <1>d, <1>s, <2>1, BudgetKept DEF StartTurn, On, HasSession
<1>2. ASSUME ModelCalls \/ CallReturns PROVE BudgetOK'
  <2>1. session'.overrides = session.overrides /\ session'.agent = session.agent
    BY <1>0, <1>2, AppendShape, AnsweredShape DEF ModelCalls, CallReturns, SessionOK
  <2>2. QED
    BY <1>2, <2>1, BudgetKept DEF ModelCalls, CallReturns, On, HasSession
<1>3. ASSUME NEW reported \in BOOLEAN, FinishTurn(reported) PROVE BudgetOK'
  <2>1. \A s \in TurnLeaves :
           IsSession(s) /\ s.agent = session.agent /\ s.overrides = session.overrides
    BY <1>0, LeavesShape DEF SessionOK
  <2>2. session'.overrides = session.overrides /\ session'.agent = session.agent
    BY <1>3, <2>1, UsageShape DEF FinishTurn
  <2>3. QED
    BY <1>3, <2>2, BudgetKept DEF FinishTurn, HasSession
<1>4. ASSUME NEW t \in Threads, NEW turn \in 1 .. MaxNodes, Rewind(t, turn) PROVE BudgetOK'
  <2>1. /\ session'.overrides = DefaultSession.overrides
        /\ session'.agent = DefaultSession.agent
    BY <1>4, <1>d DEF Rewind, Rewound, IsSession
  <2>2. QED
    BY <1>4, <1>d, <1>s, <2>1, BudgetKept DEF Rewind, Changing, On, HasSession
<1>5. ASSUME Clear \/ Show \/ Read PROVE BudgetOK'
  <2>1. /\ session'.overrides = DefaultSession.overrides
        /\ session'.agent = DefaultSession.agent
    BY <1>5 DEF Clear, Cleared, Show, Read
  <2>2. QED
    BY <1>5, <1>d, <1>s, <2>1, BudgetKept DEF Clear, Show, Read, Changing, On, HasSession
<1>6. ASSUME NEW t \in Threads, NEW o, Override(t, o) PROVE BudgetOK'
  <2>1. session'.overrides = o /\ session'.agent = DefaultSession.agent
    BY <1>6, <1>d DEF Override, IsSession
  <2>2. QED
    BY <1>6, <1>d, <2>1
       DEF BudgetOK, BudgetInForce, Override, HasSession, ConfiguredToolBudget, InForce
<1>7. ASSUME NEW t \in Threads, NEW agent \in Agents \cup Gateways, Switch(t, agent)
      PROVE  BudgetOK'
  <2>1. session'.overrides = session.overrides /\ (~HasSession' => ~HasSession)
    BY <1>7, <1>d, <1>s DEF Switch, Changing, On, HasSession
  <2>2. CASE agent \in Known
    <3>1. CASE session.overrides.tool_budget = None
      BY <1>7, <2>1, <2>2, <3>1
         DEF BudgetOK, BudgetInForce, Switch, Changing, On, KeepsOldBudget
    <3>2. CASE session.overrides.tool_budget # None
      BY <1>7, <2>1, <3>2
         DEF BudgetOK, BudgetInForce, Switch, Changing, On, RebuildToolbox, InForce
    <3>3. QED
      BY <3>1, <3>2
  <2>3. CASE agent \notin Known
    <3>1. active' = agent /\ agent \notin Agents /\ transient' = Adopted(agent)
      BY <1>7, <2>3 DEF Switch, RebuildToolbox, Known
    <3>2. transient'[agent] = ConfiguredToolBudget
      BY <2>3, <3>1 DEF Adopted
    <3>3. ConfiguredToolBudget' = ConfiguredToolBudget
      BY <3>1, <3>2 DEF ConfiguredToolBudget
    <3>4. budget' = InForce(ConfiguredToolBudget, session.overrides) /\ up = "on"
      BY <1>7 DEF Switch, RebuildToolbox, Changing, On
    <3>5. QED
      BY <2>1, <3>3, <3>4 DEF BudgetOK, BudgetInForce, InForce
  <2>4. QED
    BY <2>2, <2>3
<1>8. ASSUME NEW t \in Threads, SyncSession(t) PROVE BudgetOK'
  <2>1. session'.overrides = session.overrides /\ (~HasSession' => ~HasSession)
    <3>1. CASE session' = session
      BY <3>1 DEF HasSession
    <3>2. CASE session' = [session EXCEPT !.agent = at[t].agent]
      <4>1. at[t].agent \in Names
        BY <1>0, <1>8 DEF AtOK, SyncSession, On
      <4>2. session'.overrides = session.overrides /\ session'.agent = at[t].agent
        BY <1>0, <3>2 DEF SessionOK, IsSession
      <4>3. QED
        BY <4>1, <4>2 DEF HasSession, Names
    <3>3. QED
      BY <1>8, <3>1, <3>2 DEF SyncSession
  <2>2. /\ up' = up /\ up = "on" /\ budget' = budget /\ active' = active
        /\ transient' = transient /\ ("budget" \notin excuse' => "budget" \notin excuse)
    BY <1>8 DEF SyncSession, On
  <2>3. QED
    BY <2>1, <2>2 DEF BudgetOK, BudgetInForce, ConfiguredToolBudget, InForce
<1>9. ASSUME NEW t \in Threads, OpenFile(t) \/ OpenFails(t) \/ WriteFile(t) PROVE BudgetOK'
  BY <1>9 DEF OpenFile, OpenFails, WriteFile, BudgetOK, BudgetInForce, HasSession, agents,
     ConfiguredToolBudget, InForce
<1>10. ASSUME Shutdown \/ Crash PROVE BudgetOK'
  BY <1>10 DEF Shutdown, Crash, BudgetOK, BudgetInForce
<1>11. ASSUME NEW named \in Agents \cup {None}, Initialize(named) PROVE BudgetOK'
  <2> DEFINE resumed == Resumed(named, disk.body.agent)
             default == IF named = None THEN DefaultAgent ELSE named
  <2>1. resumed \in Agents /\ default \in Agents
    BY DEF Resumed
  <2>2. "budget" \notin excuse' => ~StartBudgetDiffers(default, resumed)
    BY <1>11 DEF Initialize
  <2>3. CASE disk.kind = "whole"
    <3>1. /\ session' = [disk.body EXCEPT !.agent = resumed] /\ active' = resumed
          /\ budget' = IF resumed = default THEN AgentBudget[default]
                       ELSE InForce(AgentBudget[default], disk.body.overrides)
      BY <1>11, <2>3 DEF Initialize, Loads, SetAside, ToolsFor
    <3> HIDE DEF resumed, default
    <3>2. session'.overrides = disk.body.overrides /\ session'.agent = resumed
      BY <1>0, <2>3, <3>1 DEF SessionOK, IsSession
    <3>3. QED
      BY <2>1, <2>2, <2>3, <3>1, <3>2
         DEF BudgetOK, BudgetInForce, StartBudgetDiffers, Loads, InForce, ConfiguredToolBudget,
             HasSession
  <2>4. CASE disk.kind # "whole"
    <3>1. session' = NoSession /\ active' = default /\ budget' = AgentBudget[default]
      BY <1>11, <2>4 DEF Initialize, Loads, SetAside
    <3> HIDE DEF resumed, default
    <3>2. QED
      BY <2>1, <3>1
         DEF BudgetOK, BudgetInForce, NoSession, NoOverrides, InForce, ConfiguredToolBudget
  <2>5. QED
    BY <2>3, <2>4
<1>12. ASSUME UNCHANGED vars PROVE BudgetOK'
  BY <1>12 DEF BudgetOK, BudgetInForce, HasSession, vars, agents, ConfiguredToolBudget, InForce
<1>13. ASSUME \/ \E t \in Threads, value \in Levels \cup {None} : SetThinking(t, value)
              \/ \E value \in ToolBudgets \cup {None} : SetToolBudget(value)
              \/ ClearSettings
       PROVE  BudgetOK'
  BY <1>6, <1>13 DEF SetThinking, SetToolBudget, ClearSettings, Threads
<1>14. QED
  BY <1>1, <1>2, <1>3, <1>4, <1>5, <1>7, <1>8, <1>9, <1>10, <1>11, <1>12, <1>13
     DEF Next, Threads, HandleRewind, HandleApiRewind, HandleBackend, HandleApiAgentSwitch

\* AgentAgrees: a turn runs with the tools of the agent the session names and with its budget
\* or the session's own, for any configuration, through commands, routes, adopted backends,
\* crashes and restarts.
THEOREM AgentHeld == Spec => []AgentAgrees
<1>1. Init => AgentInv /\ BudgetOK
  BY InitAgent
<1>2. AgentInv /\ BudgetOK => AgentAgrees
  BY DEF AgentInv, BudgetOK, AgentAgrees
<1>3. QED
  BY <1>1, <1>2, NextAgent, NextBudget, PTL DEF Spec

-----------------------------------------------------------------------------
\* An append, a receipt or a cost is followed by a save; until then the worker is not done.
LEMMA NextFile == AgentInv /\ AgentInv' /\ FileOK /\ [Next]_vars => FileOK'
<1> SUFFICES ASSUME AgentInv, AgentInv', FileOK, [Next]_vars PROVE FileOK'
  OBVIOUS
<1> USE AgentsAssumption
<1>0. AtOK /\ SessionOK /\ SwitchOK /\ SessionOK'
  BY DEF AgentInv
<1>d. /\ IsSession(DefaultSession) /\ DefaultSession.agent # None
      /\ HasSession => DefaultSession = session
      /\ ~HasSession => DefaultSession.nodes = <<>> /\ DefaultSession.overrides = NoOverrides
  BY <1>0, DefaultShape
<1>w. "worker" \in Threads /\ "route" \in Threads
  BY DEF Threads
\* A thread left at work, and a session: there is nothing to show.
<1>b. ASSUME NEW t \in Threads, HasSession', at'[t].pc \notin {"idle", "rebuilt"}
      PROVE  FileOK'
  BY <1>b DEF FileOK
<1>1. ASSUME NEW peer \in BOOLEAN, StartTurn(peer) PROVE FileOK'
  <2>1. at'["worker"].pc = "asking"
    BY <1>0, <1>1, <1>w, Moves DEF StartTurn
  <2>2. QED
    BY <1>0, <1>b, <1>w, <2>1 DEF SessionOK
<1>2. ASSUME ModelCalls PROVE FileOK'
  <2>1. at'["worker"].pc = "calling"
    BY <1>0, <1>2, <1>w, Moves DEF ModelCalls
  <2>2. QED
    BY <1>0, <1>b, <1>w, <2>1 DEF SessionOK
<1>3. ASSUME CallReturns PROVE FileOK'
  <2>1. at'["worker"].pc = "asking"
    BY <1>0, <1>3, <1>w, Moves DEF CallReturns
  <2>2. QED
    BY <1>0, <1>b, <1>w, <2>1 DEF SessionOK
\* Every change to the session ends with a save owed.
<1>4. ASSUME NEW t \in Threads, NEW n \in 1 .. 2, Owe(t, n) PROVE FileOK'
  <2>1. at'[t].pc = "open"
    BY <1>0, <1>4, Owes
  <2>2. QED
    BY <1>0, <1>4, <1>b, <2>1 DEF SessionOK
<1>5. ASSUME Read PROVE FileOK'
  BY <1>0, <1>5, <1>d DEF FileOK, Current, Read, Changing, HasSession, files, On
<1>6. ASSUME NEW t \in Threads, NEW o, Override(t, o) PROVE FileOK'
  <2>1. Saves(t, 1) \in 1 .. 2
    BY DEF Saves
  <2>2. QED
    BY <1>4, <1>6, <2>1 DEF Override
<1>7. ASSUME NEW t \in Threads, NEW agent \in Agents \cup Gateways, Switch(t, agent)
      PROVE  FileOK'
  <2>1. /\ at[t].pc = "idle" /\ at'[t].pc = "rebuilt" /\ at'[Other(t)] = at[Other(t)]
    BY <1>0, <1>7, Moves DEF Switch, Changing, On, Names
  <2>2. up' = up /\ up = "on" /\ disk' = disk /\ doubtful' = doubtful /\ chosen' = chosen
    BY <1>7 DEF Switch, Changing, On, files
  <2>3. session' = session \/ (~HasSession /\ session' = DefaultSession)
    BY <1>7, <1>d DEF Switch
  <2>4. QED
    BY <1>7, <1>d, <2>1, <2>2, <2>3 DEF FileOK, Current, HasSession, Threads, Other
<1>8. ASSUME NEW t \in Threads, SyncSession(t) PROVE FileOK'
  <2>1. CASE HasSession /\ ~HasPendingToolCalls(session)
    <3>1. Owe(t, Saves(t, 1)) /\ Saves(t, 1) \in 1 .. 2
      BY <1>8, <2>1 DEF SyncSession, Saves
    <3>2. QED
      BY <1>4, <1>8, <3>1
  <2>2. CASE ~(HasSession /\ ~HasPendingToolCalls(session))
    <3>1. Owe(t, Saves(t, 0)) /\ Saves(t, 0) \in 0 .. 2
      BY <1>8, <2>2 DEF SyncSession, Saves
    <3>2. /\ session' = session /\ disk' = disk /\ doubtful' = doubtful /\ chosen' = chosen
          /\ up' = up /\ at[t].pc = "rebuilt"
      BY <1>8, <2>2 DEF SyncSession, files, On
    <3>3. at'[Other(t)] = at[Other(t)] /\ at'[t].pc \in {"idle", "open"}
      BY <1>0, <1>8, <3>1, Owes
    <3>4. QED
      BY <1>8, <3>2, <3>3 DEF FileOK, Current, HasSession, Threads, Other
  <2>3. QED
    BY <2>1, <2>2
<1>9. ASSUME NEW t \in Threads, OpenFile(t) PROVE FileOK'
  <2>1. Goto(t, "write", at[t].owed, None) /\ at[t].owed \in 1 .. 2
    BY <1>0, <1>9 DEF OpenFile, AtOK
  <2>2. at'[t].pc = "write"
    BY <1>0, <1>9, <2>1, Moves
  <2>3. QED
    BY <1>0, <1>9, <1>b, <2>2 DEF SessionOK
<1>10. ASSUME NEW t \in Threads, WriteFile(t) PROVE FileOK'
  <2>1. HasSession /\ session' = session /\ doubtful' = doubtful /\ chosen' = FALSE
    BY <1>0, <1>10 DEF WriteFile, SessionOK
  <2>2. CASE doubtful
    BY <2>1, <2>2 DEF FileOK, HasSession
  <2>3. CASE ~doubtful
    <3>1. disk' = File("whole", Serialize(session))
      BY <1>10, <2>3 DEF WriteFile, Written
    <3>2. disk'.kind = "whole" /\ disk'.body = Serialize(session)
      BY <3>1 DEF File
    <3>3. QED
      BY <1>0, <2>1, <3>2, SerializeShape DEF FileOK, Current, HasSession, SessionOK, Chain
  <2>4. QED
    BY <2>2, <2>3
<1>17. ASSUME NEW t \in Threads, OpenFails(t) PROVE FileOK'
  <2>1. HasSession /\ session' = session
    BY <1>0, <1>17 DEF OpenFails, SessionOK
  <2>2. CASE at[Other(t)].pc = "write"
    <3>1. Owe(t, at[t].owed - 1) /\ at[t].owed - 1 \in 0 .. 2 /\ Other(t) \in Threads
      BY <1>0, <1>17 DEF OpenFails, AtOK, Other, Threads
    <3>2. at'[Other(t)].pc = "write"
      BY <1>0, <1>17, <2>2, <3>1, Owes
    <3>3. QED
      BY <1>b, <2>1, <3>1, <3>2 DEF HasSession
  <2>3. CASE at[Other(t)].pc # "write"
    BY <1>17, <2>1, <2>3 DEF FileOK, OpenFails, HasSession
  <2>4. QED
    BY <2>2, <2>3
<1>11. ASSUME Shutdown \/ Crash PROVE FileOK'
  <2>1. up' # "on"
    BY <1>11 DEF Shutdown, Crash
  <2>2. QED
    BY <2>1 DEF FileOK
<1>12. ASSUME NEW named \in Agents \cup {None}, Initialize(named) PROVE FileOK'
  <2>1. CASE disk.kind = "whole"
    <3> DEFINE resumed == Resumed(named, disk.body.agent)
    <3>1. session' = [disk.body EXCEPT !.agent = resumed] /\ disk' = disk
      BY <1>12, <2>1 DEF Initialize, Loads, SetAside
    <3>2. chosen' = (named # None)
      BY <1>12 DEF Initialize, Loads, SetAside
    <3>3. resumed \in Agents /\ (disk.body.agent \in Agents /\ named = None
                                  => resumed = disk.body.agent)
      BY <1>12 DEF Resumed
    <3> HIDE DEF resumed
    <3>4. /\ session'.agent = resumed /\ session'.overrides = disk.body.overrides
          /\ session'.nodes = disk.body.nodes /\ session'.leaf = disk.body.leaf
      BY <1>0, <2>1, <3>1 DEF SessionOK, IsSession
    <3>5. Chain(disk.body) = Chain(session')
      BY <3>4 DEF Chain
    <3>6. QED
      BY <2>1, <3>1, <3>2, <3>3, <3>4, <3>5 DEF FileOK, Current, HasSession, Chain
  <2>2. CASE disk.kind # "whole"
    <3>1. session' = NoSession /\ disk' = File("none", None)
      BY <1>12, <2>2 DEF Initialize, Loads, SetAside
    <3>2. QED
      BY <3>1 DEF FileOK, HasSession, NoSession, File
  <2>3. QED
    BY <2>1, <2>2
<1>13. ASSUME UNCHANGED vars PROVE FileOK'
  BY <1>13 DEF FileOK, Current, HasSession, vars, files, agents, Chain
<1>14. ASSUME \/ \E reported \in BOOLEAN : FinishTurn(reported)
              \/ \E t \in Threads, turn \in 1 .. MaxNodes : Rewind(t, turn)
              \/ Clear \/ Show
       PROVE  FileOK'
  BY <1>4, <1>14, <1>w DEF FinishTurn, Rewind, Clear, Show
<1>15. ASSUME \/ \E t \in Threads, value \in Levels \cup {None} : SetThinking(t, value)
              \/ \E value \in ToolBudgets \cup {None} : SetToolBudget(value)
              \/ ClearSettings
       PROVE  FileOK'
  BY <1>6, <1>15, <1>w DEF SetThinking, SetToolBudget, ClearSettings
<1>16. QED
  BY <1>1, <1>2, <1>3, <1>5, <1>7, <1>8, <1>9, <1>10, <1>11, <1>12, <1>13, <1>14, <1>15,
     <1>17
     DEF Next, Threads, HandleRewind, HandleApiRewind, HandleBackend, HandleApiAgentSwitch

\* DiskCurrent: when nobody is at work the file holds the session, for any configuration and
\* any length of a run, whatever was interrupted before.
THEOREM FileHeld == Spec => []DiskCurrent
<1>1. Init => AgentInv /\ FileOK
  BY InitAgent
<1>2. FileOK => DiskCurrent
  BY DEF FileOK, DiskCurrent, Current, On, Threads
<1>3. QED
  BY <1>1, <1>2, NextAgent, NextFile, PTL DEF Spec

=============================================================================
