---------------------------- MODULE SessionStore ----------------------------
(***************************************************************************)
(* The conversation a runtime keeps, and the file it keeps it in: Runtime,  *)
(* its AgentManager, the command router, Session with its message graph,    *)
(* settings and usage, and the HTTP routes that change any of them.         *)
(*                                                                         *)
(* Two threads reach this state. The worker runs ProcessInput (a turn or a  *)
(* slash command) without the session's lock; the routes run one at a time  *)
(* under it. Both save by truncating session.json and writing it again, so  *)
(* a save is two steps, and a switch of agent is two: the tools are rebuilt *)
(* before the session is asked whether it agrees. The process can be killed *)
(* between any two steps.                                                   *)
(*                                                                         *)
(* The graph is a path, because an append drops what the new leaf cannot    *)
(* reach: `nodes` is that path and `leaf` how much of it the view shows.    *)
(* A node's usage is the turn whose cost the ledger files under it.         *)
(***************************************************************************)
EXTENDS Naturals

CONSTANTS Agents,        \* the agents agents.json configures
          DefaultAgent,  \* the one it names as default_agent
          Gateways,      \* the backend types /backend adopts an agent under
          AgentBudget,   \* each configured agent's tool_call_budget
          ToolBudgets,   \* values a tool_budget override takes
          None,          \* no agent, no override
          MaxNodes, MaxTurns, MaxStarts,   \* bounds of the instance
          MaxChanges     \* bound: requests of the user and saves that fail

ASSUME AgentsAssumption ==
    /\ DefaultAgent \in Agents
    /\ Agents \cap Gateways = {}
    /\ None \notin Agents \cup Gateways
    /\ AgentBudget \in [Agents -> Nat]
    /\ ToolBudgets \subseteq Nat /\ None \notin Nat

ASSUME BoundsAssumption == MaxNodes \in Nat /\ MaxTurns \in Nat
                           /\ MaxChanges \in Nat /\ MaxStarts \in Nat

VARIABLES
  up,         \* "on", "closing" (Shutdown saves), or "off"
  session,    \* current_session_; one that names no agent is no session yet
  active,     \* AgentManager's active agent, whose tools the toolbox holds
  transient,  \* the adopted agents' tool budgets, by name
  budget,     \* Executor's tool call budget
  at,         \* where each thread is: [pc, owed saves, the agent switched to]
  disk,       \* session.json: [kind, body]
  bak,        \* what session.json.bak holds
  doubtful,   \* the last save found another one writing the file, or could not open it
  excuse,     \* why active and the session may differ ("race", "refused"), and the budget
              \* in force from the one the settings name ("budget")
  chosen,     \* --agent named the agent and nothing was saved since
  turns, changes, starts   \* what the bounds count

files  == <<disk, bak, doubtful>>
agents == <<active, transient, budget, excuse>>
counts == <<turns, changes, starts>>
vars   == <<up, session, at, chosen, files, agents, counts>>

Threads == {"worker", "route"}
Other(t) == IF t = "worker" THEN "route" ELSE "worker"

Idle == [pc |-> "idle", owed |-> 0, agent |-> None]

Goto(t, pc, owed, agent) ==
    at' = [at EXCEPT ![t] = [pc |-> pc, owed |-> owed, agent |-> agent]]

\* A thread with n saves to make; with none it is done.
Owe(t, n) == Goto(t, IF n = 0 THEN "idle" ELSE "open", n, None)

-----------------------------------------------------------------------------
(* The graph. *)

Node(role, peer, pending) ==
    [role |-> role, peer |-> peer, pending |-> pending, usage |-> 0]

Chain(s) == [i \in 1 .. s.leaf |-> s.nodes[i]]

\* AppendAfterLeaf: whatever the new leaf does not reach is dropped.
AppendAfterLeaf(s, n) ==
    [nodes     |-> [i \in 1 .. s.leaf + 1 |-> IF i <= s.leaf THEN s.nodes[i] ELSE n],
     leaf      |-> s.leaf + 1,
     overrides |-> s.overrides,
     agent     |-> s.agent]

HasPendingToolCalls(s) == s.leaf > 0 /\ s.nodes[s.leaf].pending

\* A receipt (a result, or the word that the call was cancelled) answers the leaf's call.
Answered(s) ==
    AppendAfterLeaf([s EXCEPT !.nodes[s.leaf].pending = FALSE], Node("tool", FALSE, FALSE))

MayRewind(s, turn) == /\ turn \in 1 .. s.leaf
                      /\ ~s.nodes[turn].peer
                      /\ ~HasPendingToolCalls(s)

Rewound(s, turn) == [s EXCEPT !.leaf = turn - 1]

Cleared(s) ==
    [nodes |-> <<>>, leaf |-> 0, overrides |-> s.overrides, agent |-> s.agent]

\* RecordTurnUsage: the turn's cost goes to the last answer the chain holds.
Answers(s) == {i \in 1 .. s.leaf : s.nodes[i].role = "assistant"}

RecordTurnUsage(s, turn) ==
    IF Answers(s) = {} THEN s
    ELSE LET last == CHOOSE i \in Answers(s) : \A j \in Answers(s) : j <= i
         IN  [s EXCEPT !.nodes[last].usage = turn]

\* Mutant: the costs are pruned against the chain without its leaf.
SerializeShort(s) ==
    [s EXCEPT !.nodes = [i \in DOMAIN s.nodes |->
        IF i < s.leaf THEN s.nodes[i] ELSE [s.nodes[i] EXCEPT !.usage = 0]]]

\* UsageLedger::KeepOnly: the costs of the nodes the view shows.
KeepOnly(nodes, leaf) ==
    [i \in DOMAIN nodes |-> IF i <= leaf THEN nodes[i] ELSE [nodes[i] EXCEPT !.usage = 0]]

\* The file keeps the rewound nodes, and no cost for them.
Serialize(s) == [s EXCEPT !.nodes = KeepOnly(s.nodes, s.leaf)]

-----------------------------------------------------------------------------
(* Agents and settings. *)

Known == Agents \cup DOMAIN transient

ConfiguredToolBudget ==
    IF active \in Agents THEN AgentBudget[active] ELSE transient[active]

NoOverrides == [thinking |-> None, tool_budget |-> None]

InForce(configured, overrides) ==
    IF overrides.tool_budget = None THEN configured ELSE overrides.tool_budget

NoSession == [nodes |-> <<>>, leaf |-> 0, overrides |-> NoOverrides, agent |-> None]

HasSession == session.agent # None

DefaultSession == IF HasSession THEN session ELSE [NoSession EXCEPT !.agent = active]

\* RebuildToolbox: the budget is applied before the new agent is the active one, so the
\* configured number it falls back on is the agent's that is being left.
RebuildToolbox(agent) ==
    /\ budget' = InForce(ConfiguredToolBudget, session.overrides)
    /\ active' = agent

-----------------------------------------------------------------------------
(* A turn, on the worker. The routes may run between any two of these.      *)

On(t, pc) == up = "on" /\ at[t].pc = pc

StartTurn(peer) ==
    /\ On("worker", "idle")
    /\ turns < MaxTurns /\ DefaultSession.leaf + 2 <= MaxNodes
    /\ turns' = turns + 1
    /\ session' = AppendAfterLeaf(DefaultSession, Node("user", peer, FALSE))
    /\ Goto("worker", "asking", 0, None)
    /\ UNCHANGED <<up, chosen, files, agents, changes, starts>>

ModelCalls ==
    /\ On("worker", "asking")
    /\ session.leaf + 3 <= MaxNodes
    /\ session' = AppendAfterLeaf(session, Node("assistant", FALSE, TRUE))
    /\ Goto("worker", "calling", 0, None)
    /\ UNCHANGED <<up, chosen, files, agents, counts>>

CallReturns ==
    /\ On("worker", "calling")
    /\ session' = Answered(session)
    /\ Goto("worker", "asking", 0, None)
    /\ UNCHANGED <<up, chosen, files, agents, counts>>

\* How a turn leaves the conversation: with a reply, as it stands, or cancelled in a call.
TurnLeaves ==
    IF at["worker"].pc = "calling" THEN {Answered(session)}
    ELSE {session, AppendAfterLeaf(session, Node("assistant", FALSE, FALSE))}

FinishTurn(reported) ==
    /\ up = "on" /\ at["worker"].pc \in {"asking", "calling"}
    /\ \E s \in TurnLeaves :
           session' = IF reported THEN RecordTurnUsage(s, turns) ELSE s
    /\ Owe("worker", 1)
    /\ UNCHANGED <<up, chosen, files, agents, counts>>

-----------------------------------------------------------------------------
(* What the user asks of the session: slash commands on the worker, which   *)
(* save once more whatever they did, and requests on a route.               *)

Changing(t) ==
    /\ On(t, "idle") /\ changes < MaxChanges
    /\ changes' = changes + 1
    /\ UNCHANGED <<up, chosen, turns, starts>>

\* The saves a command still owes beyond its own n.
Saves(t, n) == IF t = "worker" THEN n + 1 ELSE n

Rewind(t, turn) ==
    /\ Changing(t)
    /\ MayRewind(DefaultSession, turn)
    /\ session' = Rewound(DefaultSession, turn)
    /\ Owe(t, 1)
    /\ UNCHANGED <<files, agents>>

HandleRewind(turn) == Rewind("worker", turn)

\* Runtime::RewindBefore saves, as the command's own save does.
HandleApiRewind(turn) == Rewind("route", turn)

Clear ==
    /\ Changing("worker")
    /\ session' = Cleared(DefaultSession)
    /\ Owe("worker", 1)
    /\ UNCHANGED <<files, agents>>

\* Any other command, or one that was refused: nothing changes but that there is a session.
Show ==
    /\ Changing("worker")
    /\ session' = DefaultSession
    /\ Owe("worker", 1)
    /\ UNCHANGED <<files, agents>>

\* A page that reads the session makes one, and saves nothing.
Read ==
    /\ Changing("route")
    /\ ~HasSession
    /\ session' = DefaultSession
    /\ UNCHANGED <<at, files, agents>>

\* SetSetting and ClearSettings end alike; /thinking is the command that reaches one.
Override(t, overrides) ==
    /\ Changing(t)
    /\ session' = [DefaultSession EXCEPT !.overrides = overrides]
    /\ budget' = InForce(ConfiguredToolBudget, overrides)
    /\ Owe(t, Saves(t, 1))
    /\ excuse' = excuse \ {"budget"}
    /\ UNCHANGED <<files, active, transient>>

SetThinking(t, value) == Override(t, [session.overrides EXCEPT !.thinking = value])

SetToolBudget(value) == Override("route", [session.overrides EXCEPT !.tool_budget = value])

ClearSettings == Override("route", NoOverrides)

-----------------------------------------------------------------------------
(* A switch of agent: SwitchAgent to a known one, SwitchBackend to a new.   *)

Adopted(agent) ==
    IF agent \in Known THEN transient
    ELSE [a \in DOMAIN transient \cup {agent} |->
             IF a = agent THEN ConfiguredToolBudget ELSE transient[a]]

\* A switch to a known agent leaves the number of the agent it left in force, unless the
\* session names one; an adopted agent has taken that number over.
KeepsOldBudget(agent) == agent \in Known /\ session.overrides.tool_budget = None

Switch(t, agent) ==
    /\ Changing(t)
    /\ agent \in Known \/ (t = "worker" /\ agent \in Gateways)
    /\ agent # active
    /\ session' = IF t = "worker" THEN DefaultSession ELSE session
    /\ transient' = Adopted(agent)
    /\ RebuildToolbox(agent)
    /\ excuse' = (excuse \ {"race", "budget"})
                    \cup {e \in {"race"} : at[Other(t)].pc = "rebuilt"}
                    \cup {e \in {"budget"} : KeepsOldBudget(agent)}
    /\ Goto(t, "rebuilt", 0, agent)
    /\ UNCHANGED files

HandleBackend(agent) == Switch("worker", agent)

HandleApiAgentSwitch(agent) == Switch("route", agent)

\* Activate, once the tools are rebuilt: SetAgent refuses while a call is pending.
SyncSession(t) ==
    /\ On(t, "rebuilt")
    /\ Owe(t, IF HasSession /\ ~HasPendingToolCalls(session) THEN Saves(t, 1) ELSE Saves(t, 0))
    /\ \/ ~HasSession /\ UNCHANGED <<session, excuse>>
       \/ /\ HasSession /\ HasPendingToolCalls(session)
          /\ excuse' = excuse \cup {"refused"} /\ UNCHANGED session
       \/ /\ HasSession /\ ~HasPendingToolCalls(session)
          /\ excuse' = excuse \ {"refused"}
          /\ session' = [session EXCEPT !.agent = at[t].agent]
    /\ UNCHANGED <<up, chosen, files, active, transient, budget, counts>>

-----------------------------------------------------------------------------
(* SaveCurrentSession: opening the file truncates it. A file that cannot be *)
(* opened is warned of in the log, and the save is over.                    *)

File(kind, body) == [kind |-> kind, body |-> body]

OpenFile(t) ==
    /\ up # "off" /\ at[t].pc = "open"
    /\ disk' = File("empty", None)
    /\ doubtful' = (at[Other(t)].pc = "write")
    /\ Goto(t, "write", at[t].owed, None)
    /\ UNCHANGED <<up, session, chosen, bak, agents, counts>>

\* A save under way will still write what the session is by then.
OpenFails(t) ==
    /\ up # "off" /\ at[t].pc = "open"
    /\ changes < MaxChanges /\ changes' = changes + 1
    /\ doubtful' = (at[Other(t)].pc = "write" => doubtful)
    /\ Owe(t, at[t].owed - 1)
    /\ up' = IF up = "closing" THEN "off" ELSE up
    /\ UNCHANGED <<session, chosen, disk, bak, agents, turns, starts>>

\* Two writers leave one body whole, or parts of both.
Written == IF doubtful THEN {File("whole", Serialize(session)), File("torn", None)}
                      ELSE {File("whole", Serialize(session))}

WriteFile(t) ==
    /\ up # "off" /\ at[t].pc = "write"
    /\ disk' \in Written
    /\ chosen' = FALSE
    /\ Owe(t, at[t].owed - 1)
    /\ up' = IF up = "closing" THEN "off" ELSE up
    /\ UNCHANGED <<session, bak, doubtful, agents, counts>>

-----------------------------------------------------------------------------
(* The process starts and ends.                                             *)

\* Shutdown saves what there is, with both threads joined.
Shutdown ==
    /\ \A t \in Threads : On(t, "idle")
    /\ \/ /\ ~HasSession
          /\ up' = "off" /\ UNCHANGED at
       \/ /\ HasSession
          /\ up' = "closing" /\ Owe("worker", 1)
    /\ UNCHANGED <<session, chosen, files, agents, counts>>

Crash ==
    /\ up # "off" /\ starts < MaxStarts
    /\ up' = "off"
    /\ session' = NoSession /\ at' = [t \in Threads |-> Idle]
    /\ UNCHANGED <<chosen, files, agents, counts>>

\* The agent a start resumes: the one --agent named, else the session's own while it is
\* configured, else the default one.
Resumed(named, stored) ==
    IF named # None THEN named ELSE IF stored \in Agents THEN stored ELSE DefaultAgent

\* Mutant: the tools of the agent the session names are never built.
ToolsForDefault(default, resumed) == default

\* The agent whose tools are in the box once a session is loaded: they were built for the
\* default one, and are built again when the session resumes another.
ToolsFor(default, resumed) == resumed

\* LoadSessionFromFile: a file that was written whole parses and its links resolve.
Loads == disk.kind = "whole"

\* SetAside: a file that does not load becomes the backup.
SetAside ==
    /\ disk' = File("none", None)
    /\ bak' = IF disk.kind = "none" THEN bak ELSE disk.kind

\* The number in force after a start is the default agent's, or the override a second build
\* applied: wrong for a default agent with an override, and for another agent without one.
StartBudgetDiffers(default, resumed) ==
    Loads /\ (resumed = default <=> disk.body.overrides.tool_budget # None)

\* Initialize: tools for the default agent first, then the session. An override the file
\* holds is applied by the second build alone.
Initialize(named) ==
    /\ up = "off" /\ starts < MaxStarts
    /\ starts' = starts + 1
    /\ LET default == IF named = None THEN DefaultAgent ELSE named
           resumed == Resumed(named, disk.body.agent)
       IN  \/ /\ Loads
              /\ session' = [disk.body EXCEPT !.agent = resumed]
              /\ active' = ToolsFor(default, resumed)
              /\ budget' = IF resumed = default THEN AgentBudget[default]
                           ELSE InForce(AgentBudget[default], disk.body.overrides)
              /\ UNCHANGED <<disk, bak>>
           \/ /\ ~Loads
              /\ session' = NoSession
              /\ active' = default
              /\ budget' = AgentBudget[default]
              /\ SetAside
    /\ excuse' = {e \in {"budget"} : StartBudgetDiffers(
                     IF named = None THEN DefaultAgent ELSE named,
                     Resumed(named, disk.body.agent))}
    /\ at' = [t \in Threads |-> Idle]
    /\ transient' = <<>> /\ doubtful' = FALSE
    /\ chosen' = (named # None)
    /\ up' = "on"
    /\ UNCHANGED <<turns, changes>>

-----------------------------------------------------------------------------
Init ==
    /\ up = "off" /\ session = NoSession /\ at = [t \in Threads |-> Idle]
    /\ active = DefaultAgent /\ transient = <<>> /\ budget = AgentBudget[DefaultAgent]
    /\ disk = File("none", None) /\ bak = "none" /\ doubtful = FALSE
    /\ excuse = {} /\ chosen = FALSE
    /\ turns = 0 /\ changes = 0 /\ starts = 0

Levels == {"high"}

Next ==
    \/ \E peer \in BOOLEAN : StartTurn(peer)
    \/ ModelCalls
    \/ CallReturns
    \/ \E reported \in BOOLEAN : FinishTurn(reported)
    \/ \E turn \in 1 .. MaxNodes : HandleRewind(turn) \/ HandleApiRewind(turn)
    \/ Clear
    \/ Show
    \/ Read
    \/ \E t \in Threads, value \in Levels \cup {None} : SetThinking(t, value)
    \/ \E value \in ToolBudgets \cup {None} : SetToolBudget(value)
    \/ ClearSettings
    \/ \E agent \in Agents \cup Gateways : HandleBackend(agent) \/ HandleApiAgentSwitch(agent)
    \/ \E t \in Threads : SyncSession(t)
    \/ \E t \in Threads : OpenFile(t) \/ OpenFails(t)
    \/ \E t \in Threads : WriteFile(t)
    \/ Shutdown
    \/ Crash
    \/ \E named \in Agents \cup {None} : Initialize(named)

Spec == Init /\ [][Next]_vars
-----------------------------------------------------------------------------
(* Properties.                                                              *)

\* Runtime::SaveCurrentSession is called by every handler that changes the session, and by
\* nobody for it: when both threads are done, the file holds the conversation the view
\* shows, with its costs, its overrides and its agent. A session nothing was done to has no
\* file. The exceptions are two saves that wrote over each other, a last save that could not
\* open the file, and what Initialize itself decided about the agent.
DiskCurrent ==
    (HasSession /\ ~doubtful /\ \A t \in Threads : On(t, "idle"))
        => \/ /\ disk.kind = "whole"
              /\ Chain(disk.body) = Chain(session)
              /\ disk.body.overrides = session.overrides
              /\ disk.body.agent \in Agents /\ ~chosen => disk.body.agent = session.agent
           \/ disk.kind = "none" /\ session.nodes = <<>> /\ session.overrides = NoOverrides

\* The agent whose tools, policy and prompt a turn runs with is the one the session names.
NamesActive ==
    (/\ up = "on" /\ HasSession /\ excuse \cap {"race", "refused"} = {}
     /\ \A t \in Threads : at[t].pc # "rebuilt")
        => session.agent = active

\* The budget Executor counts calls against is the one the settings page would show.
BudgetInForce ==
    (up = "on" /\ "budget" \notin excuse)
        => budget = InForce(ConfiguredToolBudget, session.overrides)

\* "The backend a session reports and the agent it names are always the same answer", and the
\* tool budget "comes from the agent's tool_call_budget, or from the session's override"
\* (ARCHITECTURE.md): a turn runs with the tools of the agent the session names and with its
\* budget or the session's, through commands, routes, adopted backends and restarts. The
\* agents may differ after two switches that overlapped or one that met a pending call; the
\* budget after a switch that left the old agent's number (RebuildToolbox applies it before
\* the new agent is active) or a start that did, until a setting is changed.
AgentAgrees == NamesActive /\ BudgetInForce
=============================================================================
