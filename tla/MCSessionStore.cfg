\* A turn that may call a tool, three requests of the user, and a restart; one agent is adopted from
\* a backend and has no entry in agents.json.
CONSTANTS
  a = a
  b = b
  g = g
  Agents = {a, b}
  DefaultAgent = a
  Gateways = {g}
  AgentBudget <- MCAgentBudget
  ToolBudgets = {3}
  None = None
  MaxNodes = 4
  MaxTurns = 1
  MaxChanges = 3
  MaxStarts = 2
SPECIFICATION Spec
INVARIANTS DiskCurrent 
CHECK_DEADLOCK FALSE
