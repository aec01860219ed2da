\* Two definitions; two sub-agents; two threads on four files, three calls;
\* searches of two files of up to four lines; a pipe of two, output of four,
\* input of three; two turns of two iterations; two sessions, two plans.
SPECIFICATION AgentsSpec
CONSTANTS
  a1 = a1
  a2 = a2
  t1 = t1
  t2 = t2
  notebook = notebook
  settings = settings
  todos = todos
  text = text
  s1 = s1
  s2 = s2
  Parent <- MCParent
  Home = "home"
  Names <- MCNames
  Rank <- MCRank
  MaxDefinitions = 2
  Agents <- MCAgentIds
  Asked = {"explorer", "explor", "planagent", "statusline"}
  Tried = {"write_file", "read_file", "Agent"}
  MaxUses = 1
  Threads <- MCThreads
  Documents <- MCDocuments
  MaxEdits = 3
  SearchFiles = 2
  FileLines <- MCFileLines
  Contexts <- MCContexts
  PageLimits <- MCPageLimits
  DefaultLimit = 3
  Capacity = 2
  MaxOutput = 4
  MaxInput = 3
  Keep = 2
  Threshold = 1
  MaxIterations = 2
  Retries = 1
  UsesPerReply = 3
  MaxTurns = 2
  Sessions <- MCSessions
  MaxPlans = 2
INVARIANTS
  SubAgentsInv
  SharedFilesInv
  FindingsInv
  ShellInv
  AgentInv
  RefusedForAReason
  PowerGenInv
PROPERTIES
  LimitsHold
CHECK_DEADLOCK FALSE
