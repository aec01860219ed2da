\* Three tasks on one client, a server that may answer in any order, ask,
\* garble and exit; two callers of a manager, two documents of two servers.
SPECIFICATION ClientSpec
CONSTANTS
  t1 = t1
  t2 = t2
  t3 = t3
  c1 = c1
  c2 = c2
  s1 = s1
  s2 = s2
  d1 = d1
  d2 = d2
  Tasks <- MCTasks
  ServerAsks = 1
  MayBreak = TRUE
  Callers <- MCCallers
  Servers <- MCServers
  Home <- MCHome
  MaxCalls = 2
INVARIANTS
  WaitersInv
  DocumentsInv
PROPERTIES
  RequestsReturn
  CallsReturn
CHECK_DEADLOCK FALSE
