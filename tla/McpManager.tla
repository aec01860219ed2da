----------------------------- MODULE McpManager -----------------------------
(***************************************************************************)
(* McpServerManager (runtime/src/mcp_stdio.rs): child processes that speak *)
(* JSON-RPC over their pipes, spawned and initialized when first needed,   *)
(* and the index that routes a qualified tool name to one of them.  The    *)
(* manager runs one operation at a time; the children run on their own and *)
(* may answer, fail, say something nobody asked for, or die, at any time.  *)
(***************************************************************************)
EXTENDS Naturals, SequencesExt

CONSTANTS
  ServerOrder,  \* configured stdio servers, in the order of the BTreeMap
  RawTools,     \* tool names as the servers spell them
  Qualified,    \* [server -> [raw name -> mcp__server__tool]]
  MaxRequests,  \* bound: no operation starts after so many requests
  MaxNoise      \* bound: frames a child may write unasked

NoTool == "no tool"
Servers == ToSet(ServerOrder)
Names == {Qualified[s][t] : s \in Servers, t \in RawTools}

ASSUME McpManagerAssumption ==
  /\ ServerOrder \in Seq(Servers) /\ IsInjective(ServerOrder)
  /\ DOMAIN Qualified = Servers
  /\ \A s \in Servers : DOMAIN Qualified[s] = RawTools
  /\ NoTool \notin RawTools
  /\ MaxRequests \in Nat /\ MaxNoise \in Nat

VARIABLES
  process,      \* [server -> "none", "up", or "dead": exited, its handle kept]
  initialized,  \* [server -> initialized]
  stdin,        \* [server -> requests written and not read by the child]
  stdout,       \* [server -> frames the child wrote and the manager did not read]
  toolIndex,    \* [qualified name -> route], partial
  nextId,       \* next_request_id
  op,           \* the running operation: "idle", "discover", "call", "shutdown"
  todo,         \* servers the operation still has to visit, the current one first
  tool,         \* raw name of the tool being called
  at,           \* "ready": in ensure_server_ready; "page": next page; or the method awaited
  exchange,     \* history: id and method of the last request, and of the frame taken for its answer
  greeted,      \* history: [server -> this child answered an initialize with success]
  noise,        \* history: [server -> frames this child wrote unasked]
  listed,       \* history: [server -> tools it listed since its routes were cleared]
  ended         \* history: how the last operation ended: "none", "ok", "error" and which it was

vars == <<process, initialized, stdin, stdout, toolIndex, nextId, op, todo, tool, at,
          exchange, greeted, noise, listed, ended>>
children == <<process, stdin, stdout, greeted, noise>>
manager == <<op, todo, tool, at>>
history == <<exchange, listed, ended>>

Current == Head(todo)
Notice == [kind |-> "notice"]         \* a notification: no id, so it does not parse
Ask == [kind |-> "ask"]               \* a request of the child: an id, no result, no error
Methods == {"initialize", "list", "call"}

Init ==
  /\ process = [s \in Servers |-> "none"]
  /\ initialized = [s \in Servers |-> FALSE]
  /\ stdin = [s \in Servers |-> <<>>]
  /\ stdout = [s \in Servers |-> <<>>]
  /\ toolIndex = <<>>
  /\ nextId = 1
  /\ op = "idle" /\ todo = <<>> /\ tool = NoTool /\ at = "ready"
  /\ exchange = [id |-> 0, method |-> "none", answerTo |-> 0]
  /\ greeted = [s \in Servers |-> FALSE]
  /\ noise = [s \in Servers |-> 0]
  /\ listed = [s \in Servers |-> {}]
  /\ ended = [op |-> "none", how |-> "none"]

-----------------------------------------------------------------------------
(* discover_tools, call_tool and shutdown begin and end.  Without a server  *)
(* to visit they return at once.                                           *)
Begin(what, servers) ==
  /\ op = "idle" /\ servers # <<>>
  /\ op' = what /\ todo' = servers /\ at' = "ready"
  /\ UNCHANGED <<children, initialized, toolIndex, nextId, history>>

BeginDiscover ==
  nextId <= MaxRequests /\ Begin("discover", ServerOrder) /\ UNCHANGED tool

BeginCall(name) ==
  /\ nextId <= MaxRequests
  /\ name \in DOMAIN toolIndex
  /\ Begin("call", <<toolIndex[name].server>>)
  /\ tool' = toolIndex[name].raw

BeginShutdown == Begin("shutdown", ServerOrder) /\ UNCHANGED tool

End(how) ==
  /\ op' = "idle" /\ todo' = <<>> /\ tool' = NoTool /\ at' = "ready"
  /\ ended' = [op |-> op, how |-> how]

(* On to the next server of the operation, which ends after the last one.  *)
NextServer ==
  IF Len(todo) = 1 THEN End("ok")
  ELSE todo' = Tail(todo) /\ at' = "ready" /\ UNCHANGED <<op, tool, ended>>

-----------------------------------------------------------------------------
(* ensure_server_ready: spawn if there is no process, initialize if that   *)
(* was not done.  A process that died still counts as one.                 *)
Visiting(s) == op \in {"discover", "call"} /\ s = Current

Spawn(s) ==
  /\ Visiting(s) /\ at = "ready" /\ process[s] = "none"
  /\ process' = [process EXCEPT ![s] = "up"]
  /\ initialized' = [initialized EXCEPT ![s] = FALSE]
  /\ stdin' = [stdin EXCEPT ![s] = <<>>]
  /\ stdout' = [stdout EXCEPT ![s] = <<>>]
  /\ greeted' = [greeted EXCEPT ![s] = FALSE]
  /\ noise' = [noise EXCEPT ![s] = 0]
  /\ UNCHANGED <<toolIndex, nextId, manager, history>>

SpawnFails(s) ==
  /\ Visiting(s) /\ at = "ready" /\ process[s] = "none"
  /\ End("error")
  /\ UNCHANGED <<children, initialized, toolIndex, nextId, exchange, listed>>

(* Slip: a request that was written is written again. *)
RequestTwice(s, method) ==
  /\ nextId' = nextId + 1
  /\ exchange' = [id |-> nextId, method |-> method, answerTo |-> 0]
  /\ IF process[s] = "up"
     THEN /\ stdin' = [stdin EXCEPT ![s] = @ \o <<[id |-> nextId, method |-> method],
                                                 [id |-> nextId, method |-> method]>>]
          /\ at' = method
          /\ UNCHANGED <<op, todo, tool, ended>>
     ELSE End("error") /\ UNCHANGED stdin

(* request: a fresh id, then the frame; a broken pipe ends the operation.  *)
Request(s, method) ==
  /\ nextId' = nextId + 1
  /\ exchange' = [id |-> nextId, method |-> method, answerTo |-> 0]
  /\ IF process[s] = "up"
     THEN /\ stdin' = [stdin EXCEPT ![s] = Append(@, [id |-> nextId, method |-> method])]
          /\ at' = method
          /\ UNCHANGED <<op, todo, tool, ended>>
     ELSE End("error") /\ UNCHANGED stdin

Initialize(s) ==
  /\ Visiting(s) /\ at = "ready" /\ process[s] # "none" /\ ~initialized[s]
  /\ Request(s, "initialize")
  /\ UNCHANGED <<process, stdout, greeted, noise, initialized, toolIndex, listed>>

(* Slip: the routes of the server survive discovery. *)
ClearNoRoutes(s) == toolIndex

ClearRoutes(s) ==
  [n \in {m \in DOMAIN toolIndex : toolIndex[m].server # s} |-> toolIndex[n]]

ListFirstPage(s) ==
  /\ Visiting(s) /\ op = "discover" /\ at = "ready" /\ process[s] # "none" /\ initialized[s]
  /\ toolIndex' = ClearRoutes(s)
  /\ listed' = [listed EXCEPT ![s] = {}]
  /\ Request(s, "list")
  /\ UNCHANGED <<process, stdout, greeted, noise, initialized>>

ListNextPage(s) ==
  /\ Visiting(s) /\ at = "page"
  /\ Request(s, "list")
  /\ UNCHANGED <<process, stdout, greeted, noise, initialized, toolIndex, listed>>

CallTool(s) ==
  /\ Visiting(s) /\ op = "call" /\ at = "ready" /\ process[s] # "none" /\ initialized[s]
  /\ Request(s, "call")
  /\ UNCHANGED <<process, stdout, greeted, noise, initialized, toolIndex, listed>>

-----------------------------------------------------------------------------
(* read_response takes the next frame, whatever its id.  A success parses  *)
(* as the result of its own method; every object parses as that of a call. *)
Parses(frame) ==
  \/ frame.kind = "ask"
  \/ frame.kind = "answer" /\ (frame.ok => at = "call" \/ frame.method = at)
Succeeds(frame) == frame.kind = "answer" /\ frame.ok

Take(s, method) ==
  /\ Visiting(s) /\ at = method
  /\ stdout[s] # <<>>
  /\ stdout' = [stdout EXCEPT ![s] = Tail(@)]
  /\ exchange' = [exchange EXCEPT !.answerTo =
       IF Head(stdout[s]).kind = "answer" /\ Parses(Head(stdout[s])) THEN Head(stdout[s]).id ELSE 0]
  /\ UNCHANGED <<process, stdin, greeted, noise, nextId>>

Initialized(s) ==
  /\ Take(s, "initialize")
  /\ IF Parses(Head(stdout[s])) /\ Succeeds(Head(stdout[s]))
     THEN initialized' = [initialized EXCEPT ![s] = TRUE] /\ at' = "ready"
          /\ UNCHANGED <<op, todo, tool, ended>>
     ELSE UNCHANGED initialized /\ End("error")
  /\ UNCHANGED <<toolIndex, listed>>

Routes(s, tools) ==
  [n \in DOMAIN toolIndex \cup {Qualified[s][t] : t \in tools} |->
     IF \E t \in tools : Qualified[s][t] = n
     THEN [server |-> s, raw |-> CHOOSE t \in tools : Qualified[s][t] = n]
     ELSE toolIndex[n]]

Listed(s) ==
  /\ Take(s, "list")
  /\ LET page == Head(stdout[s]) IN
     IF Parses(page) /\ Succeeds(page)
     THEN /\ toolIndex' = Routes(s, page.tools)
          /\ listed' = [listed EXCEPT ![s] = @ \cup page.tools]
          /\ IF page.more THEN at' = "page" /\ UNCHANGED <<op, todo, tool, ended>> ELSE NextServer
     ELSE UNCHANGED <<toolIndex, listed>> /\ End("error")
  /\ UNCHANGED initialized

(* What call_tool returns is the frame, be it a result, an error or none.  *)
Called(s) ==
  /\ Take(s, "call")
  /\ End(IF Parses(Head(stdout[s])) THEN "ok" ELSE "error")
  /\ UNCHANGED <<initialized, toolIndex, listed>>

Awaiting(s) == Visiting(s) /\ at \in Methods

(* Slip: a closed stream reads as nothing yet. *)
ReadEofIgnored(s) == Awaiting(s) /\ stdout[s] = <<>> /\ process[s] = "dead" /\ UNCHANGED vars

(* The stream is closed: the operation fails, the dead process is kept.    *)
ReadEof(s) ==
  /\ Awaiting(s) /\ stdout[s] = <<>> /\ process[s] = "dead"
  /\ End("error")
  /\ UNCHANGED <<children, initialized, toolIndex, nextId, exchange, listed>>

-----------------------------------------------------------------------------
(* shutdown: kill and reap each server in turn, stop at the first error.   *)
ShutdownServer(s) ==
  /\ op = "shutdown" /\ s = Current
  /\ process' = [process EXCEPT ![s] = "none"]
  /\ initialized' = [initialized EXCEPT ![s] = FALSE]
  /\ stdin' = [stdin EXCEPT ![s] = <<>>]
  /\ stdout' = [stdout EXCEPT ![s] = <<>>]
  /\ NextServer
  /\ UNCHANGED <<greeted, noise, toolIndex, nextId, exchange, listed>>

ShutdownFails(s) ==
  /\ op = "shutdown" /\ s = Current /\ process[s] # "none"
  /\ End("error")
  /\ UNCHANGED <<children, initialized, toolIndex, nextId, exchange, listed>>

-----------------------------------------------------------------------------
(* The child: answers its requests in order, and need not behave.          *)
Say(s, frame) == stdout' = [stdout EXCEPT ![s] = Append(@, frame)]

Answer(s) ==
  /\ process[s] = "up" /\ stdin[s] # <<>>
  /\ \E ok \in BOOLEAN, tools \in SUBSET RawTools, more \in BOOLEAN :
       LET request == Head(stdin[s]) IN
       /\ request.method # "list" \/ ~ok => tools = {} /\ ~more
       /\ more => nextId <= MaxRequests
       /\ Say(s, [kind |-> "answer", id |-> request.id, method |-> request.method,
                  ok |-> ok, tools |-> tools, more |-> more])
       /\ greeted' = [greeted EXCEPT ![s] = @ \/ (request.method = "initialize" /\ ok)]
  /\ stdin' = [stdin EXCEPT ![s] = Tail(@)]
  /\ UNCHANGED <<process, noise, initialized, toolIndex, nextId, manager, history>>

SpeakUnasked(s) ==
  /\ process[s] = "up" /\ noise[s] < MaxNoise
  /\ noise' = [noise EXCEPT ![s] = @ + 1]
  /\ \E frame \in {Notice, Ask} : Say(s, frame)
  /\ UNCHANGED <<process, stdin, greeted, initialized, toolIndex, nextId, manager, history>>

Die(s) ==
  /\ process[s] = "up"
  /\ process' = [process EXCEPT ![s] = "dead"]
  /\ stdin' = [stdin EXCEPT ![s] = <<>>]
  /\ UNCHANGED <<stdout, greeted, noise, initialized, toolIndex, nextId, manager, history>>

-----------------------------------------------------------------------------
Begins == BeginDiscover \/ (\E n \in Names : BeginCall(n)) \/ BeginShutdown

ManagerStep(s) ==
  \/ Spawn(s) \/ SpawnFails(s) \/ Initialize(s) \/ ListFirstPage(s) \/ ListNextPage(s)
  \/ CallTool(s) \/ Initialized(s) \/ Listed(s) \/ Called(s) \/ ReadEof(s)
  \/ ShutdownServer(s) \/ ShutdownFails(s)

ChildStep(s) == Answer(s) \/ SpeakUnasked(s) \/ Die(s)

Next == Begins \/ \E s \in Servers : ManagerStep(s) \/ ChildStep(s)

(* An operation that can go on goes on; a child that is up answers what it *)
(* was asked, as nothing here has a timeout.                               *)
Spec ==
  /\ Init /\ [][Next]_vars
  /\ WF_vars(\E s \in Servers : ManagerStep(s))
  /\ \A s \in Servers : WF_vars(Answer(s))

-----------------------------------------------------------------------------
RequestIds == Nat
Frames ==
  {Notice, Ask} \cup
  [kind : {"answer"}, id : RequestIds, method : Methods, ok : BOOLEAN,
   tools : SUBSET RawTools, more : BOOLEAN]

TypeOK ==
  /\ process \in [Servers -> {"none", "up", "dead"}]
  /\ initialized \in [Servers -> BOOLEAN]
  /\ stdin \in [Servers -> Seq([id : RequestIds, method : Methods])]
  /\ stdout \in [Servers -> Seq(Frames)]
  /\ DOMAIN toolIndex \subseteq Names
  /\ \A n \in DOMAIN toolIndex : toolIndex[n] \in [server : Servers, raw : RawTools]
  /\ nextId \in RequestIds
  /\ op \in {"idle", "discover", "call", "shutdown"}
  /\ todo \in Seq(Servers) /\ (todo = <<>> <=> op = "idle")
  /\ tool \in RawTools \cup {NoTool} /\ (op = "call" <=> tool # NoTool)
  /\ at \in {"ready", "page"} \cup Methods
  /\ exchange \in [id : RequestIds, method : Methods \cup {"none"}, answerTo : RequestIds]
  /\ greeted \in [Servers -> BOOLEAN]
  /\ noise \in [Servers -> 0 .. MaxNoise]
  /\ listed \in [Servers -> SUBSET RawTools]
  /\ ended \in [op : {"none", "discover", "call", "shutdown"}, how : {"none", "ok", "error"}]

(* Tools are listed and called only on a child that accepted an initialize *)
(* of its own, however often earlier ones failed, died or were replaced.   *)
InitializedMeansGreeted ==
  \A s \in Servers : process[s] # "none" /\ initialized[s] => greeted[s]

(* Every route leads to a tool that its server listed when it was last     *)
(* asked, under that name: rediscovery leaves no route of an earlier list, *)
(* and an operation that fails half way leaves no route to nowhere.        *)
RoutesAreCurrent ==
  \A n \in DOMAIN toolIndex :
    LET route == toolIndex[n] IN
    route.raw \in listed[route.server] /\ Qualified[route.server][route.raw] = n

(* After a discovery that succeeded, what any server listed can be called. *)
DiscoveredIsCallable ==
  ended = [op |-> "discover", how |-> "ok"] /\ op = "idle" =>
    \A s \in Servers : \A t \in listed[s] : Qualified[s][t] \in DOMAIN toolIndex

(* Ids of answers are not compared with ids of requests, and need not be   *)
(* for a child that never spoke unasked since it was spawned: whatever     *)
(* failed before, no stale frame is taken for the answer.                  *)
QuietChildrenAreInStep ==
  [][(exchange'.answerTo \notin {0, exchange.answerTo} /\ noise[Current] = 0)
       => exchange'.answerTo = exchange'.id]_vars

(* What a request returns is the response to it, says the test that reads  *)
(* the id of a response to request 9.                                      *)
ResponseIsToTheRequest == exchange.answerTo \in {0, exchange.id}

(* Every operation returns, although any child may fail or die in it.      *)
OperationEnds == op # "idle" ~> op = "idle"

(* No process is left after a shutdown that reported success: also one     *)
(* that died long after it was greeted is replaced from then on.           *)
ShutdownLeavesNothing ==
  ended = [op |-> "shutdown", how |-> "ok"] /\ op = "idle" =>
    \A s \in Servers : process[s] = "none" /\ ~initialized[s]

(* Whatever failed before, routes lead to tools that are there, on servers *)
(* that were greeted, and a shutdown starts from nothing.                  *)
ManagerInv ==
  TypeOK /\ InitializedMeansGreeted /\ RoutesAreCurrent /\ DiscoveredIsCallable /\ ShutdownLeavesNothing

=============================================================================
