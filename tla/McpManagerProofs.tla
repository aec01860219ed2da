--------------------------- MODULE McpManagerProofs ---------------------------
(***************************************************************************)
(* Theorems about McpManager, for any servers, tools, qualified names,     *)
(* number of requests and amount of noise.                                 *)
(***************************************************************************)
EXTENDS McpManager, SequenceTheorems, TLAPS

(* Types, part by part.  An operation visits each server once, and only a  *)
(* call awaits a tool.                                                     *)
ManagerTyped ==
  /\ op \in {"idle", "discover", "call", "shutdown"}
  /\ todo \in Seq(Servers) /\ (todo = <<>> <=> op = "idle") /\ IsInjective(todo)
  /\ tool \in RawTools \cup {NoTool} /\ (op = "call" <=> tool # NoTool)
  /\ at \in {"ready", "page"} \cup Methods /\ (at = "call" => op = "call")
  /\ ended \in [op : {"none", "discover", "call", "shutdown"}, how : {"none", "ok", "error"}]

RoutesTyped ==
  /\ initialized \in [Servers -> BOOLEAN]
  /\ DOMAIN toolIndex \subseteq Names
  /\ \A n \in DOMAIN toolIndex : toolIndex[n] \in [server : Servers, raw : RawTools]
  /\ listed \in [Servers -> SUBSET RawTools]

Requests == [id : RequestIds, method : Methods]
PipesTyped ==
  /\ process \in [Servers -> {"none", "up", "dead"}]
  /\ stdin \in [Servers -> Seq(Requests)]
  /\ stdout \in [Servers -> Seq(Frames)]
  /\ nextId \in Nat
  /\ exchange \in [id : RequestIds, method : Methods \cup {"none"}, answerTo : RequestIds]
  /\ greeted \in [Servers -> BOOLEAN]
  /\ noise \in [Servers -> 0 .. MaxNoise]

TypeInv == ManagerTyped /\ RoutesTyped /\ PipesTyped

(* A success of initialize that waits to be read is of this very child.    *)
Greeting(frame) == Succeeds(frame) /\ frame.method = "initialize"
GreetingsAreTold ==
  \A s \in Servers : \A k \in 1 .. Len(stdout[s]) : Greeting(stdout[s][k]) => greeted[s]

(* Of the servers a discovery is done with, every tool listed has a route, *)
(* and to a server whose routes it will not clear any more.                *)
ToClear == IF at \in {"list", "page"} THEN ToSet(todo) \ {Current} ELSE ToSet(todo)
DiscoveredSoFar ==
  op = "discover" =>
    \A s \in Servers \ ToClear : \A t \in listed[s] :
      /\ Qualified[s][t] \in DOMAIN toolIndex
      /\ toolIndex[Qualified[s][t]].server \notin ToClear

StoppedSoFar ==
  op = "shutdown" => \A s \in Servers \ ToSet(todo) : process[s] = "none" /\ ~initialized[s]

(* Between a quiet child and the manager there is at most one frame: the   *)
(* request that was written last, or the answer to it.                     *)
AnswersTheLast(frame) == frame.kind = "answer" /\ frame.id = exchange.id
OneIsUnderWay(s) ==
  \/ stdin[s] = <<>> /\ stdout[s] = <<>>
  \/ Awaiting(s) /\ stdout[s] = <<>> /\ Len(stdin[s]) = 1 /\ Head(stdin[s]).id = exchange.id
  \/ Awaiting(s) /\ stdin[s] = <<>> /\ Len(stdout[s]) = 1 /\ AnswersTheLast(Head(stdout[s]))
QuietPipes ==
  \A s \in Servers :
    /\ process[s] # "up" => stdin[s] = <<>>
    /\ noise[s] = 0 => OneIsUnderWay(s)

IInv ==
  /\ TypeInv
  /\ GreetingsAreTold /\ InitializedMeansGreeted
  /\ RoutesAreCurrent
  /\ DiscoveredSoFar /\ DiscoveredIsCallable
  /\ StoppedSoFar /\ ShutdownLeavesNothing
  /\ QuietPipes

-----------------------------------------------------------------------------
LEMMA SetOfSequence ==
  ASSUME NEW S, NEW q \in Seq(S)
  PROVE  /\ ToSet(q) \subseteq S
         /\ \A x : x \in ToSet(q) <=> \E k \in 1 .. Len(q) : q[k] = x
<1>1. DOMAIN q = 1 .. Len(q) /\ \A k \in 1 .. Len(q) : q[k] \in S
  BY LenProperties
<1> QED
  BY <1>1 DEF ToSet

(* The order of the servers is one, and covers them.                       *)
LEMMA OrderCoversServers ==
  ServerOrder \in Seq(Servers) /\ IsInjective(ServerOrder) /\ ToSet(ServerOrder) = Servers
BY McpManagerAssumption DEF Servers

(* The rest of a tour is a tour of the other servers.                      *)
LEMMA RestOfTheTour ==
  ASSUME TypeInv, op # "idle"
  PROVE  /\ todo # <<>> /\ Current \in Servers /\ Current \in ToSet(todo)
         /\ Tail(todo) \in Seq(Servers) /\ IsInjective(Tail(todo))
         /\ ToSet(Tail(todo)) = ToSet(todo) \ {Current}
         /\ Len(todo) = 1 => ToSet(todo) \ {Current} = {}
         /\ Len(todo) # 1 => Tail(todo) # <<>>
<1>1. todo \in Seq(Servers) /\ todo # <<>> /\ IsInjective(todo)
  BY DEF TypeInv, ManagerTyped
<1>2. /\ Current \in Servers /\ Tail(todo) \in Seq(Servers)
      /\ Len(Tail(todo)) = Len(todo) - 1 /\ Len(todo) \in Nat /\ Len(todo) > 0
      /\ \A k \in 1 .. Len(todo) - 1 : Tail(todo)[k] = todo[k + 1]
      /\ DOMAIN todo = 1 .. Len(todo) /\ DOMAIN Tail(todo) = 1 .. Len(todo) - 1
      /\ Current = todo[1]
  BY <1>1, HeadTailProperties, LenProperties, EmptySeq DEF Current
<1>3. \A j, k \in 1 .. Len(todo) : todo[j] = todo[k] => j = k
  BY <1>1, <1>2 DEF IsInjective
<1>4. IsInjective(Tail(todo))
  <2> SUFFICES ASSUME NEW j \in 1 .. Len(todo) - 1, NEW k \in 1 .. Len(todo) - 1,
                      Tail(todo)[j] = Tail(todo)[k]
               PROVE  j = k
    BY <1>2 DEF IsInjective
  <2>1. todo[j + 1] = todo[k + 1] /\ j + 1 \in 1 .. Len(todo) /\ k + 1 \in 1 .. Len(todo)
    BY <1>2
  <2> QED
    BY <1>2, <1>3, <2>1
<1>5. \A x : x \in ToSet(todo) <=> \E k \in 1 .. Len(todo) : todo[k] = x
  BY <1>1, SetOfSequence
<1>6. \A x : x \in ToSet(Tail(todo)) <=> \E k \in 1 .. Len(todo) - 1 : todo[k + 1] = x
  <2>1. \A x : x \in ToSet(Tail(todo)) <=> \E k \in 1 .. Len(Tail(todo)) : Tail(todo)[k] = x
    BY <1>2, SetOfSequence
  <2> QED
    BY <1>2, <2>1
<1>7. Current \in ToSet(todo)
  BY <1>2, <1>5
<1>8. ToSet(Tail(todo)) = ToSet(todo) \ {Current}
  <2>1. ASSUME NEW x \in ToSet(Tail(todo))
        PROVE  x \in ToSet(todo) /\ x # Current
    <3>1. PICK k \in 1 .. Len(todo) - 1 : todo[k + 1] = x
      BY <1>6
    <3>2. k + 1 \in 1 .. Len(todo) /\ k + 1 # 1 /\ 1 \in 1 .. Len(todo)
      BY <1>2, <3>1
    <3> QED
      BY <1>2, <1>3, <1>5, <3>1, <3>2
  <2>2. ASSUME NEW x \in ToSet(todo), x # Current
        PROVE  x \in ToSet(Tail(todo))
    <3>1. PICK k \in 1 .. Len(todo) : todo[k] = x
      BY <1>5
    <3>2. k - 1 \in 1 .. Len(todo) - 1 /\ (k - 1) + 1 = k
      BY <1>2, <2>2, <3>1
    <3> QED
      BY <1>6, <3>1, <3>2
  <2> QED
    BY <2>1, <2>2
<1>9. Len(todo) = 1 => ToSet(todo) \ {Current} = {}
  BY <1>2, <1>5
<1>10. Len(todo) # 1 => Tail(todo) # <<>>
  BY <1>2
<1> QED
  BY <1>1, <1>2, <1>4, <1>7, <1>8, <1>9, <1>10

-----------------------------------------------------------------------------
LEMMA TypeInvIsEnough == TypeInv => TypeOK
BY DEF TypeInv, TypeOK, ManagerTyped, RoutesTyped, PipesTyped, Requests, RequestIds

LEMMA EmptyIsInjective == \A x : IsInjective(<<x>>) /\ IsInjective(<<>>)
BY DEF IsInjective

LEMMA BeginTyped ==
  ASSUME TypeInv, NEW what \in {"discover", "call", "shutdown"}, NEW servers \in Seq(Servers),
         IsInjective(servers), Begin(what, servers),
         tool' \in RawTools \cup {NoTool}, what = "call" <=> tool' # NoTool
  PROVE  TypeInv'
<1>1. ManagerTyped'
  BY DEF TypeInv, Begin, ManagerTyped, history
<1>2. RoutesTyped'
  BY DEF TypeInv, Begin, RoutesTyped, history
<1>3. PipesTyped'
  BY DEF TypeInv, Begin, PipesTyped, history, children
<1> QED
  BY <1>1, <1>2, <1>3 DEF TypeInv

LEMMA EndTyped ==
  ASSUME TypeInv, op # "idle", NEW how \in {"ok", "error"}, End(how)
  PROVE  ManagerTyped'
<1>1. <<>> \in Seq(Servers) /\ IsInjective(<<>>)
  BY EmptyIsInjective, EmptySeq
<1>2. ended' \in [op : {"none", "discover", "call", "shutdown"}, how : {"none", "ok", "error"}]
  BY DEF TypeInv, End, ManagerTyped
<1> QED
  BY <1>1, <1>2 DEF End, ManagerTyped

LEMMA NextTyped ==
  ASSUME TypeInv, op # "idle", NextServer
  PROVE  ManagerTyped'
<1>1. CASE Len(todo) = 1
  BY <1>1, EndTyped DEF NextServer
<1>2. CASE Len(todo) # 1
  BY <1>2, RestOfTheTour DEF TypeInv, NextServer, ManagerTyped
<1> QED
  BY <1>1, <1>2

LEMMA RequestTyped ==
  ASSUME TypeInv, NEW s \in Servers, op # "idle", NEW method \in Methods,
         method = "call" => op = "call", Request(s, method),
         UNCHANGED <<process, stdout, greeted, noise>>
  PROVE  ManagerTyped' /\ PipesTyped'
<1>1. ManagerTyped'
  <2>1. CASE process[s] = "up"
    BY <2>1 DEF TypeInv, Request, ManagerTyped
  <2>2. CASE process[s] # "up"
    BY <2>2, EndTyped DEF Request
  <2> QED
    BY <2>1, <2>2
<1>2. nextId' \in Nat /\ exchange' \in [id : RequestIds, method : Methods \cup {"none"}, answerTo : RequestIds]
  BY DEF TypeInv, Request, PipesTyped, RequestIds
<1>3. stdin' \in [Servers -> Seq(Requests)]
  <2>1. [id |-> nextId, method |-> method] \in Requests
    BY DEF TypeInv, PipesTyped, Requests, RequestIds
  <2>2. stdin \in [Servers -> Seq(Requests)]
    BY DEF TypeInv, PipesTyped
  <2>3. Append(stdin[s], [id |-> nextId, method |-> method]) \in Seq(Requests)
    BY <2>1, <2>2, AppendProperties
  <2> QED
    BY <2>2, <2>3 DEF Request
<1>4. PipesTyped'
  BY <1>2, <1>3 DEF TypeInv, PipesTyped
<1> QED
  BY <1>1, <1>4

(* What is read is a frame, and the rest of the pipe stays.                *)
LEMMA TakeTyped ==
  ASSUME TypeInv, NEW s \in Servers, NEW method \in Methods, Take(s, method)
  PROVE  /\ op # "idle" /\ s = Current /\ Head(stdout[s]) \in Frames /\ PipesTyped'
         /\ Succeeds(Head(stdout[s])) => Head(stdout[s]).tools \in SUBSET RawTools
<1>1. op # "idle" /\ s = Current
  BY DEF Take, Visiting
<1>2. stdout \in [Servers -> Seq(Frames)]
  BY DEF TypeInv, PipesTyped
<1>3. stdout[s] \in Seq(Frames) /\ stdout[s] # <<>>
  BY <1>2 DEF Take
<1>4. Head(stdout[s]) \in Frames /\ Tail(stdout[s]) \in Seq(Frames)
  BY <1>3, HeadTailProperties
<1>5. Head(stdout[s]).kind = "answer" =>
        /\ Head(stdout[s]).id \in RequestIds /\ Head(stdout[s]).tools \in SUBSET RawTools
  BY <1>4 DEF Frames, Notice, Ask
<1>6. stdout' \in [Servers -> Seq(Frames)]
  BY <1>2, <1>4 DEF Take
<1>7. exchange' \in [id : RequestIds, method : Methods \cup {"none"}, answerTo : RequestIds]
  <2>1. exchange \in [id : RequestIds, method : Methods \cup {"none"}, answerTo : RequestIds]
    BY DEF TypeInv, PipesTyped
  <2>2. PICK a \in RequestIds : exchange' = [exchange EXCEPT !.answerTo = a]
    BY <1>5 DEF Take, RequestIds
  <2> QED
    BY <2>1, <2>2
<1>8. PipesTyped'
  BY <1>6, <1>7 DEF TypeInv, PipesTyped, Take
<1> QED
  BY <1>1, <1>4, <1>5, <1>8 DEF Succeeds

(* The routes of a page replace those of its names, and keep the others.   *)
LEMMA RoutesAreThose ==
  ASSUME NEW s \in Servers, NEW tools \in SUBSET RawTools
  PROVE  /\ DOMAIN Routes(s, tools) = DOMAIN toolIndex \cup {Qualified[s][t] : t \in tools}
         /\ \A t \in tools : Qualified[s][t] \in Names
         /\ \A n \in DOMAIN Routes(s, tools) :
              \/ /\ Routes(s, tools)[n] \in [server : {s}, raw : tools]
                 /\ Qualified[s][Routes(s, tools)[n].raw] = n
              \/ n \in DOMAIN toolIndex /\ Routes(s, tools)[n] = toolIndex[n]
<1>1. DOMAIN Routes(s, tools) = DOMAIN toolIndex \cup {Qualified[s][t] : t \in tools}
  BY DEF Routes
<1>2. ASSUME NEW n \in DOMAIN Routes(s, tools), \E t \in tools : Qualified[s][t] = n
      PROVE  /\ Routes(s, tools)[n] \in [server : {s}, raw : tools]
             /\ Qualified[s][Routes(s, tools)[n].raw] = n
  <2> DEFINE c == CHOOSE t \in tools : Qualified[s][t] = n
  <2>1. c \in tools /\ Qualified[s][c] = n
    BY <1>2
  <2>2. Routes(s, tools)[n] = [server |-> s, raw |-> c]
    BY <1>1, <1>2 DEF Routes
  <2> HIDE DEF c
  <2> QED
    BY <2>1, <2>2
<1>3. ASSUME NEW n \in DOMAIN Routes(s, tools), ~ \E t \in tools : Qualified[s][t] = n
      PROVE  n \in DOMAIN toolIndex /\ Routes(s, tools)[n] = toolIndex[n]
  BY <1>1, <1>3 DEF Routes
<1>4. \A t \in tools : Qualified[s][t] \in Names
  BY DEF Names
<1> QED
  BY <1>1, <1>2, <1>3, <1>4

LEMMA ClearedRoutes ==
  ASSUME NEW s \in Servers
  PROVE  /\ DOMAIN ClearRoutes(s) = {n \in DOMAIN toolIndex : toolIndex[n].server # s}
         /\ \A n \in DOMAIN ClearRoutes(s) : ClearRoutes(s)[n] = toolIndex[n]
BY DEF ClearRoutes

LEMMA TypeStep == TypeInv /\ [Next]_vars => TypeInv'
<1> SUFFICES ASSUME TypeInv, [Next]_vars
             PROVE  TypeInv'
  OBVIOUS
<1> USE DEF history, children, manager
<1>1. CASE BeginDiscover
  BY <1>1, OrderCoversServers, BeginTyped DEF BeginDiscover, TypeInv, ManagerTyped, Begin
<1>2. ASSUME NEW name \in Names, BeginCall(name)
      PROVE  TypeInv'
  <2>1. toolIndex[name].server \in Servers /\ toolIndex[name].raw \in RawTools
    BY <1>2 DEF BeginCall, TypeInv, RoutesTyped
  <2>2. <<toolIndex[name].server>> \in Seq(Servers) /\ IsInjective(<<toolIndex[name].server>>)
    BY <2>1, EmptyIsInjective
  <2> QED
    BY <1>2, <2>1, <2>2, BeginTyped, McpManagerAssumption DEF BeginCall
<1>3. CASE BeginShutdown
  BY <1>3, OrderCoversServers, BeginTyped DEF BeginShutdown, TypeInv, ManagerTyped, Begin
<1>4. ASSUME NEW s \in Servers, Spawn(s)
      PROVE  TypeInv'
  <2>1. ManagerTyped' /\ RoutesTyped'
    BY <1>4 DEF Spawn, TypeInv, ManagerTyped, RoutesTyped
  <2>2. PipesTyped'
    <3>1. <<>> \in Seq(Requests) /\ <<>> \in Seq(Frames) /\ 0 \in 0 .. MaxNoise
      BY McpManagerAssumption
    <3> QED
      BY <1>4, <3>1 DEF Spawn, TypeInv, PipesTyped
  <2> QED
    BY <2>1, <2>2 DEF TypeInv
<1>5. ASSUME NEW s \in Servers, SpawnFails(s) \/ ReadEof(s) \/ ShutdownFails(s)
      PROVE  TypeInv'
  <2>1. op # "idle" /\ End("error") /\ UNCHANGED <<children, initialized, toolIndex, nextId, exchange, listed>>
    BY <1>5 DEF SpawnFails, ReadEof, ShutdownFails, Visiting, Awaiting
  <2>2. ManagerTyped'
    BY <2>1, EndTyped
  <2> QED
    BY <2>1, <2>2 DEF TypeInv, RoutesTyped, PipesTyped
<1>6. ASSUME NEW s \in Servers, Initialize(s) \/ ListNextPage(s) \/ CallTool(s)
      PROVE  TypeInv'
  <2>1. /\ op # "idle" /\ UNCHANGED <<process, stdout, greeted, noise, initialized, toolIndex, listed>>
        /\ \E method \in Methods : Request(s, method) /\ (method = "call" => op = "call")
    BY <1>6 DEF Initialize, ListNextPage, CallTool, Visiting, Methods
  <2>2. ManagerTyped' /\ PipesTyped'
    BY <2>1, RequestTyped
  <2> QED
    BY <2>1, <2>2 DEF TypeInv, RoutesTyped
<1>7. ASSUME NEW s \in Servers, ListFirstPage(s)
      PROVE  TypeInv'
  <2>1. /\ op # "idle" /\ UNCHANGED <<process, stdout, greeted, noise, initialized>>
        /\ Request(s, "list") /\ "list" \in Methods
    BY <1>7 DEF ListFirstPage, Visiting, Methods
  <2>2. ManagerTyped' /\ PipesTyped'
    BY <2>1, RequestTyped
  <2>3. RoutesTyped'
    BY <1>7, ClearedRoutes DEF ListFirstPage, TypeInv, RoutesTyped
  <2> QED
    BY <2>2, <2>3 DEF TypeInv
<1>8. ASSUME NEW s \in Servers, Initialized(s)
      PROVE  TypeInv'
  <2>1. Take(s, "initialize") /\ "initialize" \in Methods /\ UNCHANGED <<toolIndex, listed>>
    BY <1>8 DEF Initialized, Methods
  <2>2. op # "idle" /\ PipesTyped'
    BY <2>1, TakeTyped
  <2>3. \/ initialized' = [initialized EXCEPT ![s] = TRUE] /\ at' = "ready" /\ UNCHANGED <<op, todo, tool, ended>>
        \/ UNCHANGED initialized /\ End("error")
    BY <1>8 DEF Initialized
  <2>4. ManagerTyped'
    BY <2>2, <2>3, EndTyped DEF TypeInv, ManagerTyped
  <2> QED
    BY <2>1, <2>2, <2>3, <2>4 DEF TypeInv, RoutesTyped
<1>9. ASSUME NEW s \in Servers, Listed(s)
      PROVE  TypeInv'
  <2>1. Take(s, "list") /\ "list" \in Methods /\ UNCHANGED initialized
    BY <1>9 DEF Listed, Methods
  <2>2. op # "idle" /\ PipesTyped' /\ (Succeeds(Head(stdout[s])) => Head(stdout[s]).tools \in SUBSET RawTools)
    BY <2>1, TakeTyped
  <2>3. CASE UNCHANGED <<toolIndex, listed>> /\ End("error")
    BY <2>1, <2>2, <2>3, EndTyped DEF TypeInv, RoutesTyped
  <2>4. ASSUME NEW tools \in SUBSET RawTools, toolIndex' = Routes(s, tools),
               listed' = [listed EXCEPT ![s] = @ \cup tools],
               (at' = "page" /\ UNCHANGED <<op, todo, tool, ended>>) \/ NextServer
        PROVE  TypeInv'
    <3>1. ManagerTyped'
      BY <2>2, <2>4, NextTyped DEF TypeInv, ManagerTyped
    <3>2. listed' \in [Servers -> SUBSET RawTools] /\ initialized' \in [Servers -> BOOLEAN]
      BY <2>1, <2>4 DEF TypeInv, RoutesTyped
    <3>0. /\ DOMAIN toolIndex' = DOMAIN toolIndex \cup {Qualified[s][t] : t \in tools}
          /\ \A t \in tools : Qualified[s][t] \in Names
          /\ \A n \in DOMAIN toolIndex' :
               \/ toolIndex'[n] \in [server : {s}, raw : tools]
               \/ n \in DOMAIN toolIndex /\ toolIndex'[n] = toolIndex[n]
      BY <2>4, RoutesAreThose
    <3>3. DOMAIN toolIndex' \subseteq Names
      BY <3>0 DEF TypeInv, RoutesTyped
    <3>4. \A n \in DOMAIN toolIndex' : toolIndex'[n] \in [server : Servers, raw : RawTools]
      BY <3>0 DEF TypeInv, RoutesTyped
    <3>5. RoutesTyped'
      BY <3>2, <3>3, <3>4 DEF RoutesTyped
    <3> QED
      BY <2>2, <3>1, <3>5 DEF TypeInv
  <2> QED
    BY <1>9, <2>2, <2>3, <2>4 DEF Listed
<1>10. ASSUME NEW s \in Servers, Called(s)
       PROVE  TypeInv'
  <2>1. Take(s, "call") /\ "call" \in Methods /\ UNCHANGED <<initialized, toolIndex, listed>>
        /\ \E how \in {"ok", "error"} : End(how)
    BY <1>10 DEF Called, Methods
  <2>2. PipesTyped' /\ ManagerTyped'
    BY <2>1, TakeTyped, EndTyped
  <2> QED
    BY <2>1, <2>2 DEF TypeInv, RoutesTyped
<1>11. ASSUME NEW s \in Servers, ShutdownServer(s)
       PROVE  TypeInv'
  <2>1. ManagerTyped'
    BY <1>11, NextTyped DEF ShutdownServer
  <2>2. RoutesTyped' /\ PipesTyped'
    <3>1. <<>> \in Seq(Requests) /\ <<>> \in Seq(Frames)
      OBVIOUS
    <3> QED
      BY <1>11, <3>1 DEF ShutdownServer, TypeInv, RoutesTyped, PipesTyped
  <2> QED
    BY <2>1, <2>2 DEF TypeInv
<1>12. ASSUME NEW s \in Servers, ChildStep(s)
       PROVE  TypeInv'
  <2>1. ManagerTyped' /\ RoutesTyped' /\ UNCHANGED <<nextId, exchange>>
    BY <1>12 DEF ChildStep, Answer, SpeakUnasked, Die, TypeInv, ManagerTyped, RoutesTyped
  <2>2. stdin \in [Servers -> Seq(Requests)] /\ stdout \in [Servers -> Seq(Frames)]
    BY DEF TypeInv, PipesTyped
  <2>3. \A frame \in Frames : Append(stdout[s], frame) \in Seq(Frames)
    BY <2>2, AppendProperties
  <2>4. CASE Answer(s)
    <3>1. stdin[s] \in Seq(Requests) /\ stdin[s] # <<>>
      BY <2>2, <2>4 DEF Answer
    <3>2. Head(stdin[s]) \in Requests /\ Tail(stdin[s]) \in Seq(Requests)
      BY <3>1, HeadTailProperties
    <3>3. PICK frame \in Frames : Say(s, frame) /\ greeted' \in [Servers -> BOOLEAN]
      BY <2>4, <3>2 DEF Answer, Frames, Requests, TypeInv, PipesTyped
    <3> QED
      BY <2>1, <2>2, <2>3, <2>4, <3>2, <3>3 DEF Answer, Say, TypeInv, PipesTyped
  <2>5. CASE SpeakUnasked(s)
    <3>1. PICK frame \in Frames : Say(s, frame)
      BY <2>5 DEF SpeakUnasked, Frames
    <3>2. noise' \in [Servers -> 0 .. MaxNoise]
      BY <2>5, McpManagerAssumption DEF SpeakUnasked, TypeInv, PipesTyped
    <3> QED
      BY <2>1, <2>2, <2>3, <2>5, <3>1, <3>2 DEF SpeakUnasked, Say, TypeInv, PipesTyped
  <2>6. CASE Die(s)
    <3>1. <<>> \in Seq(Requests)
      OBVIOUS
    <3> QED
      BY <2>1, <2>2, <2>6, <3>1 DEF Die, TypeInv, PipesTyped
  <2> QED
    BY <1>12, <2>4, <2>5, <2>6 DEF ChildStep
<1>13. CASE UNCHANGED vars
  BY <1>13 DEF vars, TypeInv, ManagerTyped, RoutesTyped, PipesTyped
<1> QED
  BY <1>1, <1>2, <1>3, <1>4, <1>5, <1>6, <1>7, <1>8, <1>9, <1>10, <1>11, <1>12, <1>13
     DEF Next, Begins, ManagerStep

-----------------------------------------------------------------------------
(* No frame of the pipes is a greeting that was not made.                  *)
LEMMA GreetingsStep ==
  TypeInv /\ GreetingsAreTold /\ InitializedMeansGreeted /\ [Next]_vars
    => (GreetingsAreTold /\ InitializedMeansGreeted)'
<1> SUFFICES ASSUME TypeInv, GreetingsAreTold, InitializedMeansGreeted, [Next]_vars
             PROVE  (GreetingsAreTold /\ InitializedMeansGreeted)'
  OBVIOUS
<1> USE DEF history, children, manager
<1>0. /\ stdout \in [Servers -> Seq(Frames)] /\ greeted \in [Servers -> BOOLEAN]
      /\ initialized \in [Servers -> BOOLEAN] /\ process \in [Servers -> {"none", "up", "dead"}]
  BY DEF TypeInv, PipesTyped, RoutesTyped
<1>1. CASE UNCHANGED <<process, stdout, greeted, initialized>>
  BY <1>1 DEF GreetingsAreTold, InitializedMeansGreeted
<1>2. ASSUME NEW s \in Servers, Spawn(s)
      PROVE  (GreetingsAreTold /\ InitializedMeansGreeted)'
  BY <1>0, <1>2 DEF Spawn, GreetingsAreTold, InitializedMeansGreeted
<1>3. ASSUME NEW s \in Servers, NEW method \in Methods, Take(s, method)
      PROVE  GreetingsAreTold'
  <2>1. stdout[s] \in Seq(Frames) /\ stdout[s] # <<>>
    BY <1>0, <1>3 DEF Take
  <2>2. /\ Len(Tail(stdout[s])) = Len(stdout[s]) - 1 /\ Len(stdout[s]) \in Nat
        /\ \A k \in 1 .. Len(stdout[s]) - 1 : Tail(stdout[s])[k] = stdout[s][k + 1]
    BY <2>1, HeadTailProperties, LenProperties
  <2>3. stdout' = [stdout EXCEPT ![s] = Tail(@)] /\ UNCHANGED greeted
    BY <1>3 DEF Take
  <2> SUFFICES ASSUME NEW q \in Servers, NEW k \in 1 .. Len(stdout'[q]), Greeting(stdout'[q][k])
               PROVE  greeted[q]
    BY <2>3 DEF GreetingsAreTold, Greeting, Succeeds
  <2>4. CASE q = s
    <3>1. k + 1 \in 1 .. Len(stdout[s]) /\ stdout'[q][k] = stdout[s][k + 1]
      BY <1>0, <2>2, <2>3, <2>4
    <3> QED
      BY <2>4, <3>1 DEF GreetingsAreTold
  <2>5. CASE q # s
    BY <1>0, <2>3, <2>5 DEF GreetingsAreTold
  <2> QED
    BY <2>4, <2>5
<1>4. ASSUME NEW s \in Servers, Initialized(s)
      PROVE  (GreetingsAreTold /\ InitializedMeansGreeted)'
  <2>1. Take(s, "initialize") /\ "initialize" \in Methods /\ UNCHANGED <<process, greeted>>
    BY <1>4 DEF Initialized, Take, Methods
  <2>2. GreetingsAreTold'
    BY <1>3, <2>1
  <2>3. stdout[s] \in Seq(Frames) /\ stdout[s] # <<>> /\ at = "initialize"
    BY <1>0, <2>1 DEF Take
  <2>4. Head(stdout[s]) = stdout[s][1] /\ 1 \in 1 .. Len(stdout[s])
    BY <2>3, HeadTailProperties, LenProperties, EmptySeq
  <2>5. CASE Parses(Head(stdout[s])) /\ Succeeds(Head(stdout[s])) /\ initialized' = [initialized EXCEPT ![s] = TRUE]
    <3>1. Greeting(Head(stdout[s]))
      BY <2>3, <2>5 DEF Parses, Succeeds, Greeting
    <3>2. greeted[s]
      BY <2>4, <3>1 DEF GreetingsAreTold
    <3> QED
      BY <1>0, <2>1, <2>2, <2>5, <3>2 DEF InitializedMeansGreeted
  <2>6. CASE UNCHANGED initialized
    BY <2>1, <2>2, <2>6 DEF InitializedMeansGreeted
  <2> QED
    BY <1>4, <2>5, <2>6 DEF Initialized
<1>5. ASSUME NEW s \in Servers, Listed(s) \/ Called(s)
      PROVE  (GreetingsAreTold /\ InitializedMeansGreeted)'
  <2>1. UNCHANGED <<process, greeted, initialized>> /\ \E method \in Methods : Take(s, method)
    BY <1>5 DEF Listed, Called, Take, Methods
  <2>2. GreetingsAreTold'
    BY <1>3, <2>1
  <2> QED
    BY <2>1, <2>2 DEF InitializedMeansGreeted
<1>6. ASSUME NEW s \in Servers, ShutdownServer(s)
      PROVE  (GreetingsAreTold /\ InitializedMeansGreeted)'
  BY <1>0, <1>6 DEF ShutdownServer, GreetingsAreTold, InitializedMeansGreeted
<1>7. ASSUME NEW s \in Servers, NEW frame \in Frames, Say(s, frame),
             \A q \in Servers : greeted[q] => greeted'[q], Greeting(frame) => greeted'[s]
      PROVE  GreetingsAreTold'
  <2>1. /\ Len(Append(stdout[s], frame)) = Len(stdout[s]) + 1 /\ Len(stdout[s]) \in Nat
        /\ \A k \in 1 .. Len(stdout[s]) : Append(stdout[s], frame)[k] = stdout[s][k]
        /\ Append(stdout[s], frame)[Len(stdout[s]) + 1] = frame
    BY <1>0, AppendProperties, LenProperties
  <2>2. stdout' = [stdout EXCEPT ![s] = Append(@, frame)]
    BY <1>7 DEF Say
  <2> SUFFICES ASSUME NEW q \in Servers, NEW k \in 1 .. Len(stdout'[q]), Greeting(stdout'[q][k])
               PROVE  greeted'[q]
    BY DEF GreetingsAreTold, Greeting, Succeeds
  <2>3. CASE q = s /\ k = Len(stdout[s]) + 1
    BY <1>0, <1>7, <2>1, <2>2, <2>3
  <2>4. CASE q = s /\ k # Len(stdout[s]) + 1
    <3>1. k \in 1 .. Len(stdout[s]) /\ stdout'[q][k] = stdout[s][k]
      BY <1>0, <2>1, <2>2, <2>4
    <3> QED
      BY <1>7, <2>4, <3>1 DEF GreetingsAreTold
  <2>5. CASE q # s
    BY <1>0, <1>7, <2>2, <2>5 DEF GreetingsAreTold
  <2> QED
    BY <2>3, <2>4, <2>5
<1>8. ASSUME NEW s \in Servers, Answer(s)
      PROVE  (GreetingsAreTold /\ InitializedMeansGreeted)'
  <2>1. UNCHANGED <<process, initialized>> /\ \A q \in Servers : greeted[q] => greeted'[q]
    BY <1>0, <1>8 DEF Answer
  <2>2. Head(stdin[s]) \in Requests
    <3>1. stdin[s] \in Seq(Requests) /\ stdin[s] # <<>>
      BY <1>8 DEF Answer, TypeInv, PipesTyped
    <3> QED
      BY <3>1, HeadTailProperties
  <2>3. PICK frame \in Frames : Say(s, frame) /\ (Greeting(frame) => greeted'[s])
    <3>1. PICK ok \in BOOLEAN, tools \in SUBSET RawTools, more \in BOOLEAN :
            /\ Say(s, [kind |-> "answer", id |-> Head(stdin[s]).id, method |-> Head(stdin[s]).method,
                       ok |-> ok, tools |-> tools, more |-> more])
            /\ greeted' = [greeted EXCEPT ![s] = @ \/ (Head(stdin[s]).method = "initialize" /\ ok)]
      BY <1>8 DEF Answer
    <3> DEFINE frame == [kind |-> "answer", id |-> Head(stdin[s]).id, method |-> Head(stdin[s]).method,
                         ok |-> ok, tools |-> tools, more |-> more]
    <3>2. frame \in Frames
      BY <2>2 DEF Frames, Requests
    <3>3. Greeting(frame) => Head(stdin[s]).method = "initialize" /\ ok
      BY DEF Greeting, Succeeds
    <3>4. Greeting(frame) => greeted'[s]
      BY <1>0, <3>1, <3>3
    <3> QED
      BY <3>1, <3>2, <3>4
  <2> QED
    BY <1>7, <2>1, <2>3 DEF InitializedMeansGreeted
<1>9. ASSUME NEW s \in Servers, SpeakUnasked(s)
      PROVE  (GreetingsAreTold /\ InitializedMeansGreeted)'
  <2>1. UNCHANGED <<process, initialized, greeted>> /\ \E frame \in {Notice, Ask} : Say(s, frame)
    BY <1>9 DEF SpeakUnasked
  <2>2. \A frame \in {Notice, Ask} : frame \in Frames /\ ~Greeting(frame)
    BY DEF Frames, Greeting, Succeeds, Notice, Ask
  <2> QED
    BY <1>7, <2>1, <2>2 DEF InitializedMeansGreeted
<1>10. ASSUME NEW s \in Servers, Die(s)
       PROVE  (GreetingsAreTold /\ InitializedMeansGreeted)'
  BY <1>0, <1>10 DEF Die, GreetingsAreTold, InitializedMeansGreeted
<1>11. CASE \/ Begins \/ UNCHANGED vars
            \/ \E s \in Servers : \/ SpawnFails(s) \/ Initialize(s) \/ ListFirstPage(s) \/ ListNextPage(s)
                                  \/ CallTool(s) \/ ReadEof(s) \/ ShutdownFails(s)
  <2>1. UNCHANGED <<process, stdout, greeted, initialized>>
    BY <1>11 DEF Begins, BeginDiscover, BeginCall, BeginShutdown, Begin, vars, SpawnFails, Initialize,
       ListFirstPage, ListNextPage, CallTool, ReadEof, ShutdownFails
  <2> QED
    BY <1>1, <2>1
<1> QED
  BY <1>2, <1>4, <1>5, <1>6, <1>8, <1>9, <1>10, <1>11 DEF Next, ManagerStep, ChildStep

(* Every route is of the last list of its server.                          *)
LEMMA RoutesStep == TypeInv /\ RoutesAreCurrent /\ [Next]_vars => RoutesAreCurrent'
<1> SUFFICES ASSUME TypeInv, RoutesAreCurrent, [Next]_vars
             PROVE  RoutesAreCurrent'
  OBVIOUS
<1>0. /\ listed \in [Servers -> SUBSET RawTools]
      /\ \A n \in DOMAIN toolIndex : toolIndex[n] \in [server : Servers, raw : RawTools]
  BY DEF TypeInv, RoutesTyped
<1>1. CASE UNCHANGED <<toolIndex, listed>>
  BY <1>1 DEF RoutesAreCurrent
<1>2. ASSUME NEW s \in Servers, ListFirstPage(s)
      PROVE  RoutesAreCurrent'
  <2>1. /\ DOMAIN toolIndex' = {n \in DOMAIN toolIndex : toolIndex[n].server # s}
        /\ \A n \in DOMAIN toolIndex' : toolIndex'[n] = toolIndex[n]
        /\ listed' = [listed EXCEPT ![s] = {}]
    BY <1>2, ClearedRoutes DEF ListFirstPage
  <2> QED
    BY <1>0, <2>1 DEF RoutesAreCurrent
<1>3. ASSUME NEW s \in Servers, NEW tools \in SUBSET RawTools, toolIndex' = Routes(s, tools),
             listed' = [listed EXCEPT ![s] = @ \cup tools]
      PROVE  RoutesAreCurrent'
  <2>1. \A n \in DOMAIN toolIndex' :
          \/ toolIndex'[n] \in [server : {s}, raw : tools] /\ Qualified[s][toolIndex'[n].raw] = n
          \/ n \in DOMAIN toolIndex /\ toolIndex'[n] = toolIndex[n]
    BY <1>3, RoutesAreThose
  <2> SUFFICES ASSUME NEW n \in DOMAIN toolIndex'
               PROVE  /\ toolIndex'[n].raw \in listed'[toolIndex'[n].server]
                      /\ Qualified[toolIndex'[n].server][toolIndex'[n].raw] = n
    BY DEF RoutesAreCurrent
  <2>2. CASE toolIndex'[n] \in [server : {s}, raw : tools] /\ Qualified[s][toolIndex'[n].raw] = n
    BY <1>0, <1>3, <2>2
  <2>3. CASE n \in DOMAIN toolIndex /\ toolIndex'[n] = toolIndex[n]
    BY <1>0, <1>3, <2>3 DEF RoutesAreCurrent
  <2> QED
    BY <2>1, <2>2, <2>3
<1>4. ASSUME NEW s \in Servers, Listed(s)
      PROVE  RoutesAreCurrent'
  <2>1. Succeeds(Head(stdout[s])) => Head(stdout[s]).tools \in SUBSET RawTools
    BY <1>4, TakeTyped DEF Listed, Methods
  <2> QED
    BY <1>1, <1>3, <1>4, <2>1 DEF Listed
<1>5. CASE \/ Begins \/ UNCHANGED vars
           \/ \E s \in Servers : \/ Spawn(s) \/ SpawnFails(s) \/ Initialize(s) \/ ListNextPage(s) \/ CallTool(s)
                                 \/ Initialized(s) \/ Called(s) \/ ReadEof(s)
                                 \/ ShutdownServer(s) \/ ShutdownFails(s) \/ ChildStep(s)
  <2>1. UNCHANGED <<toolIndex, listed>>
    BY <1>5 DEF Begins, BeginDiscover, BeginCall, BeginShutdown, Begin, vars, history, Spawn, SpawnFails,
       Initialize, ListNextPage, CallTool, Initialized, Called, ReadEof, ShutdownServer, ShutdownFails,
       ChildStep, Answer, SpeakUnasked, Die
  <2> QED
    BY <1>1, <2>1
<1> QED
  BY <1>2, <1>4, <1>5 DEF Next, ManagerStep

(* What a discovery has found stays callable, to its end and after it.     *)
LEMMA DiscoveryStep ==
  TypeInv /\ DiscoveredSoFar /\ DiscoveredIsCallable /\ [Next]_vars
    => (DiscoveredSoFar /\ DiscoveredIsCallable)'
<1> SUFFICES ASSUME TypeInv, DiscoveredSoFar, DiscoveredIsCallable, [Next]_vars
             PROVE  (DiscoveredSoFar /\ DiscoveredIsCallable)'
  OBVIOUS
<1> USE DEF history, children, manager
<1>0. /\ listed \in [Servers -> SUBSET RawTools]
      /\ \A n \in DOMAIN toolIndex : toolIndex[n] \in [server : Servers, raw : RawTools]
  BY DEF TypeInv, RoutesTyped
<1>1. CASE UNCHANGED <<op, todo, at, toolIndex, listed, ended>>
  BY <1>1 DEF DiscoveredSoFar, DiscoveredIsCallable, ToClear, Current
<1>2. CASE Begins
  <2>1. op' # "idle" /\ UNCHANGED <<toolIndex, listed>>
    BY <1>2 DEF Begins, BeginDiscover, BeginCall, BeginShutdown, Begin
  <2>2. op' = "discover" => ToClear' = Servers
    BY <1>2, OrderCoversServers DEF Begins, BeginDiscover, BeginCall, BeginShutdown, Begin, ToClear
  <2> QED
    BY <2>1, <2>2 DEF DiscoveredSoFar, DiscoveredIsCallable
<1>3. ASSUME op # "idle", NEW how \in {"ok", "error"}, End(how), how = "ok" => op # "discover"
      PROVE  (DiscoveredSoFar /\ DiscoveredIsCallable)'
  BY <1>3 DEF End, DiscoveredSoFar, DiscoveredIsCallable
<1>4. ASSUME NEW s \in Servers, SpawnFails(s) \/ ReadEof(s) \/ ShutdownFails(s)
      PROVE  (DiscoveredSoFar /\ DiscoveredIsCallable)'
  BY <1>3, <1>4 DEF SpawnFails, ReadEof, ShutdownFails, Visiting, Awaiting
<1>5. ASSUME NEW s \in Servers, Initialize(s) \/ ListNextPage(s) \/ CallTool(s)
      PROVE  (DiscoveredSoFar /\ DiscoveredIsCallable)'
  <2>1. /\ op # "idle" /\ UNCHANGED <<toolIndex, listed>>
        /\ \/ at = "ready" /\ Request(s, "initialize")
           \/ at = "page" /\ Request(s, "list")
           \/ op = "call" /\ Request(s, "call")
    BY <1>5 DEF Initialize, ListNextPage, CallTool, Visiting
  <2>2. CASE End("error")
    BY <1>3, <2>1, <2>2
  <2>3. CASE UNCHANGED <<op, todo, tool, ended>>
    <3>1. op' = "discover" => ToClear' = ToClear
      <4>1. \/ op = "call"
            \/ at = "ready" /\ at' = "initialize"
            \/ at = "page" /\ at' = "list"
            \/ End("error")
        BY <2>1 DEF Request
      <4>2. op # "idle" /\ op' = op /\ todo' = todo
        BY <2>1, <2>3
      <4> QED
        BY <4>1, <4>2 DEF ToClear, Current, End
    <3> QED
      BY <2>1, <2>3, <3>1 DEF DiscoveredSoFar, DiscoveredIsCallable
  <2> QED
    BY <2>1, <2>2, <2>3 DEF Request
<1>6. ASSUME NEW s \in Servers, ListFirstPage(s)
      PROVE  (DiscoveredSoFar /\ DiscoveredIsCallable)'
  <2>1. /\ op = "discover" /\ at = "ready" /\ s = Current /\ Request(s, "list")
        /\ DOMAIN toolIndex' = {n \in DOMAIN toolIndex : toolIndex[n].server # s}
        /\ \A n \in DOMAIN toolIndex' : toolIndex'[n] = toolIndex[n]
        /\ listed' = [listed EXCEPT ![s] = {}]
    BY <1>6, ClearedRoutes DEF ListFirstPage, Visiting
  <2>2. CASE End("error")
    BY <1>3, <2>1, <2>2
  <2>3. CASE at' = "list" /\ UNCHANGED <<op, todo, tool, ended>>
    <3>1. ToClear' = ToSet(todo) \ {s} /\ ToClear = ToSet(todo) /\ s \in ToClear
      BY <2>1, <2>3, RestOfTheTour DEF ToClear, Current
    <3>2. ASSUME NEW v \in Servers \ ToClear', NEW t \in listed'[v]
          PROVE  /\ Qualified[v][t] \in DOMAIN toolIndex'
                 /\ toolIndex'[Qualified[v][t]].server \notin ToClear'
      <4>1. v # s
        BY <1>0, <2>1, <3>2
      <4>2. v \in Servers \ ToClear /\ t \in listed[v]
        BY <1>0, <2>1, <3>1, <3>2, <4>1
      <4>3. /\ Qualified[v][t] \in DOMAIN toolIndex
            /\ toolIndex[Qualified[v][t]].server \notin ToClear
        BY <2>1, <4>2 DEF DiscoveredSoFar
      <4>4. Qualified[v][t] \in DOMAIN toolIndex'
        BY <2>1, <3>1, <4>3
      <4> QED
        BY <2>1, <3>1, <4>3, <4>4
    <3>3. DiscoveredSoFar'
      BY <3>2 DEF DiscoveredSoFar
    <3> QED
      BY <2>1, <2>3, <3>3 DEF DiscoveredIsCallable
  <2> QED
    BY <2>1, <2>2, <2>3 DEF Request
<1>7. ASSUME NEW s \in Servers, Initialized(s)
      PROVE  (DiscoveredSoFar /\ DiscoveredIsCallable)'
  <2>1. op # "idle" /\ at = "initialize" /\ UNCHANGED <<toolIndex, listed>>
    BY <1>7 DEF Initialized, Take, Visiting
  <2>2. CASE End("error")
    BY <1>3, <2>1, <2>2
  <2>3. CASE at' = "ready" /\ UNCHANGED <<op, todo, tool, ended>>
    BY <2>1, <2>3 DEF DiscoveredSoFar, DiscoveredIsCallable, ToClear
  <2> QED
    BY <1>7, <2>2, <2>3 DEF Initialized
<1>8. ASSUME NEW s \in Servers, Listed(s)
      PROVE  (DiscoveredSoFar /\ DiscoveredIsCallable)'
  <2>1. Take(s, "list") /\ op # "idle" /\ s = Current /\ at = "list"
        /\ (Succeeds(Head(stdout[s])) => Head(stdout[s]).tools \in SUBSET RawTools)
    BY <1>8, TakeTyped DEF Listed, Take, Methods
  <2>2. CASE End("error")
    BY <1>3, <2>1, <2>2
  <2>3. ASSUME NEW tools \in SUBSET RawTools, toolIndex' = Routes(s, tools),
               listed' = [listed EXCEPT ![s] = @ \cup tools],
               (at' = "page" /\ UNCHANGED <<op, todo, tool, ended>>) \/ NextServer
        PROVE  (DiscoveredSoFar /\ DiscoveredIsCallable)'
    <3>1. /\ DOMAIN toolIndex' = DOMAIN toolIndex \cup {Qualified[s][t] : t \in tools}
          /\ \A n \in DOMAIN toolIndex' :
               \/ toolIndex'[n] \in [server : {s}, raw : tools]
               \/ n \in DOMAIN toolIndex /\ toolIndex'[n] = toolIndex[n]
      BY <2>3, RoutesAreThose
    <3>2. ToClear = ToSet(todo) \ {s} /\ ToSet(Tail(todo)) = ToClear
      BY <2>1, RestOfTheTour DEF ToClear
    <3>3. ASSUME op = "discover", NEW v \in Servers \ ToClear, NEW t \in listed'[v]
          PROVE  Qualified[v][t] \in DOMAIN toolIndex' /\ toolIndex'[Qualified[v][t]].server \notin ToClear
      <4>1. CASE v = s /\ t \in tools
        <5>1. Qualified[v][t] \in DOMAIN toolIndex'
          BY <3>1, <4>1
        <5>2. toolIndex'[Qualified[v][t]].server = s
          BY <2>3, <4>1, <5>1 DEF Routes
        <5> QED
          BY <3>2, <5>1, <5>2
      <4>2. CASE t \in listed[v]
        <5>1. /\ Qualified[v][t] \in DOMAIN toolIndex
              /\ toolIndex[Qualified[v][t]].server \notin ToClear
          BY <3>3, <4>2 DEF DiscoveredSoFar
        <5>2. \/ toolIndex'[Qualified[v][t]].server = s
              \/ toolIndex'[Qualified[v][t]] = toolIndex[Qualified[v][t]]
          BY <3>1, <5>1
        <5> QED
          BY <3>1, <3>2, <5>1, <5>2
      <4> QED
        BY <1>0, <2>3, <3>3, <4>1, <4>2
    <3>4. CASE at' = "page" /\ UNCHANGED <<op, todo, tool, ended>>
      <4>1. ToClear' = ToClear
        BY <2>1, <3>4 DEF ToClear, Current
      <4> QED
        BY <2>1, <3>3, <3>4, <4>1 DEF DiscoveredSoFar, DiscoveredIsCallable
    <3>5. CASE NextServer /\ Len(todo) # 1
      <4>1. ToClear' = ToClear /\ UNCHANGED <<op, ended>>
        BY <3>2, <3>5 DEF NextServer, ToClear
      <4> QED
        BY <2>1, <3>3, <4>1 DEF DiscoveredSoFar, DiscoveredIsCallable
    <3>6. CASE NextServer /\ Len(todo) = 1
      <4>1. End("ok") /\ ToClear = {}
        BY <2>1, <3>2, <3>6, RestOfTheTour DEF NextServer
      <4>2. CASE op = "discover"
        BY <3>3, <4>1, <4>2 DEF End, DiscoveredSoFar, DiscoveredIsCallable
      <4> QED
        BY <1>3, <2>1, <4>1, <4>2
    <3> QED
      BY <2>3, <3>4, <3>5, <3>6
  <2> QED
    BY <1>8, <2>1, <2>2, <2>3 DEF Listed
<1>9. ASSUME NEW s \in Servers, Called(s)
      PROVE  (DiscoveredSoFar /\ DiscoveredIsCallable)'
  <2>1. op = "call" /\ \E how \in {"ok", "error"} : End(how)
    BY <1>9 DEF Called, Take, TypeInv, ManagerTyped
  <2> QED
    BY <1>3, <2>1
<1>10. ASSUME NEW s \in Servers, ShutdownServer(s)
       PROVE  (DiscoveredSoFar /\ DiscoveredIsCallable)'
  <2>1. op = "shutdown" /\ NextServer
    BY <1>10 DEF ShutdownServer
  <2>2. CASE End("ok")
    BY <1>3, <2>1, <2>2
  <2>3. CASE UNCHANGED op
    BY <2>1, <2>3 DEF DiscoveredSoFar, DiscoveredIsCallable
  <2> QED
    BY <2>1, <2>2, <2>3 DEF NextServer
<1>11. CASE UNCHANGED vars \/ \E s \in Servers : Spawn(s) \/ ChildStep(s)
  <2>1. UNCHANGED <<op, todo, at, toolIndex, listed, ended>>
    BY <1>11 DEF vars, Spawn, ChildStep, Answer, SpeakUnasked, Die
  <2> QED
    BY <1>1, <2>1
<1> QED
  BY <1>2, <1>4, <1>5, <1>6, <1>7, <1>8, <1>9, <1>10, <1>11 DEF Next, ManagerStep

(* A shutdown leaves no process behind it.                                 *)
LEMMA ShutdownStep ==
  TypeInv /\ StoppedSoFar /\ ShutdownLeavesNothing /\ [Next]_vars
    => (StoppedSoFar /\ ShutdownLeavesNothing)'
<1> SUFFICES ASSUME TypeInv, StoppedSoFar, ShutdownLeavesNothing, [Next]_vars
             PROVE  (StoppedSoFar /\ ShutdownLeavesNothing)'
  OBVIOUS
<1> USE DEF history, children, manager
<1>0. /\ initialized \in [Servers -> BOOLEAN] /\ process \in [Servers -> {"none", "up", "dead"}]
  BY DEF TypeInv, PipesTyped, RoutesTyped
<1>1. CASE Begins
  <2>1. op' # "idle" /\ (op' = "shutdown" => ToSet(todo)' = Servers)
    BY <1>1, OrderCoversServers DEF Begins, BeginDiscover, BeginCall, BeginShutdown, Begin
  <2> QED
    BY <2>1 DEF StoppedSoFar, ShutdownLeavesNothing
<1>2. ASSUME op \in {"discover", "call"}, UNCHANGED op \/ \E how \in {"ok", "error"} : End(how)
      PROVE  (StoppedSoFar /\ ShutdownLeavesNothing)'
  BY <1>2 DEF End, StoppedSoFar, ShutdownLeavesNothing
<1>3. ASSUME NEW s \in Servers,
             \/ Spawn(s) \/ SpawnFails(s) \/ Initialize(s) \/ ListFirstPage(s) \/ ListNextPage(s)
             \/ CallTool(s) \/ Initialized(s) \/ Listed(s) \/ Called(s) \/ ReadEof(s)
      PROVE  (StoppedSoFar /\ ShutdownLeavesNothing)'
  <2>1. Visiting(s)
    BY <1>3 DEF Spawn, SpawnFails, Initialize, ListFirstPage, ListNextPage, CallTool, Initialized,
       Listed, Called, Take, ReadEof, Awaiting
  <2>2. UNCHANGED op \/ \E how \in {"ok", "error"} : End(how)
    BY <1>3 DEF Spawn, SpawnFails, Initialize, ListFirstPage, ListNextPage, CallTool, Initialized,
       Listed, Called, ReadEof, Request, NextServer
  <2> QED
    BY <1>2, <2>1, <2>2 DEF Visiting
<1>4. ASSUME NEW s \in Servers, ShutdownServer(s)
      PROVE  (StoppedSoFar /\ ShutdownLeavesNothing)'
  <2>1. /\ op = "shutdown" /\ s = Current /\ NextServer
        /\ process' = [process EXCEPT ![s] = "none"] /\ initialized' = [initialized EXCEPT ![s] = FALSE]
    BY <1>4 DEF ShutdownServer
  <2>2. \A q \in (Servers \ ToSet(todo)) \cup {s} : process'[q] = "none" /\ ~initialized'[q]
    BY <1>0, <2>1 DEF StoppedSoFar
  <2>3. CASE Len(todo) = 1
    <3>1. End("ok") /\ ToSet(todo) \ {s} = {}
      BY <2>1, <2>3, RestOfTheTour DEF NextServer
    <3>2. \A q \in Servers : process'[q] = "none" /\ ~initialized'[q]
      BY <2>2, <3>1
    <3> QED
      BY <3>1, <3>2 DEF End, StoppedSoFar, ShutdownLeavesNothing
  <2>4. CASE Len(todo) # 1
    <3>1. op' = op /\ ToSet(todo') = ToSet(todo) \ {s}
      BY <2>1, <2>4, RestOfTheTour DEF NextServer
    <3> QED
      BY <2>1, <2>2, <3>1 DEF StoppedSoFar, ShutdownLeavesNothing
  <2> QED
    BY <2>3, <2>4
<1>5. ASSUME NEW s \in Servers, ShutdownFails(s)
      PROVE  (StoppedSoFar /\ ShutdownLeavesNothing)'
  BY <1>5 DEF ShutdownFails, End, StoppedSoFar, ShutdownLeavesNothing
<1>6. ASSUME NEW s \in Servers, ChildStep(s)
      PROVE  (StoppedSoFar /\ ShutdownLeavesNothing)'
  <2>1. /\ UNCHANGED <<op, todo, ended, initialized>>
        /\ \A q \in Servers : process[q] = "none" => process'[q] = "none"
    BY <1>0, <1>6 DEF ChildStep, Answer, SpeakUnasked, Die
  <2> QED
    BY <2>1 DEF StoppedSoFar, ShutdownLeavesNothing
<1>7. CASE UNCHANGED vars
  BY <1>7 DEF vars, StoppedSoFar, ShutdownLeavesNothing
<1> QED
  BY <1>1, <1>3, <1>4, <1>5, <1>6, <1>7 DEF Next, ManagerStep

-----------------------------------------------------------------------------
(* While no answer is awaited, nothing of a quiet child is under way.      *)
LEMMA NothingUnderWay ==
  ASSUME QuietPipes, at \notin Methods \/ op \in {"idle", "shutdown"}
  PROVE  \A s \in Servers : noise[s] = 0 => stdin[s] = <<>> /\ stdout[s] = <<>>
BY DEF QuietPipes, OneIsUnderWay, Awaiting, Visiting

LEMMA OthersAreQuiet ==
  ASSUME QuietPipes, NEW s \in Servers, s = Current
  PROVE  \A q \in Servers \ {s} : noise[q] = 0 => stdin[q] = <<>> /\ stdout[q] = <<>>
BY DEF QuietPipes, OneIsUnderWay, Awaiting, Visiting

(* A request to a quiet child is the only thing under way.                 *)
LEMMA RequestIsAlone ==
  ASSUME TypeInv, QuietPipes, NEW s \in Servers, Visiting(s), at \notin Methods,
         NEW method \in Methods, Request(s, method), UNCHANGED <<process, stdout, noise>>
  PROVE  QuietPipes'
<1>1. \A q \in Servers : noise[q] = 0 => stdin[q] = <<>> /\ stdout[q] = <<>>
  BY NothingUnderWay
<1>2. stdin \in [Servers -> Seq(Requests)] /\ exchange'.id = nextId
  BY DEF TypeInv, PipesTyped, Request
<1>3. CASE process[s] # "up"
  BY <1>1, <1>3 DEF Request, QuietPipes, OneIsUnderWay
<1>4. CASE process[s] = "up"
  <2> DEFINE request == [id |-> nextId, method |-> method]
  <2>1. /\ stdin' = [stdin EXCEPT ![s] = Append(@, request)] /\ at' = method /\ UNCHANGED <<op, todo>>
    BY <1>4 DEF Request
  <2>2. Awaiting(s)'
    BY <2>1 DEF Awaiting, Visiting, Current
  <2>3. noise[s] = 0 => stdin'[s] = <<request>>
    <3>1. stdin'[s] = Append(stdin[s], request)
      BY <1>2, <2>1, Zenon
    <3>2. \A x : Append(<<>>, x) = <<x>>
      OBVIOUS
    <3> QED
      BY <1>1, <3>1, <3>2, Zenon
  <2>4. noise[s] = 0 => OneIsUnderWay(s)'
    <3>1. Len(<<request>>) = 1 /\ Head(<<request>>).id = nextId
      OBVIOUS
    <3> QED
      BY <1>1, <1>2, <2>2, <2>3, <3>1 DEF OneIsUnderWay
  <2>5. \A q \in Servers \ {s} : stdin'[q] = stdin[q]
    BY <1>2, <2>1
  <2>6. \A q \in Servers \ {s} : noise[q] = 0 => OneIsUnderWay(q)'
    BY <1>1, <2>5 DEF OneIsUnderWay
  <2> QED
    BY <1>4, <2>4, <2>5, <2>6 DEF QuietPipes
<1> QED
  BY <1>3, <1>4

(* What is taken from a quiet child is the answer to the last request, and *)
(* leaves nothing under way.                                               *)
LEMMA TakenIsTheAnswer ==
  ASSUME TypeInv, QuietPipes, NEW s \in Servers, NEW method \in Methods, Take(s, method)
  PROVE  /\ noise[s] = 0 => AnswersTheLast(Head(stdout[s]))
         /\ QuietPipes'
<1>1. /\ s = Current /\ stdout[s] # <<>> /\ stdout' = [stdout EXCEPT ![s] = Tail(@)]
      /\ UNCHANGED <<process, stdin, noise>>
  BY DEF Take, Visiting
<1>2. stdout \in [Servers -> Seq(Frames)]
  BY DEF TypeInv, PipesTyped
<1>3. noise[s] = 0 => stdin[s] = <<>> /\ Len(stdout[s]) = 1 /\ AnswersTheLast(Head(stdout[s]))
  BY <1>1 DEF QuietPipes, OneIsUnderWay
<1>4. noise[s] = 0 => stdout'[s] = <<>>
  BY <1>1, <1>2, <1>3
<1>5. \A q \in Servers \ {s} : noise[q] = 0 => stdin'[q] = <<>> /\ stdout'[q] = <<>>
  BY <1>1, <1>2, OthersAreQuiet
<1>6. QuietPipes'
  BY <1>1, <1>3, <1>4, <1>5 DEF QuietPipes, OneIsUnderWay
<1> QED
  BY <1>3, <1>6

LEMMA PipesStep == TypeInv /\ QuietPipes /\ [Next]_vars => QuietPipes'
<1> SUFFICES ASSUME TypeInv, QuietPipes, [Next]_vars
             PROVE  QuietPipes'
  OBVIOUS
<1> USE DEF history, children, manager
<1>0. /\ stdin \in [Servers -> Seq(Requests)] /\ stdout \in [Servers -> Seq(Frames)]
      /\ noise \in [Servers -> 0 .. MaxNoise] /\ process \in [Servers -> {"none", "up", "dead"}]
  BY DEF TypeInv, PipesTyped
<1>1. ASSUME at \notin Methods \/ op \in {"idle", "shutdown"}, UNCHANGED children
      PROVE  QuietPipes'
  BY <1>1, NothingUnderWay DEF QuietPipes, OneIsUnderWay
<1>2. CASE Begins
  BY <1>1, <1>2 DEF Begins, BeginDiscover, BeginCall, BeginShutdown, Begin
<1>3. ASSUME NEW s \in Servers, SpawnFails(s) \/ ShutdownFails(s)
      PROVE  QuietPipes'
  BY <1>1, <1>3 DEF SpawnFails, ShutdownFails, Methods
<1>4. ASSUME NEW s \in Servers, Spawn(s)
      PROVE  QuietPipes'
  <2>1. \A q \in Servers : noise[q] = 0 => stdin[q] = <<>> /\ stdout[q] = <<>>
    BY <1>4, NothingUnderWay DEF Spawn, Methods
  <2> QED
    BY <1>0, <1>4, <2>1 DEF Spawn, QuietPipes, OneIsUnderWay
<1>5. ASSUME NEW s \in Servers, Initialize(s) \/ ListFirstPage(s) \/ ListNextPage(s) \/ CallTool(s)
      PROVE  QuietPipes'
  <2>1. /\ Visiting(s) /\ at \notin Methods /\ UNCHANGED <<process, stdout, noise>>
        /\ \E method \in Methods : Request(s, method)
    BY <1>5 DEF Initialize, ListFirstPage, ListNextPage, CallTool, Methods
  <2> QED
    BY <2>1, RequestIsAlone
<1>6. ASSUME NEW s \in Servers, Initialized(s) \/ Listed(s) \/ Called(s)
      PROVE  QuietPipes'
  <2>1. \E method \in Methods : Take(s, method)
    BY <1>6 DEF Initialized, Listed, Called, Methods
  <2> QED
    BY <2>1, TakenIsTheAnswer
<1>7. ASSUME NEW s \in Servers, ReadEof(s)
      PROVE  QuietPipes'
  <2>1. s = Current /\ stdout[s] = <<>> /\ stdin[s] = <<>> /\ UNCHANGED children
    BY <1>7 DEF ReadEof, Awaiting, Visiting, QuietPipes
  <2> QED
    BY <2>1, OthersAreQuiet DEF QuietPipes, OneIsUnderWay
<1>8. ASSUME NEW s \in Servers, ShutdownServer(s)
      PROVE  QuietPipes'
  <2>1. \A q \in Servers : noise[q] = 0 => stdin[q] = <<>> /\ stdout[q] = <<>>
    BY <1>8, NothingUnderWay DEF ShutdownServer
  <2> QED
    BY <1>0, <1>8, <2>1 DEF ShutdownServer, QuietPipes, OneIsUnderWay
<1>9. ASSUME NEW s \in Servers, UNCHANGED <<op, todo, at, exchange>>,
             \A q \in Servers \ {s} : /\ stdin'[q] = stdin[q] /\ stdout'[q] = stdout[q]
                                      /\ noise'[q] = noise[q] /\ process'[q] = process[q],
             process'[s] # "up" => stdin'[s] = <<>>, noise'[s] = 0 => OneIsUnderWay(s)'
      PROVE  QuietPipes'
  <2>1. \A q \in Servers : Awaiting(q)' = Awaiting(q)
    BY <1>9 DEF Awaiting, Visiting, Current
  <2>2. \A q \in Servers \ {s} : OneIsUnderWay(q)' <=> OneIsUnderWay(q)
    BY <1>9, <2>1 DEF OneIsUnderWay, AnswersTheLast
  <2> QED
    BY <1>9, <2>2 DEF QuietPipes
<1>10. ASSUME NEW s \in Servers, Answer(s)
       PROVE  QuietPipes'
  <2>1. PICK frame : /\ stdout' = [stdout EXCEPT ![s] = Append(@, frame)]
                     /\ frame.kind = "answer" /\ frame.id = Head(stdin[s]).id
    <3>1. PICK ok \in BOOLEAN, tools \in SUBSET RawTools, more \in BOOLEAN :
            Say(s, [kind |-> "answer", id |-> Head(stdin[s]).id, method |-> Head(stdin[s]).method,
                    ok |-> ok, tools |-> tools, more |-> more])
      BY <1>10, Zenon DEF Answer
    <3> DEFINE said == [kind |-> "answer", id |-> Head(stdin[s]).id,
                        method |-> Head(stdin[s]).method, ok |-> ok, tools |-> tools, more |-> more]
    <3>2. said.kind = "answer" /\ said.id = Head(stdin[s]).id
      OBVIOUS
    <3>3. stdout' = [stdout EXCEPT ![s] = Append(@, said)]
      BY <3>1, Zenon DEF Say
    <3> HIDE DEF said
    <3> QED
      BY <3>2, <3>3
  <2>2. /\ process[s] = "up" /\ stdin[s] # <<>> /\ stdin' = [stdin EXCEPT ![s] = Tail(@)]
        /\ UNCHANGED <<process, noise, op, todo, at, exchange>>
    BY <1>10 DEF Answer
  <2>3. ASSUME noise[s] = 0
        PROVE  OneIsUnderWay(s)'
    <3>1. Awaiting(s) /\ stdout[s] = <<>> /\ Len(stdin[s]) = 1 /\ Head(stdin[s]).id = exchange.id
      BY <2>2, <2>3 DEF QuietPipes, OneIsUnderWay
    <3>2. stdin'[s] = <<>>
      <4>1. stdin[s] \in Seq(Requests) /\ stdin'[s] = Tail(stdin[s])
        BY <1>0, <2>2
      <4>2. Tail(stdin[s]) \in Seq(Requests) /\ Len(Tail(stdin[s])) = 0
        BY <2>2, <3>1, <4>1, HeadTailProperties
      <4> QED
        BY <4>1, <4>2, EmptySeq
    <3>3. stdout'[s] = <<frame>>
      BY <1>0, <2>1, <3>1
    <3>4. Awaiting(s)' /\ AnswersTheLast(frame)'
      BY <2>1, <2>2, <3>1 DEF Awaiting, Visiting, Current, AnswersTheLast
    <3>5. Len(<<frame>>) = 1 /\ Head(<<frame>>) = frame
      OBVIOUS
    <3> QED
      BY <3>2, <3>3, <3>4, <3>5 DEF OneIsUnderWay, AnswersTheLast
  <2> QED
    BY <1>0, <1>9, <2>1, <2>2, <2>3
<1>11. ASSUME NEW s \in Servers, SpeakUnasked(s)
       PROVE  QuietPipes'
  <2>1. PICK frame : stdout' = [stdout EXCEPT ![s] = Append(@, frame)]
    BY <1>11 DEF SpeakUnasked, Say
  <2>2. noise' = [noise EXCEPT ![s] = @ + 1] /\ UNCHANGED <<process, stdin, op, todo, at, exchange>>
    BY <1>11 DEF SpeakUnasked
  <2>3. noise'[s] # 0
    BY <1>0, <2>2, McpManagerAssumption
  <2> QED
    BY <1>0, <1>9, <2>1, <2>2, <2>3 DEF QuietPipes
<1>12. ASSUME NEW s \in Servers, Die(s)
       PROVE  QuietPipes'
  <2>1. /\ process' = [process EXCEPT ![s] = "dead"] /\ stdin' = [stdin EXCEPT ![s] = <<>>]
        /\ UNCHANGED <<stdout, noise, op, todo, at, exchange>>
    BY <1>12 DEF Die
  <2>2. noise[s] = 0 => OneIsUnderWay(s)'
    BY <1>0, <2>1 DEF QuietPipes, OneIsUnderWay, Awaiting, Visiting, Current, AnswersTheLast
  <2> QED
    BY <1>0, <1>9, <2>1, <2>2
<1>13. CASE UNCHANGED vars
  BY <1>13 DEF vars, QuietPipes, OneIsUnderWay, Awaiting, Visiting, Current, AnswersTheLast
<1> QED
  BY <1>2, <1>3, <1>4, <1>5, <1>6, <1>7, <1>8, <1>10, <1>11, <1>12, <1>13
     DEF Next, ManagerStep, ChildStep

-----------------------------------------------------------------------------
LEMMA IInvInit == Init => IInv
<1> SUFFICES ASSUME Init
             PROVE  IInv
  OBVIOUS
<1>1. TypeInv
  <2>1. <<>> \in Seq(Servers) /\ <<>> \in Seq(Requests) /\ <<>> \in Seq(Frames) /\ IsInjective(<<>>)
    BY EmptyIsInjective, EmptySeq
  <2>2. 0 \in 0 .. MaxNoise /\ DOMAIN <<>> = {}
    BY McpManagerAssumption
  <2>3. ManagerTyped
    BY <2>1, McpManagerAssumption DEF Init, ManagerTyped
  <2>4. RoutesTyped
    BY <2>2 DEF Init, RoutesTyped
  <2>5. PipesTyped
    BY <2>1, <2>2 DEF Init, PipesTyped, RequestIds
  <2> QED
    BY <2>3, <2>4, <2>5 DEF TypeInv
<1>2. GreetingsAreTold /\ InitializedMeansGreeted
  BY DEF Init, GreetingsAreTold, InitializedMeansGreeted
<1>3. RoutesAreCurrent
  BY DEF Init, RoutesAreCurrent
<1>4. DiscoveredSoFar /\ DiscoveredIsCallable /\ StoppedSoFar /\ ShutdownLeavesNothing
  BY DEF Init, DiscoveredSoFar, DiscoveredIsCallable, StoppedSoFar, ShutdownLeavesNothing
<1>5. QuietPipes
  BY DEF Init, QuietPipes, OneIsUnderWay
<1> QED
  BY <1>1, <1>2, <1>3, <1>4, <1>5 DEF IInv

LEMMA IInvHolds == Spec => []IInv
<1>1. IInv /\ [Next]_vars => IInv'
  BY TypeStep, GreetingsStep, RoutesStep, DiscoveryStep, ShutdownStep, PipesStep DEF IInv
<1> QED
  BY <1>1, IInvInit, PTL DEF Spec

(* Whatever failed before, and whatever children say or when they die:     *)
(* routes are those of the last lists, what a discovery found is callable, *)
(* servers are greeted before they are used, and a shutdown leaves none.   *)
THEOREM ManagerIsSound == Spec => []ManagerInv
<1>1. IInv => ManagerInv
  BY TypeInvIsEnough DEF IInv, ManagerInv
<1> QED
  BY <1>1, IInvHolds, PTL

(* read_response does not compare ids, and need not: what a child that     *)
(* never spoke unasked is heard to say is the answer to the last request.  *)
THEOREM QuietChildrenStayInStep == Spec => QuietChildrenAreInStep
<1> DEFINE InStep == exchange'.answerTo \notin {0, exchange.answerTo} /\ noise[Current] = 0
                       => exchange'.answerTo = exchange'.id
<1>1. IInv /\ [Next]_vars => [InStep]_vars
  <2> SUFFICES ASSUME IInv, [Next]_vars
               PROVE  InStep \/ UNCHANGED vars
    OBVIOUS
  <2>0. exchange \in [id : RequestIds, method : Methods \cup {"none"}, answerTo : RequestIds]
    BY DEF IInv, TypeInv, PipesTyped
  <2>1. ASSUME NEW s \in Servers, NEW method \in Methods, Take(s, method)
        PROVE  InStep
    <3>1. s = Current /\ (noise[s] = 0 => Head(stdout[s]).id = exchange.id)
      BY <2>1, TakenIsTheAnswer DEF IInv, Take, Visiting, AnswersTheLast
    <3>2. exchange'.id = exchange.id /\ exchange'.answerTo \in {0, Head(stdout[s]).id}
      BY <2>0, <2>1 DEF Take
    <3> QED
      BY <3>1, <3>2
  <2>2. ASSUME NEW s \in Servers, NEW method \in Methods, Request(s, method)
        PROVE  InStep
    <3>1. exchange'.answerTo = 0
      BY <2>2 DEF Request
    <3> QED
      BY <3>1
  <2>3. ASSUME UNCHANGED exchange
        PROVE  InStep
    BY <2>3
  <2> HIDE DEF InStep
  <2>4. ASSUME NEW s \in Servers, ManagerStep(s)
        PROVE  InStep
    <3>1. CASE Initialize(s) \/ ListFirstPage(s) \/ ListNextPage(s) \/ CallTool(s)
      BY <2>2, <3>1 DEF Initialize, ListFirstPage, ListNextPage, CallTool, Methods
    <3>2. CASE Initialized(s) \/ Listed(s) \/ Called(s)
      BY <2>1, <3>2 DEF Initialized, Listed, Called, Methods
    <3>3. CASE Spawn(s) \/ SpawnFails(s) \/ ReadEof(s) \/ ShutdownServer(s) \/ ShutdownFails(s)
      BY <2>3, <3>3 DEF Spawn, SpawnFails, ReadEof, ShutdownServer, ShutdownFails, history
    <3> QED
      BY <2>4, <3>1, <3>2, <3>3 DEF ManagerStep
  <2>5. ASSUME NEW s \in Servers, ChildStep(s)
        PROVE  InStep
    BY <2>3, <2>5 DEF ChildStep, Answer, SpeakUnasked, Die, history
  <2>6. CASE Begins
    BY <2>3, <2>6 DEF Begins, BeginDiscover, BeginCall, BeginShutdown, Begin, history
  <2> QED
    BY <2>4, <2>5, <2>6 DEF Next
<1> QED
  BY <1>1, IInvHolds, PTL DEF Spec, QuietChildrenAreInStep

=============================================================================
