--------------------------- MODULE StreamAssembly ---------------------------
(***************************************************************************)
(* How one streamed reply becomes an assistant message.  A provider sends  *)
(* blocks one after the other (Anthropic) or chunks that carry pieces of   *)
(* several tool calls side by side (OpenAI); StreamState of                *)
(* openai_compat.rs turns chunks into block events; the client of the CLI  *)
(* collects them in one slot for the tool call under way, that of the      *)
(* sub-agents in a map by block index; build_assistant_message makes the   *)
(* message.  Texts are sequences of numbered fragments, inputs of pairs of *)
(* the call and a number.  A call has its id and its name at once.         *)
(***************************************************************************)
EXTENDS Integers, SequencesExt, TLC

CONSTANTS
  MaxCalls,      \* bound: tool calls of one reply
  MaxFragments,  \* bound: fragments of one input
  MaxText        \* bound: text fragments of one reply

ASSUME StreamAssumption == MaxCalls \in Nat /\ MaxFragments \in Nat /\ MaxText \in Nat

Calls == 0 .. MaxCalls - 1
Routes == {"cli", "agent-anthropic", "agent-openai"}

VARIABLES
  route,    \* which client reads which provider
  phase,    \* "streaming", "fallback" (send_message under way), "done", "failed"
  meant,    \* what the provider sent: [named, args, text, closed, blocks,
            \* counted (usage), finished]
  open,     \* Anthropic: the block being sent, or None
  state,    \* OpenAI: StreamState, as [begun, textStarted, started, stopped, emitted]
  pending,  \* pending_tool, or pending_tools: partial, by key
  events    \* AssistantEvents collected so far

vars == <<route, phase, meant, open, state, pending, events>>

None == [kind |-> "none"]
Fragments(c, from, to) == [k \in 1 .. to - from + 1 |-> <<c, from + k - 1>>]

NothingMeant ==
  [named |-> {}, args |-> [c \in Calls |-> 0], text |-> 0, closed |-> {}, blocks |-> 0,
   counted |-> FALSE, finished |-> FALSE]
NewStream ==
  [begun |-> FALSE, textStarted |-> FALSE, started |-> {}, stopped |-> {},
   emitted |-> [c \in Calls |-> 0]]

Init ==
  /\ route \in Routes
  /\ phase = "streaming"
  /\ meant = NothingMeant
  /\ open = None
  /\ state = NewStream
  /\ pending = <<>>
  /\ events = <<>>

-----------------------------------------------------------------------------
(* Block events, and AssistantEvents. *)
Start(index, call) == [kind |-> "start", index |-> index, call |-> call]
Input(index, fragments) == [kind |-> "input", index |-> index, fragments |-> fragments]
Stop(index) == [kind |-> "stop", index |-> index]
Text(fragment) == [kind |-> "text", fragment |-> fragment]
Usage == [kind |-> "usage"]
End == [kind |-> "end"]

ToolUse(tool) == [kind |-> "use", call |-> tool.call, input |-> tool.input]

(* Slip: the sub-agents keep one slot too. *)
KeyOfSlot(index) == 0

(* The CLI has one slot, whatever the index says. *)
Key(index) == IF route = "cli" THEN 0 ELSE index

(* One block event taken by the collector.  The input of a tool that is    *)
(* streamed starts empty.                                                  *)
Take(collected, e) ==
  LET tools == collected.tools
      key == Key(e.index)
  IN  CASE e.kind = "start" ->
             [collected EXCEPT !.tools = (key :> [call |-> e.call, input |-> <<>>]) @@ tools]
        [] e.kind = "input" /\ key \in DOMAIN tools ->
             [collected EXCEPT !.tools[key].input = @ \o e.fragments]
        [] e.kind = "stop" /\ key \in DOMAIN tools ->
             [tools |-> [k \in DOMAIN tools \ {key} |-> tools[k]],
              events |-> Append(collected.events, ToolUse(tools[key]))]
        [] e.kind \in {"text", "usage", "end"} ->
             [collected EXCEPT !.events = Append(@, e)]
        [] OTHER -> collected

Collected(stream) == FoldLeft(Take, [tools |-> pending, events |-> events], stream)
Collect(stream) ==
  /\ pending' = Collected(stream).tools
  /\ events' = Collected(stream).events

-----------------------------------------------------------------------------
(* Anthropic: one block at a time, each with the next index.               *)
Anthropic == route # "agent-openai" /\ phase = "streaming" /\ ~meant.finished

TextBlock ==
  /\ Anthropic /\ open = None /\ ~meant.counted
  /\ \E n \in 0 .. MaxText - meant.text :
       /\ meant' = [meant EXCEPT !.text = @ + n, !.blocks = @ + 1]
       /\ Collect([k \in 1 .. n |-> Text(meant.text + k)] \o <<Stop(meant.blocks)>>)
  /\ meant.blocks < MaxCalls + MaxText
  /\ UNCHANGED <<route, phase, open, state>>

CallStarts ==
  /\ Anthropic /\ open = None /\ ~meant.counted
  /\ \E call \in Calls \ meant.named :
       /\ meant' = [meant EXCEPT !.named = @ \cup {call}, !.blocks = @ + 1]
       /\ open' = [kind |-> "call", index |-> meant.blocks, call |-> call]
       /\ Collect(<<Start(meant.blocks, call)>>)
  /\ UNCHANGED <<route, phase, state>>

CallGoesOn ==
  /\ Anthropic /\ open # None
  /\ meant.args[open.call] < MaxFragments
  /\ meant' = [meant EXCEPT !.args[open.call] = @ + 1]
  /\ Collect(<<Input(open.index, <<<<open.call, meant.args[open.call] + 1>>>>)>>)
  /\ UNCHANGED <<route, phase, open, state>>

CallStops ==
  /\ Anthropic /\ open # None
  /\ meant' = [meant EXCEPT !.closed = @ \cup {open.call}]
  /\ open' = None
  /\ Collect(<<Stop(open.index)>>)
  /\ UNCHANGED <<route, phase, state>>

UsageArrives ==
  /\ Anthropic /\ open = None /\ ~meant.counted
  /\ meant' = [meant EXCEPT !.counted = TRUE]
  /\ Collect(<<Usage>>)
  /\ UNCHANGED <<route, phase, open, state>>

MessageStops ==
  /\ Anthropic /\ meant.counted
  /\ meant' = [meant EXCEPT !.finished = TRUE]
  /\ Collect(<<End>>)
  /\ UNCHANGED <<route, phase, open, state>>

-----------------------------------------------------------------------------
(* OpenAI: a chunk has a text fragment, a piece of one call and a finish   *)
(* reason, each of which may be missing.                                   *)
InOrder(calls) == SetToSortSeq(calls, <)
StopEvents(calls) == [k \in DOMAIN InOrder(calls) |-> Stop(InOrder(calls)[k] + 1)]

(* The tool call of a chunk: started once its name is known, then whatever *)
(* of its input was not passed on yet.                                     *)
Advance(m, c) ==
  IF c \notin m.named THEN <<>>
  ELSE (IF c \in state.started THEN <<>> ELSE <<Start(c + 1, c)>>)
       \o (IF state.emitted[c] < m.args[c]
           THEN <<Input(c + 1, Fragments(c, state.emitted[c] + 1, m.args[c]))>> ELSE <<>>)

Chunk ==
  /\ route = "agent-openai" /\ phase = "streaming" /\ ~meant.finished
  /\ \E texts \in 0 .. 1, pieces \in SUBSET Calls, name, arg, calls, finish \in BOOLEAN :
       LET m == [meant EXCEPT !.text = @ + texts,
                   !.named = IF name THEN @ \cup pieces ELSE @,
                   !.args = [c \in Calls |-> IF arg /\ c \in pieces THEN @[c] + 1 ELSE @[c]],
                   !.finished = finish]
           started == state.started \cup (pieces \cap m.named)
           first == IF finish /\ calls THEN (pieces \cap m.named) \ state.stopped ELSE {}
           rest == IF finish /\ calls THEN (started \ state.stopped) \ first ELSE {}
           piece == CHOOSE c \in pieces : TRUE
       IN  /\ m.text <= MaxText
           /\ pieces = {} => ~name /\ ~arg
           /\ pieces # {} => Cardinality(pieces) = 1 /\ (name \/ arg)
           /\ pieces # {} => m.args[piece] <= MaxFragments
           /\ name => pieces \cap meant.named = {}
           /\ calls => finish
           /\ meant' = m
           /\ state' = [begun |-> TRUE, textStarted |-> state.textStarted \/ texts = 1,
                        started |-> started, stopped |-> state.stopped \cup first \cup rest,
                        emitted |-> [c \in Calls |->
                          IF c \in pieces \cap m.named THEN m.args[c] ELSE state.emitted[c]]]
           /\ Collect([k \in 1 .. texts |-> Text(m.text)]
                      \o (IF pieces = {} THEN <<>> ELSE Advance(m, piece))
                      \o StopEvents(first) \o StopEvents(rest))
  /\ UNCHANGED <<route, phase, open>>

(* StreamState::finish, once the body has ended.  A call was started in    *)
(* the chunk that brought its name, so none is left to start here.         *)
Finish ==
  IF route # "agent-openai" THEN <<>>
  ELSE (IF state.textStarted THEN <<Stop(0)>> ELSE <<>>)
       \o StopEvents(state.started \ state.stopped)
       \o (IF state.begun THEN <<Usage, End>> ELSE <<>>)

-----------------------------------------------------------------------------
HasEnd(s) == \E k \in DOMAIN s : s[k].kind = "end"
HasContent(s) == \E k \in DOMAIN s : s[k].kind \in {"text", "use"}

(* The body ends, at its end or cut short.  An end is supplied when there  *)
(* is content without one; with neither, the request is made again,        *)
(* without streaming, and the events are dropped.                          *)
BodyEnds ==
  /\ phase = "streaming"
  /\ LET got == Collected(Finish)
     IN  /\ pending' = got.tools
         /\ events' = IF ~HasEnd(got.events) /\ HasContent(got.events)
                      THEN Append(got.events, End) ELSE got.events
         /\ phase' = IF HasEnd(got.events) \/ HasContent(got.events)
                     THEN "done" ELSE "fallback"
  /\ UNCHANGED <<route, meant, open, state>>

(* The answer to the second request is another reply, in one piece.        *)
WholeResponse(calls, args, text) ==
  [k \in 1 .. text |-> Text(k)]
  \o [k \in DOMAIN InOrder(calls) |->
        ToolUse([call |-> InOrder(calls)[k],
                 input |-> Fragments(InOrder(calls)[k], 1, args[InOrder(calls)[k]])])]
  \o <<Usage, End>>

Fallback ==
  /\ phase = "fallback"
  /\ \E calls \in SUBSET Calls, text \in 0 .. MaxText :
       LET args == [c \in Calls |-> IF c \in calls THEN MaxFragments ELSE 0]
       IN  /\ meant' = [NothingMeant EXCEPT !.named = calls, !.args = args, !.text = text,
                                            !.closed = calls, !.finished = TRUE]
           /\ events' = WholeResponse(calls, args, text)
  /\ phase' = "done"
  /\ UNCHANGED <<route, open, state, pending>>

(* An error of the connection, in the stream or in the second request.     *)
Fail ==
  /\ phase \in {"streaming", "fallback"}
  /\ phase' = "failed"
  /\ UNCHANGED <<route, meant, open, state, pending, events>>

Next ==
  \/ TextBlock \/ CallStarts \/ CallGoesOn \/ CallStops \/ UsageArrives
  \/ MessageStops
  \/ Chunk \/ BodyEnds \/ Fallback \/ Fail

Spec == Init /\ [][Next]_vars

-----------------------------------------------------------------------------
(* build_assistant_message: text up to a tool use is one block.            *)
Flush(m) == IF m.text = <<>> THEN m.blocks
            ELSE Append(m.blocks, [kind |-> "text", text |-> m.text])

Assemble(m, e) ==
  CASE e.kind = "text" -> [m EXCEPT !.text = Append(@, e.fragment)]
    [] e.kind = "use"  -> [text |-> <<>>, blocks |-> Append(Flush(m), e)]
    [] OTHER           -> m

Message(s) == Flush(FoldLeft(Assemble, [text |-> <<>>, blocks |-> <<>>], s))
Accepted(s) == HasEnd(s) /\ Message(s) # <<>>

Uses == SelectSeq(Message(events), LAMBDA b : b.kind = "use")
Texts == FoldLeft(LAMBDA t, b : IF b.kind = "text" THEN t \o b.text ELSE t, <<>>, Message(events))

-----------------------------------------------------------------------------
TypeOK ==
  /\ route \in Routes
  /\ phase \in {"streaming", "fallback", "done", "failed"}
  /\ meant.named \subseteq Calls /\ meant.closed \subseteq meant.named
  /\ meant.args \in [Calls -> 0 .. MaxFragments]
  /\ meant.text \in 0 .. MaxText
  /\ state.stopped \subseteq state.started
  /\ \A c \in Calls : state.emitted[c] <= MaxFragments
  /\ \A k \in DOMAIN pending : pending[k].call \in Calls
  /\ \A k \in DOMAIN events : events[k].kind \in {"text", "use", "usage", "end"}

(* The calls the client may pass on: an Anthropic call whose block was     *)
(* stopped; an OpenAI call as soon as it has a name, as its provider has   *)
(* no other sign of its end.                                               *)
Deliverable == IF route = "agent-openai" THEN meant.named ELSE meant.closed

(* However the calls of a reply are mixed on the wire, the input of a call *)
(* is made of its own fragments, from the first on and in order, while it  *)
(* is collected and when it is passed on.                                  *)
NothingMixed ==
  \A tool \in {pending[k] : k \in DOMAIN pending}
           \cup {events[k] : k \in {j \in DOMAIN events : events[j].kind = "use"}} :
    tool.input = Fragments(tool.call, 1, Len(tool.input))

(* The message is what was sent: every deliverable call once, with all of  *)
(* its input and nothing of another's, no other call, and all of the text  *)
(* around them.  A stream of Anthropic cut inside a block never runs half  *)
(* a call.                                                                 *)
WholeReply ==
  /\ NothingMixed
  /\ phase = "done" =>
       /\ {Uses[k].call : k \in DOMAIN Uses} = Deliverable
       /\ Len(Uses) = Cardinality(Deliverable)
       /\ \A k \in DOMAIN Uses : Len(Uses[k].input) = meant.args[Uses[k].call]
       /\ Texts = [k \in 1 .. meant.text |-> k]

(* The only replies the runtime refuses are those without content, and no  *)
(* content is dropped to ask for it again; what took two requests is       *)
(* counted once.                                                           *)
OnlyEmptyIsRefused ==
  /\ phase = "done" => (Accepted(events) <=> meant.text > 0 \/ Deliverable # {})
  /\ phase = "fallback" => meant.text = 0 /\ Deliverable = {}
  /\ Len(SelectSeq(events, LAMBDA e : e.kind = "usage")) <= 1

(* A reply is put together whole on every route, or refused because it is  *)
(* empty.                                                                  *)
StreamInv == TypeOK /\ WholeReply /\ OnlyEmptyIsRefused

=============================================================================
