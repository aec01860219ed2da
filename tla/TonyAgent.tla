------------------------------ MODULE TonyAgent ------------------------------
(***************************************************************************)
(* The Python agent (tony/runtime.py): the turn of ConversationRuntime     *)
(* with the compaction between its iterations (compressor.py), the stream  *)
(* that may be retried in the middle (api_client.py), the permission mode  *)
(* (permissions.py), and the loop of the terminal, where an interrupt      *)
(* leaves the turn wherever it is (repl.py).                               *)
(***************************************************************************)
EXTENDS Integers, SequencesExt

CONSTANTS
  Keep,           \* keep_last_n
  Threshold,      \* threshold_tokens, in units of a heavy message
  MaxIterations,  \* max_iterations
  Retries,        \* bound: retries of a stream
  UsesPerReply,        \* bound: tool uses in all
  MaxTurns        \* bound: turns

ASSUME TonyAssumption ==
  /\ {Keep, MaxIterations} \subseteq Nat \ {0}
  /\ {Threshold, Retries, UsesPerReply, MaxTurns} \subseteq Nat

VARIABLES
  readOnly,  \* TONY_PERMISSION_MODE=read-only
  messages,  \* session.messages
  step,      \* "prompt", "iterate", "stream", "tools"
  turn,      \* local variables of run_turn: iterations, tool_use_blocks, current_tool,
             \* whether there is text, results
  sent,      \* the stream: the block that is open, tools of this attempt, retries so far
  log        \* what happened: uses drawn, writes that ran, uses that a timeout cut short,
             \* uses kept though only a part arrived, uses left without a result, turns

tonyVars == <<readOnly, messages, step, turn, sent, log>>

NoTurn == [iteration |-> 0, blocks |-> <<>>, current |-> 0, text |-> FALSE, results |-> <<>>]
NoStream == [open |-> "none", tools |-> 0, retries |-> 0]
Message(role, uses, text, heavy) ==
  [role |-> role, uses |-> uses, text |-> text, heavy |-> heavy]

TonyInit ==
  /\ readOnly \in BOOLEAN
  /\ messages = <<>> /\ step = "prompt" /\ turn = NoTurn /\ sent = NoStream
  /\ log = [drawn |-> 0, wrote |-> {}, torn |-> {}, half |-> {}, left |-> {}, turns |-> 0]

-----------------------------------------------------------------------------
(* compact_session: the last messages behind a summary, or all of them     *)
(* when they are few, whatever they weigh.                                 *)
Weight(ms) == Len(SelectSeq(ms, LAMBDA m : m.heavy))
Summary == Message("assistant", <<>>, TRUE, FALSE)

Newest(ms) == SubSeq(ms, IF Len(ms) > Keep THEN Len(ms) - Keep + 1 ELSE 1, Len(ms))

(* Slip: the oldest messages are kept. *)
CompactOldest(ms, threshold) ==
  IF Weight(ms) <= threshold THEN ms
  ELSE <<Summary>> \o SubSeq(ms, 1, IF Len(ms) > Keep THEN Keep ELSE Len(ms))

Compact(ms, threshold) ==
  IF Weight(ms) <= threshold THEN ms ELSE <<Summary>> \o Newest(ms)

(* _to_api_messages: results join the user message before them, or are one *)
(* of their own.                                                           *)
ToApi(ms) ==
  FoldLeft(LAMBDA out, m :
             IF m.role # "tool" THEN Append(out, m)
             ELSE IF out # <<>> /\ out[Len(out)].role = "user"
             THEN [out EXCEPT ![Len(out)].uses = @ \o m.uses]
             ELSE Append(out, [m EXCEPT !.role = "user"]),
           <<>>, ms)

(* What the API takes: results answer the uses of the message before them, *)
(* every use is answered, and no reply is empty.                           *)
Accepts(api) ==
  \A k \in DOMAIN api :
    IF api[k].role = "user"
    THEN api[k].uses # <<>> => k > 1 /\ api[k - 1].uses = api[k].uses /\ api[k - 1].role = "assistant"
    ELSE /\ api[k].uses # <<>> => k < Len(api) /\ api[k + 1].uses = api[k].uses
         /\ api[k].text \/ api[k].uses # <<>>

-----------------------------------------------------------------------------
(* The terminal: a message, /compact, /clear.                              *)
Say ==
  /\ step = "prompt" /\ log.turns < MaxTurns
  /\ \E heavy \in BOOLEAN : messages' = Append(messages, Message("user", <<>>, TRUE, heavy))
  /\ step' = "iterate" /\ turn' = NoTurn
  /\ log' = [log EXCEPT !.turns = @ + 1]
  /\ UNCHANGED <<readOnly, sent>>

CommandCompact ==
  /\ step = "prompt" /\ messages # <<>>
  /\ messages' = <<Summary>> \o Newest(messages)
  /\ UNCHANGED <<readOnly, step, turn, sent, log>>

Clear ==
  /\ step = "prompt" /\ messages # <<>>
  /\ messages' = <<>>
  /\ UNCHANGED <<readOnly, step, turn, sent, log>>

(* The next iteration, or the end of the last: compact, convert, request.  *)
Iterate ==
  /\ step = "iterate" /\ turn.iteration < MaxIterations
  /\ messages' = Compact(messages, Threshold)
  /\ \/ /\ Accepts(ToApi(messages'))
        /\ step' = "stream" /\ sent' = NoStream
        /\ turn' = [NoTurn EXCEPT !.iteration = turn.iteration + 1]
     \/ step' = "prompt" /\ turn' = NoTurn /\ UNCHANGED sent
  /\ UNCHANGED <<readOnly, log>>

MaxIterationsReached ==
  /\ step = "iterate" /\ turn.iteration = MaxIterations
  /\ step' = "prompt" /\ turn' = NoTurn
  /\ UNCHANGED <<readOnly, messages, sent, log>>

-----------------------------------------------------------------------------
(* The stream: content_block_start, _delta, _stop.  The collector has one  *)
(* slot, which only the start of a tool sets and any stop empties.         *)
StartText ==
  /\ step = "stream" /\ sent.open = "none"
  /\ sent' = [sent EXCEPT !.open = "text"]
  /\ turn' = [turn EXCEPT !.text = TRUE]
  /\ UNCHANGED <<readOnly, messages, step, log>>

StartTool ==
  /\ step = "stream" /\ sent.open = "none" /\ log.drawn < UsesPerReply
  /\ sent' = [sent EXCEPT !.open = "tool", !.tools = @ + 1]
  /\ turn' = [turn EXCEPT !.current = log.drawn + 1]
  /\ log' = [log EXCEPT !.drawn = @ + 1]
  /\ UNCHANGED <<readOnly, messages, step>>

(* Slip: the slot is not emptied. *)
StopBlockKeepsSlot ==
  /\ step = "stream" /\ sent.open # "none"
  /\ sent' = [sent EXCEPT !.open = "none"]
  /\ turn' = [turn EXCEPT !.blocks = IF turn.current = 0 THEN @ ELSE Append(@, turn.current)]
  /\ log' = [log EXCEPT !.half = IF turn.current # 0 /\ sent.open = "text"
                                 THEN @ \cup {turn.current} ELSE @]
  /\ UNCHANGED <<readOnly, messages, step>>

StopBlock ==
  /\ step = "stream" /\ sent.open # "none"
  /\ sent' = [sent EXCEPT !.open = "none"]
  /\ turn' = [turn EXCEPT !.blocks = IF turn.current = 0 THEN @ ELSE Append(@, turn.current),
                          !.current = 0]
  /\ log' = [log EXCEPT !.half = IF turn.current # 0 /\ sent.open = "text"
                                 THEN @ \cup {turn.current} ELSE @]
  /\ UNCHANGED <<readOnly, messages, step>>

(* A timeout in the stream: it is asked for again, and its events follow   *)
(* those that were passed on.                                              *)
StreamTimesOut ==
  /\ step = "stream" /\ sent.retries < Retries
  /\ sent' = [NoStream EXCEPT !.retries = sent.retries + 1]
  /\ log' = [log EXCEPT !.torn = @ \cup ({turn.current} \ {0})]
  /\ UNCHANGED <<readOnly, messages, step, turn>>

StopReasons == {"tool_use", "end_turn"}

(* The reply is kept; tools run only if the stream stopped for them.  A    *)
(* stream that ends early, or at max_tokens, has another reason.           *)
StreamEnds(reason) ==
  LET runs == reason = "tool_use" /\ turn.blocks # <<>>
  IN  /\ step = "stream"
      /\ sent.open = "none" \/ reason = "end_turn"
      /\ reason = "tool_use" => sent.tools > 0
      /\ messages' = Append(messages, Message("assistant", turn.blocks, turn.text, FALSE))
      /\ step' = IF runs THEN "tools" ELSE "prompt"
      /\ turn' = IF runs THEN turn ELSE NoTurn
      /\ sent' = NoStream
      /\ log' = [log EXCEPT !.left = IF runs THEN @ ELSE @ \cup ToSet(turn.blocks)]
      /\ UNCHANGED readOnly

(* An error of the stream ends the turn without a reply.                   *)
StreamFails ==
  /\ step = "stream"
  /\ step' = "prompt" /\ turn' = NoTurn /\ sent' = NoStream
  /\ UNCHANGED <<readOnly, messages, log>>

-----------------------------------------------------------------------------
(* authorize, execute_tool: a tool that writes is denied in read-only mode *)
(* and its result says so; any other result, an error too, is a text.      *)
RunTool ==
  /\ step = "tools" /\ Len(turn.results) < Len(turn.blocks)
  /\ \E writes \in BOOLEAN :
       log' = IF writes /\ ~readOnly
              THEN [log EXCEPT !.wrote = @ \cup {turn.blocks[Len(turn.results) + 1]}] ELSE log
  /\ turn' = [turn EXCEPT !.results = Append(@, turn.blocks[Len(turn.results) + 1])]
  /\ UNCHANGED <<readOnly, messages, step, sent>>

ToolsDone ==
  /\ step = "tools" /\ Len(turn.results) = Len(turn.blocks)
  /\ \E heavy \in BOOLEAN : messages' = Append(messages, Message("tool", turn.results, TRUE, heavy))
  /\ step' = "iterate"
  /\ UNCHANGED <<readOnly, turn, sent, log>>

(* Control-C: the terminal drops the generator, the session stays as it is. *)
Interrupt ==
  /\ step \in {"stream", "tools"}
  /\ step' = "prompt" /\ turn' = NoTurn /\ sent' = NoStream
  /\ log' = IF step = "tools" THEN [log EXCEPT !.left = @ \cup ToSet(turn.blocks)] ELSE log
  /\ UNCHANGED <<readOnly, messages>>

TonyNext ==
  \/ Say \/ CommandCompact \/ Clear \/ Iterate \/ MaxIterationsReached
  \/ StartText \/ StartTool \/ StopBlock \/ StreamTimesOut \/ StreamFails
  \/ \E reason \in StopReasons : StreamEnds(reason)
  \/ RunTool \/ ToolsDone \/ Interrupt

TonySpec == TonyInit /\ [][TonyNext]_tonyVars

-----------------------------------------------------------------------------
TonyTypeOK ==
  /\ step \in {"prompt", "iterate", "stream", "tools"}
  /\ \A k \in DOMAIN messages : messages[k].role \in {"user", "assistant", "tool"}
  /\ turn.iteration \in 0 .. MaxIterations
  /\ sent.retries \in 0 .. Retries
  /\ log.left \subseteq 1 .. UsesPerReply

(* A message of results follows the uses they answer, all of them and in   *)
(* their order, or the cut of a compaction; uses without results are the   *)
(* newest, or were left by an interrupt or by the way their stream ended.  *)
Cut(k) == k = 2 /\ messages[1] = Summary
ResultsFollowUses ==
  \A k \in DOMAIN messages :
    /\ messages[k].role = "tool" =>
         Cut(k) \/ (k > 1 /\ messages[k - 1].role = "assistant" /\ messages[k - 1].uses = messages[k].uses)
    /\ messages[k].role = "assistant" /\ messages[k].uses # <<>> =>
         \/ k = Len(messages) /\ step = "tools"
         \/ k < Len(messages) /\ messages[k + 1].role = "tool" /\ messages[k + 1].uses = messages[k].uses
         \/ ToSet(messages[k].uses) \subseteq log.left

(* The API refuses a request only for what one of these left in the        *)
(* session: a cut that parted results from their uses, uses that were      *)
(* left, or a reply in which nothing came.  Nothing else the loop does,    *)
(* over any number of iterations and compactions, makes a bad request.     *)
RefusedForAReason ==
  step = "iterate" /\ ~Accepts(ToApi(Compact(messages, Threshold))) =>
    \/ \E k \in DOMAIN messages :
         messages[k].role = "assistant" /\ (ToSet(messages[k].uses) \cap log.left # {}
                                            \/ (~messages[k].text /\ messages[k].uses = <<>>))
    \/ LET ms == Compact(messages, Threshold)
       IN  Len(ms) > 1 /\ ms[1] = Summary /\ ms[2].role = "tool"

(* A use of which only a part arrived is kept only when a timeout cut it   *)
(* short, and nothing writes in read-only mode.                            *)
RunsAreDue ==
  /\ log.half \subseteq log.torn
  /\ log.wrote # {} => ~readOnly

AgentInv == TonyTypeOK /\ ResultsFollowUses /\ RunsAreDue

=============================================================================
