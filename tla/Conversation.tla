---------------------------- MODULE Conversation ----------------------------
(***************************************************************************)
(* ConversationRuntime::run_turn (runtime/src/conversation.rs) with the    *)
(* permission policy it asks before a tool runs and the hook commands it   *)
(* runs around one.  One step is one call run_turn makes to the outside:   *)
(* the provider, the prompter, a hook command, the tool.                   *)
(*                                                                         *)
(* A message keeps what the properties tell apart: its role, the tool uses *)
(* it asks for, whether it carries a usage record and, for a result, how   *)
(* its content came about.                                                 *)
(***************************************************************************)
EXTENDS Naturals, Sequences, FiniteSets

CONSTANTS
  Tools,          \* tool names a model may ask for, known to the policy or not
  Requirement,    \* tool_requirements: a function from some of the Tools to modes
  Ids,            \* tool_use ids the provider may send; they may repeat
  Enabled,        \* tools the executor accepts (--allowedTools, agent tools)
  MaxIterations,  \* max_iterations of the runtime
  PreHooks,       \* number of PreToolUse commands configured
  PostHooks,      \* number of PostToolUse commands configured
  MaxUses,        \* bound: tool uses in one assistant message
  MaxTurns        \* bound: calls of run_turn in one behaviour

ASSUME ConversationAssumption ==
  /\ MaxIterations \in Nat
  /\ PreHooks \in Nat
  /\ PostHooks \in Nat
  /\ MaxUses \in Nat
  /\ MaxTurns \in Nat
  /\ Enabled \subseteq Tools

(* The permission policy (runtime/src/permissions.rs): five ordered modes  *)
(* and the decision authorize takes for a tool under the active one.       *)
Modes == {"read-only", "workspace-write", "danger-full-access", "prompt", "allow"}

(* The derived Ord of PermissionMode: declaration order. *)
Rank(mode) ==
  CASE mode = "read-only"          -> 0
    [] mode = "workspace-write"    -> 1
    [] mode = "danger-full-access" -> 2
    [] mode = "prompt"             -> 3
    [] mode = "allow"              -> 4

ASSUME RequirementAssumption ==
  /\ DOMAIN Requirement \subseteq Tools
  /\ \A t \in DOMAIN Requirement : Requirement[t] \in Modes

(* A tool the policy has no entry for needs the highest of the three       *)
(* user-selectable modes.                                                  *)
RequiredMode(tool) ==
  IF tool \in DOMAIN Requirement THEN Requirement[tool] ELSE "danger-full-access"

(* The active mode alone is enough for the tool. *)
Grants(mode, tool) ==
  \/ mode = "allow"
  \/ Rank(mode) >= Rank(RequiredMode(tool))

(* Slip: any mode may escalate. *)
MayEscalateAlways(mode, tool) == ~ Grants(mode, tool)

(* The mode is not enough, but the user may be asked. *)
MayEscalate(mode, tool) ==
  /\ ~ Grants(mode, tool)
  /\ \/ mode = "prompt"
     \/ /\ mode = "workspace-write"
        /\ RequiredMode(tool) = "danger-full-access"

-----------------------------------------------------------------------------
Uses == [id : Ids, name : Tools]
Replies == UNION {[1 .. n -> Uses] : n \in 0 .. MaxUses}

(* How the content of a tool result came about, and its is_error flag.     *)
(*   "refused"  the permission policy or the user said no                  *)
(*   "blocked"  a PreToolUse hook said no                                  *)
(*   "output"   what the executor returned, with any hook feedback         *)
Contents == {"refused", "blocked", "output"}
Outcomes == [content : Contents, error : BOOLEAN]

UserMessages == [role : {"user"}]
AssistantMessages == [role : {"assistant"}, uses : Seq(Uses), usage : BOOLEAN]
ToolMessages == [role : {"tool"}, use : Uses, outcome : Outcomes]
Messages == UserMessages \cup AssistantMessages \cup ToolMessages

VARIABLES
  mode,        \* active_mode of the permission policy
  session,     \* session.messages
  recorded,    \* turns counted by the usage tracker
  phase,       \* where run_turn is; "idle" between turns
  prompter,    \* was a prompter passed to run_turn?
  iterations,  \* the loop counter of run_turn
  pending,     \* pending_tool_uses not answered yet, the current one first
  hook,        \* hook commands already run for the current phase
  failed,      \* is_error of the executor's answer, while post hooks run
  turns,       \* run_turn calls so far
  approved,    \* history: positions of results the user approved by prompt
  effects      \* history: positions of results whose tool really ran

vars == <<mode, session, recorded, phase, prompter, iterations, pending, hook,
          failed, turns, approved, effects>>
history == <<approved, effects>>

Phases == {"idle", "request", "streaming", "authorize", "prehook", "posthook"}

Init ==
  /\ mode \in Modes
  /\ session = <<>>
  /\ recorded = 0
  /\ phase = "idle"
  /\ prompter = FALSE
  /\ iterations = 0
  /\ pending = <<>>
  /\ hook = 0
  /\ failed = FALSE
  /\ turns = 0
  /\ approved = {}
  /\ effects = {}

(* The place in the session of the next message, that is of the result of  *)
(* the tool use under way.                                                 *)
Here == Len(session) + 1

-----------------------------------------------------------------------------
(* run_turn is called: the user message is in the session before anything  *)
(* can fail.                                                               *)
StartTurn ==
  /\ phase = "idle"
  /\ turns < MaxTurns
  /\ turns' = turns + 1
  /\ session' = Append(session, [role |-> "user"])
  /\ prompter' \in BOOLEAN
  /\ iterations' = 0
  /\ phase' = "request"
  /\ UNCHANGED <<mode, recorded, pending, hook, failed, history>>

(* The head of the loop: too many iterations, or one more request. *)
ExceedIterations ==
  /\ phase = "request"
  /\ iterations + 1 > MaxIterations
  /\ phase' = "idle"
  /\ iterations' = iterations + 1
  /\ UNCHANGED <<mode, session, recorded, prompter, pending, hook, failed, turns, history>>

SendRequest ==
  /\ phase = "request"
  /\ iterations + 1 <= MaxIterations
  /\ iterations' = iterations + 1
  /\ phase' = "streaming"
  /\ UNCHANGED <<mode, session, recorded, prompter, pending, hook, failed, turns, history>>

(* Slip: a failed stream is asked for again, the count starting over.      *)
StreamFailsRetried ==
  /\ phase = "streaming"
  /\ phase' = "request"
  /\ iterations' = 0
  /\ UNCHANGED <<mode, session, recorded, prompter, pending, hook, failed, turns, history>>

(* The client reports an error, or the events have no message stop or no   *)
(* content: run_turn returns, the session keeps what it has.               *)
StreamFails ==
  /\ phase = "streaming"
  /\ phase' = "idle"
  /\ UNCHANGED <<mode, session, recorded, prompter, iterations, pending, hook, failed,
                 turns, history>>

(* A complete assistant message.  Its usage is recorded and it is pushed,  *)
(* and the turn is over unless it asks for tools.                          *)
AssistantReplies ==
  /\ phase = "streaming"
  /\ \E uses \in Replies, usage \in BOOLEAN :
       /\ session' = Append(session, [role |-> "assistant", uses |-> uses, usage |-> usage])
       /\ recorded' = IF usage THEN recorded + 1 ELSE recorded
       /\ pending' = uses
       /\ phase' = IF uses = <<>> THEN "idle" ELSE "authorize"
  /\ UNCHANGED <<mode, prompter, iterations, hook, failed, turns, history>>

-----------------------------------------------------------------------------
(* Slip: the uses are taken from the wrong end. *)
PushResultLastFirst(content, error) ==
  /\ session' = Append(session, [role |-> "tool", use |-> pending[Len(pending)],
                                 outcome |-> [content |-> content, error |-> error]])
  /\ pending' = SubSeq(pending, 1, Len(pending) - 1)
  /\ phase' = IF Len(pending) = 1 THEN "request" ELSE "authorize"
  /\ hook' = 0
  /\ failed' = FALSE

(* The result of the current tool use is pushed; then the next use, or the *)
(* next iteration.                                                         *)
PushResult(content, error) ==
  /\ session' = Append(session, [role |-> "tool", use |-> Head(pending),
                                 outcome |-> [content |-> content, error |-> error]])
  /\ pending' = Tail(pending)
  /\ phase' = IF Len(pending) = 1 THEN "request" ELSE "authorize"
  /\ hook' = 0
  /\ failed' = FALSE

Proceed ==
  /\ phase' = "prehook"
  /\ hook' = 0
  /\ UNCHANGED <<session, pending, failed>>

AuthorizeByMode ==
  /\ phase = "authorize"
  /\ Grants(mode, Head(pending).name)
  /\ Proceed
  /\ UNCHANGED <<mode, recorded, prompter, iterations, turns, history>>

(* authorize asks the prompter, when there is one. *)
AuthorizeByPrompt ==
  /\ phase = "authorize"
  /\ MayEscalate(mode, Head(pending).name)
  /\ prompter
  /\ \/ /\ Proceed
        /\ approved' = approved \cup {Here}
     \/ /\ PushResult("refused", TRUE)
        /\ UNCHANGED approved
  /\ UNCHANGED <<mode, recorded, prompter, iterations, turns, effects>>

(* Slip: a refusal ends the turn on the spot. *)
RefuseEndsTurn ==
  /\ phase = "authorize"
  /\ ~ Grants(mode, Head(pending).name)
  /\ MayEscalate(mode, Head(pending).name) => ~ prompter
  /\ phase' = "idle"
  /\ UNCHANGED <<mode, session, recorded, prompter, iterations, pending, hook, failed,
                 turns, history>>

Refuse ==
  /\ phase = "authorize"
  /\ ~ Grants(mode, Head(pending).name)
  /\ MayEscalate(mode, Head(pending).name) => ~ prompter
  /\ PushResult("refused", TRUE)
  /\ UNCHANGED <<mode, recorded, prompter, iterations, turns, history>>

(* The PreToolUse commands run in order; a warning counts as a pass and    *)
(* the first denial is final.                                              *)
PreHookPasses ==
  /\ phase = "prehook"
  /\ hook < PreHooks
  /\ hook' = hook + 1
  /\ UNCHANGED <<mode, session, recorded, phase, prompter, iterations, pending, failed,
                 turns, history>>

(* Slip: a blocked tool is reported like one that succeeded. *)
PreHookDeniesQuietly ==
  /\ phase = "prehook"
  /\ hook < PreHooks
  /\ PushResult("blocked", FALSE)
  /\ UNCHANGED <<mode, recorded, prompter, iterations, turns, history>>

PreHookDenies ==
  /\ phase = "prehook"
  /\ hook < PreHooks
  /\ PushResult("blocked", TRUE)
  /\ UNCHANGED <<mode, recorded, prompter, iterations, turns, history>>

(* The executor refuses a tool that is not enabled and an input that is    *)
(* not JSON without running anything.                                      *)
ExecutorRejects ==
  /\ phase = "prehook"
  /\ hook = PreHooks
  /\ failed' = TRUE
  /\ phase' = "posthook"
  /\ hook' = 0
  /\ UNCHANGED <<mode, session, recorded, prompter, iterations, pending, turns, history>>

(* The tool runs, and succeeds or fails.  *)
ToolRuns ==
  /\ phase = "prehook"
  /\ hook = PreHooks
  /\ Head(pending).name \in Enabled
  /\ failed' \in BOOLEAN
  /\ effects' = effects \cup {Here}
  /\ phase' = "posthook"
  /\ hook' = 0
  /\ UNCHANGED <<mode, session, recorded, prompter, iterations, pending, turns, approved>>

(* The PostToolUse commands see the output; a denial makes it an error and *)
(* the remaining commands do not run.                                      *)
PostHookPasses ==
  /\ phase = "posthook"
  /\ hook < PostHooks
  /\ hook' = hook + 1
  /\ UNCHANGED <<mode, session, recorded, phase, prompter, iterations, pending, failed,
                 turns, history>>

PostHookDenies ==
  /\ phase = "posthook"
  /\ hook < PostHooks
  /\ PushResult("output", TRUE)
  /\ UNCHANGED <<mode, recorded, prompter, iterations, turns, history>>

FinishTool ==
  /\ phase = "posthook"
  /\ hook = PostHooks
  /\ PushResult("output", failed)
  /\ UNCHANGED <<mode, recorded, prompter, iterations, turns, history>>

-----------------------------------------------------------------------------
HandleTool ==
  \/ AuthorizeByMode \/ AuthorizeByPrompt \/ Refuse
  \/ PreHookPasses \/ PreHookDenies
  \/ ExecutorRejects \/ ToolRuns
  \/ PostHookPasses \/ PostHookDenies \/ FinishTool

(* Everything run_turn does once it was called. *)
RunTurn ==
  \/ ExceedIterations \/ SendRequest \/ StreamFails \/ AssistantReplies
  \/ HandleTool

Next == StartTurn \/ RunTurn

SafeSpec == Init /\ [][Next]_vars

(* run_turn is one thread that never waits for another: it goes on as long *)
(* as every call it makes returns.  Nothing makes the user speak again.    *)
Spec == SafeSpec /\ WF_vars(RunTurn)

-----------------------------------------------------------------------------
TypeOK ==
  /\ mode \in Modes
  /\ session \in Seq(Messages)
  /\ recorded \in Nat
  /\ phase \in Phases
  /\ prompter \in BOOLEAN
  /\ iterations \in Nat
  /\ pending \in Seq(Uses)
  /\ hook \in Nat
  /\ failed \in BOOLEAN
  /\ turns \in 0 .. MaxTurns
  /\ approved \subseteq Nat
  /\ effects \subseteq Nat

IsResult(i) == i \in DOMAIN session /\ session[i].role = "tool"

(* Every message that directly follows an assistant message, as many of    *)
(* them as it has tool uses, is the result of the use in the same place:   *)
(* no result is lost, doubled, swapped or separated from its use by        *)
(* another message.  conversation.rs 194-253.                              *)
ResultsFollowUses ==
  \A i \in DOMAIN session : session[i].role = "assistant" =>
    \A k \in DOMAIN session[i].uses : i + k \in DOMAIN session =>
      /\ session[i + k].role = "tool"
      /\ session[i + k].use = session[i].uses[k]

(* Every result belongs to an assistant message: none is an orphan. *)
NoOrphanResult ==
  \A j \in DOMAIN session : session[j].role = "tool" =>
    \E i \in 1 .. j - 1 :
      /\ session[i].role = "assistant"
      /\ j <= i + Len(session[i].uses)

(* When a request goes out, and whenever a turn is over however it ended,  *)
(* no tool use is left without its result: the provider would reject such  *)
(* a request, and the session saved after the turn would be unusable.      *)
NothingDangling ==
  phase \in {"idle", "request", "streaming"} =>
    \A i \in DOMAIN session : session[i].role = "assistant" =>
      i + Len(session[i].uses) <= Len(session)

(* The transcript can always be sent, and resumed. *)
TranscriptWellFormed == ResultsFollowUses /\ NoOrphanResult /\ NothingDangling

(* What really ran and what the transcript says ran are the same thing, in *)
(* one direction each: a tool that ran is reported with its output, unless *)
(* its result is still being made, and a success is never reported for a   *)
(* tool that did not run.                                                  *)
TranscriptTellsTheTruth ==
  /\ \A j \in effects :
       \/ IsResult(j) /\ session[j].outcome.content = "output"
       \/ j = Here /\ phase = "posthook"
  /\ \A j \in DOMAIN session :
       session[j].role = "tool" /\ ~ session[j].outcome.error => j \in effects

(* A tool runs only with consent: the mode grants it, or the user was      *)
(* asked about this very use and said yes.  In read-only mode there is no  *)
(* such question.                                                          *)
EffectsHaveConsent ==
  \A j \in effects : IsResult(j) =>
    \/ Grants(mode, session[j].use.name)
    \/ j \in approved /\ mode # "read-only"

(* The tracker counts what from_session would count over the same session, *)
(* so a runtime rebuilt from the session shows the same usage.             *)
UsageMatchesSession ==
  recorded = Cardinality({i \in DOMAIN session :
                            session[i].role = "assistant" /\ session[i].usage})

(* A turn comes to its end. *)
TurnEnds == phase # "idle" ~> phase = "idle"

(* The runtime keeps the promise of ToolDialogue. *)
Dialogue == INSTANCE ToolDialogue WITH
  log <- session, open <- pending, talking <- (phase # "idle")

DialogueSpec == Dialogue!Spec

(* The transcript can be sent and resumed whatever failed, and the tracker *)
(* of its usage is the one that resuming it computes.                      *)
ConversationInv == TypeOK /\ TranscriptWellFormed /\ UsageMatchesSession

=============================================================================
