------------------------------ MODULE SubAgents ------------------------------
(***************************************************************************)
(* The Agent tool (tools/src/lib.rs): execute_agent writes the output file *)
(* and the manifest of a sub-agent and starts a thread for it; the thread  *)
(* runs one turn with the tools of its type and records how it ended, in   *)
(* the output and then in the manifest.  Any write may fail, before or     *)
(* after it truncated its file, and the process may exit at any time.      *)
(***************************************************************************)
EXTENDS Integers, Sequences

CONSTANTS
  Agents,    \* calls of the tool, each with an id of its own
  Asked,     \* bound: the types asked for
  Tried,     \* bound: the tools a model tries
  MaxUses    \* bound: tools of one turn

ASSUME SubAgentsAssumption == MaxUses \in Nat

VARIABLES
  stage,     \* [agent -> "none", "output", "manifest", "spawn", "turn", "append", "record", "over"]
  kind,      \* [agent -> normalised subagent_type]
  outcome,   \* [agent -> "none", "completed", "failed"]: what is being recorded
  output,    \* [agent -> sections of the output file]
  manifest,  \* [agent -> "none", "running", "completed", "failed", or "torn"]
  told,      \* [agent -> what the tool returned: "nothing", "running", "error"]
  ran,       \* [agent -> tools its turn ran]
  uses,      \* [agent -> tools its turn tried]
  trouble,   \* history: agents of which a write failed
  exited     \* the process is gone

agentVars == <<stage, kind, outcome, output, manifest, told, ran, uses, trouble, exited>>

-----------------------------------------------------------------------------
(* normalize_subagent_type, by the spellings that are known.               *)
Spellings ==
  [Explore |-> {"explore", "explorer", "explore-agent"},
   Plan |-> {"plan", "planagent"},
   Verification |-> {"verification", "verify", "verifier"},
   guide |-> {"claw-guide", "guide"},
   statusline |-> {"statusline", "statusline-setup"}]

Normalized(asked) ==
  IF \E t \in DOMAIN Spellings : asked \in Spellings[t]
  THEN CHOOSE t \in DOMAIN Spellings : asked \in Spellings[t] ELSE "other"

Search == {"read_file", "glob_search", "grep_search", "ToolSearch"}
Web == {"WebFetch", "WebSearch"}
Shells == {"bash", "PowerShell"}
Writers == {"write_file", "edit_file", "NotebookEdit"}
Rest == {"TodoWrite", "Sleep", "Config", "REPL", "Skill", "StructuredOutput", "SendUserMessage"}
MvpTools == Search \cup Web \cup Shells \cup Writers \cup Rest \cup {"Agent"}

(* allowed_tools_for_subagent: a type nobody knows gets everything but     *)
(* agents of its own.                                                      *)
AllowedTools(type) ==
  CASE type = "Explore" -> Search \cup Web \cup {"Skill", "StructuredOutput"}
    [] type = "Plan" -> Search \cup Web \cup {"Skill", "TodoWrite", "StructuredOutput", "SendUserMessage"}
    [] type = "Verification" ->
         Search \cup Web \cup Shells \cup {"TodoWrite", "StructuredOutput", "SendUserMessage"}
    [] type = "guide" -> Search \cup Web \cup {"Skill", "StructuredOutput", "SendUserMessage"}
    [] type = "statusline" -> Search \cup {"bash", "write_file", "edit_file"}
    [] OTHER -> MvpTools \ {"Agent"}

-----------------------------------------------------------------------------
AgentInit ==
  /\ stage = [a \in Agents |-> "none"]
  /\ kind = [a \in Agents |-> "other"]
  /\ outcome = [a \in Agents |-> "none"]
  /\ output = [a \in Agents |-> <<>>]
  /\ manifest = [a \in Agents |-> "none"]
  /\ told = [a \in Agents |-> "nothing"]
  /\ ran = [a \in Agents |-> {}]
  /\ uses = [a \in Agents |-> 0]
  /\ trouble = {}
  /\ exited = FALSE

At(a, p) == ~exited /\ stage[a] = p
To(a, p) == stage' = [stage EXCEPT ![a] = p]
Trouble(a) == trouble' = trouble \cup {a}

(* execute_agent runs in the loop of the conversation: one at a time.      *)
Calling(a) == stage[a] \in {"output", "manifest", "spawn"} \/ (told[a] = "nothing" /\ stage[a] # "none")

Call(a) ==
  /\ At(a, "none") /\ \A b \in Agents : ~Calling(b)
  /\ \E asked \in Asked : kind' = [kind EXCEPT ![a] = Normalized(asked)]
  /\ To(a, "output")
  /\ UNCHANGED <<outcome, output, manifest, told, ran, uses, trouble, exited>>

Refuse(a) ==
  /\ told' = [told EXCEPT ![a] = "error"]
  /\ To(a, "over")
  /\ Trouble(a)

WriteOutput(a) ==
  /\ At(a, "output")
  /\ \/ /\ output' = [output EXCEPT ![a] = <<"task">>]
        /\ To(a, "manifest")
        /\ UNCHANGED <<told, trouble>>
     \/ Refuse(a) /\ UNCHANGED output
  /\ UNCHANGED <<kind, outcome, manifest, ran, uses, exited>>

WriteManifest(a) ==
  /\ At(a, "manifest")
  /\ \/ /\ manifest' = [manifest EXCEPT ![a] = "running"]
        /\ To(a, "spawn")
        /\ UNCHANGED <<told, trouble>>
     \/ /\ \E left \in {"none", "torn"} : manifest' = [manifest EXCEPT ![a] = left]
        /\ Refuse(a)
  /\ UNCHANGED <<kind, outcome, output, ran, uses, exited>>

Spawn(a) ==
  /\ At(a, "spawn")
  /\ To(a, "turn") /\ told' = [told EXCEPT ![a] = "running"]
  /\ UNCHANGED <<kind, outcome, output, manifest, ran, uses, trouble, exited>>

(* There is no thread: what the thread would have recorded of its failure, *)
(* the caller records.                                                     *)
SpawnFails(a) ==
  /\ At(a, "spawn")
  /\ outcome' = [outcome EXCEPT ![a] = "failed"] /\ To(a, "append")
  /\ UNCHANGED <<kind, output, manifest, told, ran, uses, trouble, exited>>

-----------------------------------------------------------------------------
(* The thread: a tool is run when the type has it; the turn ends well, or  *)
(* in an error or a panic.                                                 *)
UseTool(a) ==
  /\ At(a, "turn") /\ uses[a] < MaxUses
  /\ uses' = [uses EXCEPT ![a] = @ + 1]
  /\ \E tool \in Tried :
       ran' = [ran EXCEPT ![a] = IF tool \in AllowedTools(kind[a]) THEN @ \cup {tool} ELSE @]
  /\ UNCHANGED <<stage, kind, outcome, output, manifest, told, trouble, exited>>

EndTurn(a) ==
  /\ At(a, "turn")
  /\ \E how \in {"completed", "failed"} : outcome' = [outcome EXCEPT ![a] = how]
  /\ To(a, "append")
  /\ UNCHANGED <<kind, output, manifest, told, ran, uses, trouble, exited>>

(* persist_agent_terminal_state: the section is appended, then the         *)
(* manifest written.  When a success cannot be recorded, a failure is;     *)
(* when a failure cannot, nothing more is tried.                           *)
Unrecorded(a) ==
  /\ Trouble(a)
  /\ IF outcome[a] = "completed"
     THEN outcome' = [outcome EXCEPT ![a] = "failed"] /\ To(a, "append")
     ELSE UNCHANGED outcome /\ To(a, "over")

AppendSection(a) ==
  /\ At(a, "append")
  /\ \/ output' = [output EXCEPT ![a] = Append(@, outcome[a])]
        /\ To(a, "record") /\ UNCHANGED <<outcome, trouble>>
     \/ /\ \E part \in {<<>>, <<"partial">>} : output' = [output EXCEPT ![a] = @ \o part]
        /\ Unrecorded(a)
  /\ told' = IF stage'[a] = "over" /\ told[a] = "nothing" THEN [told EXCEPT ![a] = "error"] ELSE told
  /\ UNCHANGED <<kind, manifest, ran, uses, exited>>

(* Slip: a failure of the manifest is not noticed. *)
RecordUnnoticed(a) ==
  /\ At(a, "record")
  /\ \E m \in {manifest[a], outcome[a]} : manifest' = [manifest EXCEPT ![a] = m]
  /\ To(a, "over")
  /\ told' = IF told[a] = "nothing" THEN [told EXCEPT ![a] = "error"] ELSE told
  /\ UNCHANGED <<kind, outcome, output, ran, uses, trouble, exited>>

Record(a) ==
  /\ At(a, "record")
  /\ \/ /\ manifest' = [manifest EXCEPT ![a] = outcome[a]]
        /\ To(a, "over") /\ UNCHANGED <<outcome, trouble>>
     \/ /\ \E left \in {manifest[a], "torn"} : manifest' = [manifest EXCEPT ![a] = left]
        /\ Unrecorded(a)
  /\ told' = IF stage'[a] = "over" /\ told[a] = "nothing" THEN [told EXCEPT ![a] = "error"] ELSE told
  /\ UNCHANGED <<kind, output, ran, uses, exited>>

(* The process exits under its threads; a file may be cut short.           *)
Exit ==
  /\ ~exited /\ exited' = TRUE
  /\ \E cut \in SUBSET {a \in Agents : stage[a] \in {"manifest", "record"}} :
       manifest' = [a \in Agents |-> IF a \in cut THEN "torn" ELSE manifest[a]]
  /\ UNCHANGED <<stage, kind, outcome, output, told, ran, uses, trouble>>

AgentNext ==
  \/ \E a \in Agents :
       \/ Call(a) \/ WriteOutput(a) \/ WriteManifest(a) \/ Spawn(a) \/ SpawnFails(a)
       \/ UseTool(a) \/ EndTurn(a) \/ AppendSection(a) \/ Record(a)
  \/ Exit

AgentSpec == AgentInit /\ [][AgentNext]_agentVars

-----------------------------------------------------------------------------
AgentTypeOK ==
  /\ \A a \in Agents :
       /\ stage[a] \in {"none", "output", "manifest", "spawn", "turn", "append", "record", "over"}
       /\ outcome[a] \in {"none", "completed", "failed"}
       /\ manifest[a] \in {"none", "torn", "running", "completed", "failed"}
       /\ told[a] \in {"nothing", "running", "error"}
       /\ ran[a] \subseteq MvpTools
  /\ exited \in BOOLEAN

(* A manifest that names an outcome names that of the last section of the  *)
(* output, and the turn is over; one that says running is of an agent that *)
(* still runs, of a process that is gone, or of a write that failed and    *)
(* was noticed.  A success is never told once a failure was.               *)
ManifestTellsTheTruth ==
  \A a \in Agents :
    /\ manifest[a] \in {"completed", "failed"} =>
         /\ stage[a] = "over" /\ output[a][Len(output[a])] = manifest[a]
         /\ a \notin trouble => output[a] = <<"task", manifest[a]>>
    /\ manifest[a] = "completed" => \A k \in DOMAIN output[a] : output[a][k] # "failed"
    /\ manifest[a] \in {"running", "torn"} /\ stage[a] = "over" => a \in trouble \/ exited

(* An agent whose call returned an error ran no tool, no agent starts      *)
(* another, and none of a type that only looks ran a tool that writes what *)
(* it is told or runs a command.  The list of to-dos, which a planner may  *)
(* keep, is not meant.                                                     *)
AgentsKeepToTheirTools ==
  \A a \in Agents :
    /\ told[a] = "error" => ran[a] = {}
    /\ "Agent" \notin ran[a]
    /\ kind[a] \in {"Explore", "Plan", "guide"} => ran[a] \cap (Writers \cup Shells \cup {"Config", "REPL"}) = {}

SubAgentsInv == AgentTypeOK /\ ManifestTellsTheTruth /\ AgentsKeepToTheirTools

=============================================================================
