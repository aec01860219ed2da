---------------------------- MODULE AgentsProofs ----------------------------
(***************************************************************************)
(* Theorems about the programs that work side by side: the sub-agents, for *)
(* any agents, types asked for, tools tried and length of a turn; the      *)
(* presentation generator, for any sessions and number of plans; a command *)
(* of the shell tools, for any capacity of the pipes and length of output; *)
(* the tools that share files, for any threads, files and number of calls; *)
(* the Python agent, for any length of turns and limit of the transcript.  *)
(***************************************************************************)
EXTENDS SubAgents, PowerGen, ShellCommands, FileTools, TonyAgent, SequenceTheorems, WellFoundedInduction, TLAPS

AgentStages == {"none", "output", "manifest", "spawn", "turn", "append", "record", "over"}
Kinds == {"Explore", "Plan", "Verification", "guide", "statusline", "other"}
Outcomes == {"completed", "failed"}
Sections == {"task", "partial"} \cup Outcomes

AgentsTyped ==
  /\ stage \in [Agents -> AgentStages]
  /\ kind \in [Agents -> Kinds]
  /\ outcome \in [Agents -> Outcomes \cup {"none"}]
  /\ output \in [Agents -> Seq(Sections)]
  /\ manifest \in [Agents -> {"none", "torn", "running"} \cup Outcomes]
  /\ told \in [Agents -> {"nothing", "running", "error"}]
  /\ ran \in [Agents -> SUBSET MvpTools]
  /\ uses \in [Agents -> Nat]
  /\ trouble \subseteq Agents
  /\ exited \in BOOLEAN

(* Before its thread runs, nothing failed for an agent, and its files are  *)
(* what execute_agent has written so far: it is the only writer.           *)
BeforeTheTurn(a) ==
  /\ stage[a] \in {"none", "output", "manifest", "spawn", "turn"} => a \notin trouble
  /\ stage[a] \in {"none", "output", "manifest"} =>
       manifest[a] = "none" \/ (exited /\ manifest[a] = "torn")
  /\ stage[a] \in {"spawn", "turn"} => manifest[a] = "running"
  /\ stage[a] \in {"manifest", "spawn", "turn"} => output[a] = <<"task">>

(* While the end is being recorded the manifest names no outcome yet.  A   *)
(* success is appended to an untouched output; a failure, to whatever was  *)
(* left of one.                                                            *)
WhileRecording(a) ==
  /\ stage[a] \in {"append", "record"} =>
       outcome[a] \in Outcomes /\ manifest[a] \in {"running", "torn"}
  /\ stage[a] = "append" /\ (outcome[a] = "completed" \/ a \notin trouble) => output[a] = <<"task">>
  /\ stage[a] = "append" /\ outcome[a] = "completed" => a \notin trouble
  /\ stage[a] = "record" =>
       /\ output[a] # <<>> /\ output[a][Len(output[a])] = outcome[a]
       /\ outcome[a] = "completed" \/ a \notin trouble => output[a] = <<"task", outcome[a]>>

(* When it is over, the manifest names the last section, or a write failed. *)
Afterwards(a) ==
  stage[a] = "over" =>
    \/ a \in trouble /\ manifest[a] \notin Outcomes
    \/ /\ manifest[a] \in Outcomes /\ output[a][Len(output[a])] = manifest[a]
       /\ manifest[a] = "completed" \/ a \notin trouble => output[a] = <<"task", manifest[a]>>

(* Only the tools of its type run, and only for a call that was answered   *)
(* with a running agent.                                                   *)
ToolsOfTheType(a) ==
  /\ ran[a] \subseteq AllowedTools(kind[a])
  /\ told[a] # "running" => ran[a] = {}
  /\ stage[a] \in {"none", "output", "manifest", "spawn"} => told[a] # "running"
  /\ stage[a] = "turn" => told[a] = "running"

AgentIsSound(a) == BeforeTheTurn(a) /\ WhileRecording(a) /\ Afterwards(a) /\ ToolsOfTheType(a)

AgentsAreSound == \A a \in Agents : AgentIsSound(a)

AgentsIInv == AgentsTyped /\ AgentsAreSound

-----------------------------------------------------------------------------
LEMMA NormalizedIsAKind == \A asked : Normalized(asked) \in Kinds
<1> SUFFICES ASSUME NEW asked
             PROVE  Normalized(asked) \in Kinds
  OBVIOUS
<1>1. DOMAIN Spellings = Kinds \ {"other"}
  BY DEF Spellings, Kinds
<1> QED
  BY <1>1 DEF Normalized, Kinds

(* No type is given the tool that starts agents, and the types that only   *)
(* look are given none that changes anything.                              *)
LEMMA AllowedToolsAreLimited ==
  ASSUME NEW type
  PROVE  /\ AllowedTools(type) \subseteq MvpTools \ {"Agent"}
         /\ type \in {"Explore", "Plan", "guide"} =>
              AllowedTools(type) \cap (Writers \cup Shells \cup {"Config", "REPL"}) = {}
<1> USE DEF Search, Web, Shells, Writers, Rest, MvpTools
<1>1. CASE type = "Explore"
  BY <1>1 DEF AllowedTools
<1>2. CASE type = "Plan"
  BY <1>2 DEF AllowedTools
<1>3. CASE type = "Verification"
  BY <1>3 DEF AllowedTools
<1>4. CASE type = "guide"
  BY <1>4 DEF AllowedTools
<1>5. CASE type = "statusline"
  BY <1>5 DEF AllowedTools
<1>6. CASE type \notin {"Explore", "Plan", "Verification", "guide", "statusline"}
  BY <1>6 DEF AllowedTools
<1> QED
  BY <1>1, <1>2, <1>3, <1>4, <1>5, <1>6

LEMMA AgentsIInvInit == AgentInit => AgentsIInv
<1> SUFFICES ASSUME AgentInit
             PROVE  AgentsTyped /\ AgentsAreSound
  BY DEF AgentsIInv
<1>1. AgentsTyped
  BY EmptySeq DEF AgentInit, AgentsTyped, AgentStages, Kinds, Outcomes, Sections
<1>2. AgentsAreSound
  BY DEF AgentInit, AgentsAreSound, AgentIsSound, BeforeTheTurn, WhileRecording, Afterwards, ToolsOfTheType
<1> QED
  BY <1>1, <1>2

(* A step of one agent leaves the others as they were.                     *)
OthersStay(a) ==
  /\ UNCHANGED exited
  /\ \A b \in Agents \ {a} :
       /\ stage'[b] = stage[b] /\ kind'[b] = kind[b] /\ outcome'[b] = outcome[b]
       /\ output'[b] = output[b] /\ manifest'[b] = manifest[b] /\ told'[b] = told[b]
       /\ ran'[b] = ran[b] /\ (b \in trouble' <=> b \in trouble)

LEMMA OneAgentMoves ==
  ASSUME AgentsAreSound, NEW a \in Agents, OthersStay(a), AgentIsSound(a)'
  PROVE  AgentsAreSound'
<1> SUFFICES ASSUME NEW b \in Agents, b # a
             PROVE  AgentIsSound(b)'
  BY DEF AgentsAreSound
<1>1. AgentIsSound(b)
  BY DEF AgentsAreSound
<1> QED
  BY <1>1 DEF OthersStay, AgentIsSound, BeforeTheTurn, WhileRecording, Afterwards, ToolsOfTheType

(* A call that is refused is over, with a failed write.                    *)
LEMMA RefusalIsSound ==
  ASSUME AgentsTyped, NEW a \in Agents, AgentIsSound(a), Refuse(a),
         stage[a] \in {"output", "manifest"}, manifest'[a] \in {"none", "torn"},
         UNCHANGED <<kind, ran>>
  PROVE  AgentIsSound(a)'
<1>1. stage'[a] = "over" /\ a \in trouble' /\ told'[a] = "error"
  BY DEF Refuse, To, Trouble, AgentsTyped
<1>2. ran'[a] \subseteq AllowedTools(kind'[a])
  BY DEF AgentIsSound, ToolsOfTheType
<1>3. ran'[a] = {}
  BY DEF AgentIsSound, ToolsOfTheType
<1> QED
  BY <1>1, <1>2, <1>3
     DEF AgentIsSound, BeforeTheTurn, WhileRecording, Afterwards, ToolsOfTheType, Outcomes

(* What could not be recorded is recorded as a failure, or no more.        *)
LEMMA UnrecordedIsAFailure ==
  ASSUME AgentsTyped, NEW a \in Agents, outcome[a] \in Outcomes, Unrecorded(a)
  PROVE  /\ outcome' \in [Agents -> Outcomes \cup {"none"}] /\ stage' \in [Agents -> AgentStages]
         /\ trouble' \subseteq Agents /\ a \in trouble'
         /\ outcome[a] = "completed" => outcome'[a] = "failed" /\ stage'[a] = "append"
         /\ outcome[a] = "failed" => outcome'[a] = "failed" /\ stage'[a] = "over"
<1>1. trouble' \subseteq Agents /\ a \in trouble'
  BY DEF Unrecorded, Trouble, AgentsTyped
<1>2. CASE outcome[a] = "completed"
  <2>1. outcome' = [outcome EXCEPT ![a] = "failed"] /\ stage' = [stage EXCEPT ![a] = "append"]
    BY <1>2 DEF Unrecorded, To
  <2> QED
    BY <1>1, <1>2, <2>1 DEF AgentsTyped, AgentStages, Outcomes
<1>3. CASE outcome[a] = "failed"
  <2>1. outcome' = outcome /\ stage' = [stage EXCEPT ![a] = "over"]
    BY <1>3 DEF Unrecorded, To
  <2> QED
    BY <1>1, <1>3, <2>1 DEF AgentsTyped, AgentStages
<1> QED
  BY <1>2, <1>3 DEF Outcomes

LEMMA AgentsIInvStep == AgentsIInv /\ [AgentNext]_agentVars => AgentsIInv'
<1> SUFFICES ASSUME AgentsTyped, AgentsAreSound, [AgentNext]_agentVars
             PROVE  AgentsTyped' /\ AgentsAreSound'
  BY DEF AgentsIInv
<1>0. \A a \in Agents : AgentIsSound(a)
  BY DEF AgentsAreSound
<1>1. ASSUME NEW a \in Agents, Call(a)
      PROVE  AgentsTyped' /\ AgentsAreSound'
  <2>1. AgentsTyped'
    BY <1>1, NormalizedIsAKind DEF Call, AgentsTyped, At, To, AgentStages
  <2>2. OthersStay(a)
    BY <1>1 DEF Call, AgentsTyped, To, OthersStay
  <2>3. AgentIsSound(a)'
    BY <1>1, <1>0 DEF Call, AgentsTyped, At, To, Outcomes, AgentIsSound, BeforeTheTurn,
       WhileRecording, Afterwards, ToolsOfTheType
  <2> QED
    BY <2>1, <2>2, <2>3, OneAgentMoves
<1>2. ASSUME NEW a \in Agents, WriteOutput(a)
      PROVE  AgentsTyped' /\ AgentsAreSound'
  <2>1. CASE output' = [output EXCEPT ![a] = <<"task">>] /\ To(a, "manifest") /\ UNCHANGED <<told, trouble>>
    <3>1. <<"task">> \in Seq(Sections)
      BY DEF Sections
    <3>2. AgentsTyped'
      BY <1>2, <2>1, <3>1 DEF WriteOutput, AgentsTyped, To, AgentStages
    <3>3. OthersStay(a)
      BY <1>2, <2>1 DEF WriteOutput, AgentsTyped, To, OthersStay
    <3>4. AgentIsSound(a)'
      BY <1>2, <2>1, <1>0 DEF WriteOutput, AgentsTyped, At, To, Outcomes, AgentIsSound,
         BeforeTheTurn, WhileRecording, Afterwards, ToolsOfTheType
    <3> QED
      BY <3>2, <3>3, <3>4, OneAgentMoves
  <2>2. CASE Refuse(a) /\ UNCHANGED output
    <3>1. AgentsTyped'
      BY <1>2, <2>2 DEF WriteOutput, Refuse, Trouble, AgentsTyped, To, AgentStages
    <3>2. OthersStay(a)
      BY <1>2, <2>2 DEF WriteOutput, Refuse, Trouble, AgentsTyped, To, OthersStay
    <3>3. manifest'[a] \in {"none", "torn"}
      BY <1>2, <1>0 DEF WriteOutput, At, AgentIsSound, BeforeTheTurn
    <3>4. AgentIsSound(a)'
      BY <1>2, <2>2, <3>3, <1>0, RefusalIsSound DEF WriteOutput, At
    <3> QED
      BY <3>1, <3>2, <3>4, OneAgentMoves
  <2> QED
    BY <1>2, <2>1, <2>2 DEF WriteOutput
<1>3. ASSUME NEW a \in Agents, WriteManifest(a)
      PROVE  AgentsTyped' /\ AgentsAreSound'
  <2>1. CASE manifest' = [manifest EXCEPT ![a] = "running"] /\ To(a, "spawn")
             /\ UNCHANGED <<told, trouble>>
    <3>1. AgentsTyped'
      BY <1>3, <2>1 DEF WriteManifest, AgentsTyped, At, To, AgentStages
    <3>2. OthersStay(a)
      BY <1>3, <2>1 DEF WriteManifest, AgentsTyped, To, OthersStay
    <3>3. AgentIsSound(a)'
      BY <1>3, <2>1, <1>0 DEF WriteManifest, AgentsTyped, At, To, Outcomes, AgentIsSound,
         BeforeTheTurn, WhileRecording, Afterwards, ToolsOfTheType
    <3> QED
      BY <3>1, <3>2, <3>3, OneAgentMoves
  <2>2. ASSUME NEW found \in {"none", "torn"}, manifest' = [manifest EXCEPT ![a] = found], Refuse(a)
        PROVE  AgentsTyped' /\ AgentsAreSound'
    <3>1. AgentsTyped'
      BY <1>3, <2>2 DEF WriteManifest, Refuse, Trouble, AgentsTyped, To, AgentStages
    <3>2. OthersStay(a)
      BY <1>3, <2>2 DEF WriteManifest, Refuse, Trouble, AgentsTyped, To, OthersStay
    <3>3. manifest'[a] \in {"none", "torn"}
      BY <2>2 DEF AgentsTyped
    <3>4. AgentIsSound(a)'
      BY <1>3, <2>2, <3>3, <1>0, RefusalIsSound DEF WriteManifest, At
    <3> QED
      BY <3>1, <3>2, <3>4, OneAgentMoves
  <2> QED
    BY <1>3, <2>1, <2>2 DEF WriteManifest
<1>4. ASSUME NEW a \in Agents, Spawn(a)
      PROVE  AgentsTyped' /\ AgentsAreSound'
  <2>1. AgentsTyped'
    BY <1>4 DEF Spawn, AgentsTyped, At, To, AgentStages
  <2>2. OthersStay(a)
    BY <1>4 DEF Spawn, AgentsTyped, To, OthersStay
  <2>3. AgentIsSound(a)'
    BY <1>4, <1>0 DEF Spawn, AgentsTyped, At, To, Outcomes, AgentIsSound, BeforeTheTurn,
       WhileRecording, Afterwards, ToolsOfTheType
  <2> QED
    BY <2>1, <2>2, <2>3, OneAgentMoves
<1>5. ASSUME NEW a \in Agents, SpawnFails(a)
      PROVE  AgentsTyped' /\ AgentsAreSound'
  <2>1. AgentsTyped'
    BY <1>5 DEF SpawnFails, AgentsTyped, At, To, AgentStages, Outcomes
  <2>2. OthersStay(a)
    BY <1>5 DEF SpawnFails, AgentsTyped, To, OthersStay
  <2>3. AgentIsSound(a)'
    BY <1>5, <1>0 DEF SpawnFails, AgentsTyped, At, To, Outcomes, AgentIsSound, BeforeTheTurn,
       WhileRecording, Afterwards, ToolsOfTheType
  <2> QED
    BY <2>1, <2>2, <2>3, OneAgentMoves
<1>6. ASSUME NEW a \in Agents, UseTool(a)
      PROVE  AgentsTyped' /\ AgentsAreSound'
  <2>1. PICK tool \in Tried :
          ran' = [ran EXCEPT ![a] = IF tool \in AllowedTools(kind[a]) THEN @ \cup {tool} ELSE @]
    BY <1>6 DEF UseTool
  <2>2. ran' \in [Agents -> SUBSET MvpTools]
    BY <2>1, AllowedToolsAreLimited DEF AgentsTyped
  <2>3. AgentsTyped'
    BY <1>6, <2>2 DEF UseTool, AgentsTyped, At
  <2>4. ran'[a] \subseteq AllowedTools(kind[a])
    BY <2>1, <1>0 DEF AgentsTyped, AgentIsSound, ToolsOfTheType
  <2>5. OthersStay(a)
    BY <1>6, <2>1 DEF UseTool, AgentsTyped, OthersStay
  <2>6. AgentIsSound(a)'
    BY <1>6, <1>0, <2>4 DEF UseTool, At, AgentIsSound, BeforeTheTurn, WhileRecording,
       Afterwards, ToolsOfTheType
  <2> QED
    BY <2>3, <2>5, <2>6, OneAgentMoves
<1>7. ASSUME NEW a \in Agents, EndTurn(a)
      PROVE  AgentsTyped' /\ AgentsAreSound'
  <2>1. AgentsTyped'
    BY <1>7 DEF EndTurn, AgentsTyped, At, To, AgentStages, Outcomes
  <2>2. OthersStay(a)
    BY <1>7 DEF EndTurn, AgentsTyped, To, OthersStay
  <2>3. AgentIsSound(a)'
    BY <1>7, <1>0 DEF EndTurn, AgentsTyped, At, To, Outcomes, AgentIsSound, BeforeTheTurn,
       WhileRecording, Afterwards, ToolsOfTheType
  <2> QED
    BY <2>1, <2>2, <2>3, OneAgentMoves
<1>8. ASSUME NEW a \in Agents, AppendSection(a)
      PROVE  AgentsTyped' /\ AgentsAreSound'
  <2>1. told' \in [Agents -> {"nothing", "running", "error"}]
    BY <1>8 DEF AppendSection, AgentsTyped
  <2>2. /\ outcome[a] \in Outcomes /\ output[a] \in Seq(Sections)
        /\ stage[a] = "append" /\ manifest[a] \in {"running", "torn"}
        /\ outcome[a] = "completed" \/ a \notin trouble => output[a] = <<"task">>
    BY <1>8, <1>0 DEF AppendSection, At, AgentsTyped, AgentIsSound, WhileRecording
  <2>3. /\ UNCHANGED <<manifest, kind, ran>>
        /\ told'[a] \in {told[a], "error"}
        /\ told'[a] = "running" <=> told[a] = "running"
        /\ ran[a] \subseteq AllowedTools(kind[a]) /\ (told[a] # "running" => ran[a] = {})
    BY <1>8, <1>0 DEF AppendSection, AgentsTyped, AgentIsSound, ToolsOfTheType
  <2>4. CASE output' = [output EXCEPT ![a] = Append(@, outcome[a])]
             /\ To(a, "record") /\ UNCHANGED <<outcome, trouble>>
    <3>1. Append(output[a], outcome[a]) \in Seq(Sections)
      BY <2>2 DEF Sections
    <3>2. AgentsTyped'
      BY <1>8, <2>1, <2>4, <3>1 DEF AppendSection, AgentsTyped, To, AgentStages
    <3>3. OthersStay(a)
      BY <1>8, <2>4 DEF AppendSection, AgentsTyped, To, OthersStay
    <3>4. output'[a] # <<>> /\ output'[a][Len(output'[a])] = outcome'[a]
      <4>1. output'[a] = Append(output[a], outcome[a]) /\ outcome'[a] = outcome[a]
        BY <2>4 DEF AgentsTyped
      <4>2. outcome[a] \in Sections
        BY <2>2 DEF Sections
      <4> QED
        BY <4>1, <4>2, <2>2, AppendProperties
    <3>5. output[a] = <<"task">> => output'[a] = <<"task", outcome'[a]>>
      <4>1. output'[a] = Append(output[a], outcome[a]) /\ outcome'[a] = outcome[a]
        BY <2>4 DEF AgentsTyped
      <4>2. <<"task">> \in Seq(Sections) /\ Len(<<"task">>) = 1 /\ outcome[a] \in Sections
        BY <2>2 DEF Sections
      <4>3. LET t == Append(<<"task">>, outcome[a])
            IN  t \in Seq(Sections) /\ Len(t) = 2 /\ t[1] = "task" /\ t[2] = outcome[a]
        BY <4>2, AppendProperties
      <4>4. \A t \in Seq(Sections) : Len(t) = 2 => t = <<t[1], t[2]>>
        OBVIOUS
      <4> QED
        BY <4>1, <4>3, <4>4
    <3>6. stage'[a] = "record" /\ outcome'[a] = outcome[a]
      BY <2>4 DEF To, AgentsTyped
    <3>7. AgentIsSound(a)'
      BY <2>2, <2>3, <2>4, <3>4, <3>5, <3>6 DEF AgentIsSound, BeforeTheTurn, WhileRecording,
         Afterwards, ToolsOfTheType
    <3> QED
      BY <3>2, <3>3, <3>7, OneAgentMoves
  <2>5. ASSUME NEW part \in {<<>>, <<"partial">>}, output' = [output EXCEPT ![a] = @ \o part],
               Unrecorded(a)
        PROVE  AgentsTyped' /\ AgentsAreSound'
    <3>1. part \in Seq(Sections)
      <4>1. <<"partial">> \in Seq(Sections) /\ <<>> \in Seq(Sections)
        BY DEF Sections
      <4> QED
        BY <4>1, <2>5
    <3>2. output[a] \o part \in Seq(Sections)
      BY <2>2, <3>1, ConcatProperties
    <3>3. /\ outcome' \in [Agents -> Outcomes \cup {"none"}] /\ stage' \in [Agents -> AgentStages]
          /\ trouble' \subseteq Agents /\ a \in trouble'
          /\ outcome[a] = "completed" => outcome'[a] = "failed" /\ stage'[a] = "append"
          /\ outcome[a] = "failed" => outcome'[a] = "failed" /\ stage'[a] = "over"
      BY <2>2, <2>5, UnrecordedIsAFailure
    <3>4. AgentsTyped'
      BY <1>8, <2>1, <2>5, <3>2, <3>3 DEF AppendSection, AgentsTyped
    <3>5. OthersStay(a)
      BY <1>8, <2>5 DEF AppendSection, Unrecorded, Trouble, AgentsTyped, To, OthersStay
    <3>6. AgentIsSound(a)'
      BY <2>2, <2>3, <3>3 DEF AgentIsSound, BeforeTheTurn, WhileRecording, Afterwards,
         ToolsOfTheType, Outcomes
    <3> QED
      BY <3>4, <3>5, <3>6, OneAgentMoves
  <2> QED
    BY <1>8, <2>4, <2>5 DEF AppendSection
<1>9. ASSUME NEW a \in Agents, Record(a)
      PROVE  AgentsTyped' /\ AgentsAreSound'
  <2>1. told' \in [Agents -> {"nothing", "running", "error"}]
    BY <1>9 DEF Record, AgentsTyped
  <2>2. /\ outcome[a] \in Outcomes /\ manifest[a] \in {"running", "torn"} /\ stage[a] = "record"
        /\ output[a][Len(output[a])] = outcome[a]
        /\ outcome[a] = "completed" \/ a \notin trouble => output[a] = <<"task", outcome[a]>>
    BY <1>9, <1>0 DEF Record, At, AgentIsSound, WhileRecording
  <2>3. /\ UNCHANGED <<output, kind, ran>>
        /\ told'[a] = "running" <=> told[a] = "running"
        /\ ran[a] \subseteq AllowedTools(kind[a]) /\ (told[a] # "running" => ran[a] = {})
    BY <1>9, <1>0 DEF Record, AgentsTyped, AgentIsSound, ToolsOfTheType
  <2>4. CASE manifest' = [manifest EXCEPT ![a] = outcome[a]]
             /\ To(a, "over") /\ UNCHANGED <<outcome, trouble>>
    <3>1. AgentsTyped'
      BY <1>9, <2>1, <2>2, <2>4 DEF Record, AgentsTyped, To, AgentStages
    <3>2. OthersStay(a)
      BY <1>9, <2>4 DEF Record, AgentsTyped, To, OthersStay
    <3>3. stage'[a] = "over" /\ manifest'[a] = outcome[a]
      BY <2>4 DEF To, AgentsTyped
    <3>4. AgentIsSound(a)'
      BY <2>2, <2>3, <2>4, <3>3 DEF AgentIsSound, BeforeTheTurn, WhileRecording, Afterwards,
         ToolsOfTheType
    <3> QED
      BY <3>1, <3>2, <3>4, OneAgentMoves
  <2>5. ASSUME NEW found \in {manifest[a], "torn"}, manifest' = [manifest EXCEPT ![a] = found],
               Unrecorded(a)
        PROVE  AgentsTyped' /\ AgentsAreSound'
    <3>1. /\ outcome' \in [Agents -> Outcomes \cup {"none"}] /\ stage' \in [Agents -> AgentStages]
          /\ trouble' \subseteq Agents /\ a \in trouble'
          /\ outcome[a] = "completed" => outcome'[a] = "failed" /\ stage'[a] = "append"
          /\ outcome[a] = "failed" => outcome'[a] = "failed" /\ stage'[a] = "over"
      BY <2>2, <2>5, UnrecordedIsAFailure
    <3>2. manifest'[a] \in {"running", "torn"}
      BY <2>2, <2>5 DEF AgentsTyped
    <3>3. AgentsTyped'
      BY <1>9, <2>1, <2>2, <2>5, <3>1 DEF Record, AgentsTyped
    <3>4. OthersStay(a)
      BY <1>9, <2>5 DEF Record, Unrecorded, Trouble, AgentsTyped, To, OthersStay
    <3>5. AgentIsSound(a)'
      BY <2>2, <2>3, <3>1, <3>2 DEF AgentIsSound, BeforeTheTurn, WhileRecording, Afterwards,
         ToolsOfTheType, Outcomes
    <3> QED
      BY <3>3, <3>4, <3>5, OneAgentMoves
  <2> QED
    BY <1>9, <2>4, <2>5 DEF Record
<1>10. CASE Exit
  <2>1. AgentsTyped'
    BY <1>10 DEF Exit, AgentsTyped, AgentStages, Outcomes
  <2> QED
    BY <1>10, <2>1 DEF Exit, AgentsTyped, Outcomes, AgentsAreSound, AgentIsSound, BeforeTheTurn,
       WhileRecording, Afterwards, ToolsOfTheType
<1>11. CASE UNCHANGED agentVars
  BY <1>11 DEF agentVars, AgentsTyped, AgentsAreSound, AgentIsSound, BeforeTheTurn, WhileRecording,
     Afterwards, ToolsOfTheType
<1> QED
  BY <1>1, <1>2, <1>3, <1>4, <1>5, <1>6, <1>7, <1>8, <1>9, <1>10, <1>11 DEF AgentNext

LEMMA AgentsIInvHolds == AgentSpec => []AgentsIInv
<1>1. QED
  BY AgentsIInvInit, AgentsIInvStep, PTL DEF AgentSpec

(* Whatever manifest and output of a sub-agent are found on disk: an       *)
(* outcome is that of the last section, and a file that says "running" is  *)
(* of an agent that runs, of a process that is gone, or of a write whose   *)
(* failure was noticed (execute_agent, persist_agent_terminal_state).      *)
THEOREM ManifestsAreTrue == AgentSpec => []ManifestTellsTheTruth
<1>1. AgentsIInv => ManifestTellsTheTruth
  <2> SUFFICES ASSUME AgentsTyped, AgentsAreSound, NEW a \in Agents
               PROVE  /\ manifest[a] \in {"completed", "failed"} =>
                           /\ stage[a] = "over" /\ output[a][Len(output[a])] = manifest[a]
                           /\ a \notin trouble => output[a] = <<"task", manifest[a]>>
                      /\ manifest[a] = "completed" => \A k \in DOMAIN output[a] : output[a][k] # "failed"
                      /\ manifest[a] \in {"running", "torn"} /\ stage[a] = "over" => a \in trouble \/ exited
    BY DEF AgentsIInv, ManifestTellsTheTruth
  <2>1. BeforeTheTurn(a) /\ WhileRecording(a) /\ Afterwards(a)
    BY DEF AgentsAreSound, AgentIsSound
  <2>2. manifest[a] \in Outcomes => stage[a] = "over"
    BY <2>1 DEF BeforeTheTurn, WhileRecording, AgentsTyped, AgentStages, Outcomes
  <2>3. manifest[a] = "completed" => output[a] = <<"task", "completed">>
    BY <2>1, <2>2 DEF Afterwards, Outcomes
  <2> QED
    BY <2>1, <2>2, <2>3 DEF Afterwards, Outcomes
<1>2. QED
  BY <1>1, AgentsIInvHolds, PTL

(* A sub-agent runs no tool its type was not given, none at all when its   *)
(* call was refused, and never the tool that starts another                *)
(* (allowed_tools_for_subagent, SubagentToolExecutor).                     *)
THEOREM ToolsAreThoseOfTheType == AgentSpec => []AgentsKeepToTheirTools
<1>1. AgentsIInv => AgentsKeepToTheirTools
  BY AllowedToolsAreLimited DEF AgentsIInv, AgentsAreSound, AgentIsSound, ToolsOfTheType, AgentsKeepToTheirTools
<1>2. QED
  BY <1>1, AgentsIInvHolds, PTL

(* What the run checks of sub-agents, for any number of them at once.      *)
THEOREM SubAgentsAreSound == AgentSpec => []SubAgentsInv
<1>1. AgentsIInv => AgentTypeOK
  BY DEF AgentsIInv, AgentsTyped, AgentTypeOK, AgentStages, Outcomes
<1>2. QED
  BY <1>1, AgentsIInvHolds, ManifestsAreTrue, ToolsAreThoseOfTheType, PTL DEF SubAgentsInv

-----------------------------------------------------------------------------
(* The presentation generator.  What the runs' invariants rest on: the     *)
(* values the state takes, ...                                             *)
ProjectStages == {"INIT", "PLANNED", "APPROVED", "RENDERED"}
Projects ==
  [stage : ProjectStages, plan : 0 .. MaxPlans, spec : 0 .. MaxPlans, output : BOOLEAN, revised : BOOLEAN]

PowerGenTyped ==
  /\ doing \in [Sessions -> {"off", "idle", "rendering", "saving", "writing"}]
  /\ project \in [Sessions -> Projects]
  /\ saved \in Projects \cup {Garbled}
  /\ plans \in Seq(BOOLEAN) /\ Len(plans) <= MaxPlans
  /\ slides \in 0 .. MaxPlans
  /\ approved \subseteq 1 .. MaxPlans
  /\ mishap \in BOOLEAN

(* A project is coherent, and what spec it has was approved, also one that *)
(* was kept when the project went back to a new plan.                      *)
Sound(p) == Coherent(p) /\ (p.spec # 0 => p.spec \in approved)

ProjectsAreSound ==
  /\ \A s \in Sessions : Sound(project[s])
  /\ saved # Garbled => Sound(saved)

RenderingLeavesAFile == \A s \in Sessions : doing[s] = "rendering" => slides # 0

OneAtATime ==
  ~mishap => \A s, t \in Sessions : doing[s] # "off" /\ doing[t] # "off" => s = t

PowerGenIInv ==
  /\ PowerGenTyped
  /\ ProjectsAreSound
  /\ RenderingLeavesAFile
  /\ OnlyApprovedIsRendered
  /\ OneAtATime
  /\ SavedIsKnown

-----------------------------------------------------------------------------
LEMMA ProjectsAreNotGarbled == New \in Projects /\ Garbled \notin Projects
<1>1. New \in Projects
  BY PowerGenAssumption DEF New, Projects, ProjectStages
<1>2. Garbled.stage = "torn"
  BY DEF Garbled, New
<1>3. \A p \in Projects : p.stage # "torn"
  BY DEF Projects, ProjectStages
<1> QED
  BY <1>1, <1>2, <1>3

LEMMA NewIsSound == Sound(New)
BY DEF Sound, Coherent, New, Order

(* Approvals are never withdrawn and a file, once rendered, stays: what    *)
(* was sound is, and a step has to see only to the project it changes.     *)
LEMMA SoundnessStays ==
  ASSUME ProjectsAreSound, approved \subseteq approved', slides # 0 => slides' # 0,
         \A s \in Sessions : project'[s] = project[s] \/ Sound(project[s])',
         saved' \in {saved, Garbled} \/ Sound(saved)'
  PROVE  ProjectsAreSound'
<1>1. ASSUME NEW s \in Sessions, project'[s] = project[s]
      PROVE  Sound(project[s])'
  BY <1>1 DEF ProjectsAreSound, Sound, Coherent
<1>2. saved' = saved /\ saved' # Garbled => Sound(saved)'
  BY DEF ProjectsAreSound, Sound, Coherent
<1>3. Garbled' = Garbled
  BY DEF Garbled
<1> QED
  BY <1>1, <1>2, <1>3 DEF ProjectsAreSound

(* The step to a project that must be saved: nothing is on disk yet.       *)
LEMMA BecomesKeepsTheRest ==
  ASSUME PowerGenTyped, OneAtATime, SavedIsKnown, RenderingLeavesAFile,
         NEW s \in Sessions, doing[s] \in {"idle", "rendering"},
         NEW p \in Projects, Becomes(s, p),
         UNCHANGED <<saved, mishap>>, slides' = slides
  PROVE  /\ OneAtATime' /\ SavedIsKnown' /\ RenderingLeavesAFile'
         /\ project' \in [Sessions -> Projects]
         /\ doing' \in [Sessions -> {"off", "idle", "rendering", "saving", "writing"}]
         /\ project'[s] = p /\ \A t \in Sessions \ {s} : project'[t] = project[t]
<1>1. /\ project' \in [Sessions -> Projects]
      /\ doing' \in [Sessions -> {"off", "idle", "rendering", "saving", "writing"}]
      /\ project'[s] = p /\ \A t \in Sessions \ {s} : project'[t] = project[t]
      /\ doing'[s] = "saving" /\ \A t \in Sessions \ {s} : doing'[t] = doing[t]
  BY DEF Becomes, PowerGenTyped
<1>2. OneAtATime'
  BY <1>1 DEF OneAtATime
<1>3. SavedIsKnown'
  <2>1. Garbled' = Garbled
    BY DEF Garbled
  <2> QED
    BY <1>1, <2>1 DEF SavedIsKnown
<1>4. RenderingLeavesAFile'
  BY <1>1 DEF RenderingLeavesAFile
<1> QED
  BY <1>1, <1>2, <1>3, <1>4

LEMMA PowerGenIInvInit == GenInit => PowerGenIInv
<1> SUFFICES ASSUME GenInit
             PROVE  PowerGenIInv
  OBVIOUS
<1>1. PowerGenTyped
  <2>1. plans \in Seq(BOOLEAN) /\ Len(plans) = 0
    BY DEF GenInit
  <2>2. Len(plans) <= MaxPlans /\ slides \in 0 .. MaxPlans
    BY <2>1, PowerGenAssumption DEF GenInit
  <2> QED
    BY <2>1, <2>2, ProjectsAreNotGarbled DEF GenInit, PowerGenTyped
<1>2. ProjectsAreSound
  BY NewIsSound DEF GenInit, ProjectsAreSound
<1>3. SavedIsKnown
  BY ProjectsAreNotGarbled DEF GenInit, SavedIsKnown
<1> QED
  BY <1>1, <1>2, <1>3 DEF GenInit, PowerGenIInv, RenderingLeavesAFile, OnlyApprovedIsRendered, OneAtATime

LEMMA PowerGenIInvStep == PowerGenIInv /\ [GenNext]_genVars => PowerGenIInv'
<1> SUFFICES ASSUME PowerGenIInv, [GenNext]_genVars
             PROVE  PowerGenIInv'
  OBVIOUS
<1> USE DEF PowerGenIInv
<1>1. ASSUME NEW s \in Sessions, Load(s)
      PROVE  PowerGenIInv'
  <2>1. PowerGenTyped'
    BY <1>1 DEF Load, PowerGenTyped
  <2>2. project'[s] = saved /\ \A t \in Sessions \ {s} : project'[t] = project[t]
    BY <1>1 DEF Load, PowerGenTyped
  <2>3. Sound(project[s])'
    BY <1>1, <2>2 DEF Load, ProjectsAreSound, Sound, Coherent
  <2>4. ProjectsAreSound'
    BY <1>1, <2>2, <2>3, SoundnessStays DEF Load
  <2>5. doing'[s] = "idle" /\ \A t \in Sessions \ {s} : doing'[t] = doing[t]
    BY <1>1 DEF Load, PowerGenTyped
  <2>6. ~mishap' => ~mishap /\ \A t \in Sessions : doing[t] = "off"
    BY <1>1 DEF Load
  <2>7. OneAtATime' /\ RenderingLeavesAFile' /\ OnlyApprovedIsRendered'
    BY <1>1, <2>5, <2>6 DEF Load, OneAtATime, RenderingLeavesAFile, OnlyApprovedIsRendered
  <2>8. SavedIsKnown'
    BY <1>1, <2>2, <2>5, <2>6 DEF Load, SavedIsKnown, Garbled
  <2> QED
    BY <2>1, <2>4, <2>7, <2>8
<1>2. ASSUME NEW s \in Sessions, Create(s)
      PROVE  PowerGenIInv'
  <2>1. CASE Draws(TRUE) /\ Becomes(s, [project[s] EXCEPT !.plan = Len(plans'), !.stage = "PLANNED",
                                                          !.revised = FALSE])
    <3>1. PICK p : p = [project[s] EXCEPT !.plan = Len(plans'), !.stage = "PLANNED", !.revised = FALSE]
                   /\ Becomes(s, p)
      BY <2>1
    <3>2. plans' \in Seq(BOOLEAN) /\ Len(plans') \in 0 .. MaxPlans /\ Len(plans') # 0
      BY <2>1, PowerGenAssumption DEF Draws, PowerGenTyped
    <3>3. project[s] \in Projects
      BY DEF PowerGenTyped
    <3>4. p \in Projects /\ p.plan # 0 /\ p.stage = "PLANNED" /\ p.spec = project[s].spec
      <4>1. p \in Projects
        BY <3>1, <3>2, <3>3 DEF Projects, ProjectStages
      <4>2. p.plan = Len(plans') /\ p.stage = "PLANNED" /\ p.spec = project[s].spec
        BY <3>1, <3>3 DEF Projects
      <4> QED
        BY <3>2, <4>1, <4>2
    <3>5. /\ OneAtATime' /\ SavedIsKnown' /\ RenderingLeavesAFile'
          /\ project' \in [Sessions -> Projects]
          /\ doing' \in [Sessions -> {"off", "idle", "rendering", "saving", "writing"}]
          /\ project'[s] = p /\ \A t \in Sessions \ {s} : project'[t] = project[t]
      BY <1>2, <3>1, <3>4, BecomesKeepsTheRest DEF Create
    <3>6. PowerGenTyped'
      BY <1>2, <3>2, <3>5 DEF Create, PowerGenTyped, Garbled
    <3>7. Sound(project[s])'
      BY <1>2, <3>4, <3>5 DEF Create, ProjectsAreSound, Sound, Coherent, Order
    <3>8. ProjectsAreSound'
      BY <1>2, <3>5, <3>7, SoundnessStays DEF Create
    <3> QED
      BY <1>2, <3>5, <3>6, <3>8 DEF Create, OnlyApprovedIsRendered
  <2>2. CASE Draws(FALSE) /\ UNCHANGED <<project, doing>>
    <3>1. PowerGenTyped'
      BY <1>2, <2>2, PowerGenAssumption DEF Create, Draws, PowerGenTyped, Garbled
    <3>2. ProjectsAreSound'
      BY <1>2, <2>2, SoundnessStays DEF Create
    <3> QED
      BY <1>2, <2>2, <3>1, <3>2 DEF Create, OnlyApprovedIsRendered, OneAtATime, SavedIsKnown,
         RenderingLeavesAFile, Garbled
  <2> QED
    BY <1>2, <2>1, <2>2 DEF Create
<1>3. ASSUME NEW s \in Sessions, Revise(s)
      PROVE  PowerGenIInv'
  <2>1. PICK p : p = [project[s] EXCEPT !.plan = Len(plans'), !.revised = TRUE] /\ Becomes(s, p)
    BY <1>3 DEF Revise
  <2>2. plans' \in Seq(BOOLEAN) /\ Len(plans') \in 0 .. MaxPlans /\ Len(plans') # 0
    BY <1>3, PowerGenAssumption DEF Revise, Draws, PowerGenTyped
  <2>3. project[s] \in Projects
    BY DEF PowerGenTyped
  <2>4. /\ p \in Projects /\ p.plan # 0 /\ p.revised /\ p.stage = project[s].stage
        /\ p.spec = project[s].spec /\ p.output = project[s].output
    <3>1. p \in Projects
      BY <2>1, <2>2, <2>3 DEF Projects
    <3>2. /\ p.plan = Len(plans') /\ p.revised = TRUE /\ p.stage = project[s].stage
          /\ p.spec = project[s].spec /\ p.output = project[s].output
      BY <2>1, <2>3 DEF Projects
    <3> QED
      BY <2>2, <3>1, <3>2
  <2>5. /\ OneAtATime' /\ SavedIsKnown' /\ RenderingLeavesAFile'
        /\ project' \in [Sessions -> Projects]
        /\ doing' \in [Sessions -> {"off", "idle", "rendering", "saving", "writing"}]
        /\ project'[s] = p /\ \A t \in Sessions \ {s} : project'[t] = project[t]
    BY <1>3, <2>1, <2>4, BecomesKeepsTheRest DEF Revise
  <2>6. PowerGenTyped'
    BY <1>3, <2>2, <2>5 DEF Revise, PowerGenTyped, Garbled
  <2>7. Sound(project[s])'
    BY <1>3, <2>4, <2>5 DEF Revise, ProjectsAreSound, Sound, Coherent
  <2>8. ProjectsAreSound'
    BY <1>3, <2>5, <2>7, SoundnessStays DEF Revise
  <2> QED
    BY <1>3, <2>5, <2>6, <2>8 DEF Revise, OnlyApprovedIsRendered
<1>4. ASSUME NEW s \in Sessions, Approve(s)
      PROVE  PowerGenIInv'
  <2>1. PICK p : p = [project[s] EXCEPT !.spec = project[s].plan, !.stage = "APPROVED", !.revised = FALSE]
                 /\ Becomes(s, p)
    BY <1>4 DEF Approve
  <2>2. project[s] \in Projects /\ project[s].plan \in 1 .. MaxPlans
    BY <1>4, PowerGenAssumption DEF Approve, PowerGenTyped, Projects
  <2>3. /\ p \in Projects /\ p.stage = "APPROVED"
        /\ p.plan = project[s].plan /\ p.spec = project[s].plan
    BY <2>1, <2>2 DEF Projects, ProjectStages
  <2>4. /\ OneAtATime' /\ SavedIsKnown' /\ RenderingLeavesAFile'
        /\ project' \in [Sessions -> Projects]
        /\ doing' \in [Sessions -> {"off", "idle", "rendering", "saving", "writing"}]
        /\ project'[s] = p /\ \A t \in Sessions \ {s} : project'[t] = project[t]
    BY <1>4, <2>1, <2>3, BecomesKeepsTheRest DEF Approve
  <2>5. PowerGenTyped'
    BY <1>4, <2>2, <2>4 DEF Approve, PowerGenTyped, Garbled
  <2>6. Sound(project[s])'
    BY <1>4, <2>2, <2>3, <2>4 DEF Approve, Sound, Coherent, Order
  <2>7. ProjectsAreSound'
    BY <1>4, <2>4, <2>6, SoundnessStays DEF Approve
  <2> QED
    BY <1>4, <2>4, <2>5, <2>7 DEF Approve, OnlyApprovedIsRendered
<1>5. ASSUME NEW s \in Sessions, Render(s)
      PROVE  PowerGenIInv'
  <2>1. project[s].spec \in 0 .. MaxPlans /\ project[s].spec \in approved
    BY <1>5 DEF Render, PowerGenTyped, Projects, ProjectsAreSound, Sound
  <2>2. PowerGenTyped'
    BY <1>5, <2>1 DEF Render, PowerGenTyped, Garbled
  <2>3. ProjectsAreSound'
    BY <1>5, SoundnessStays DEF Render
  <2>4. doing'[s] = "rendering" /\ \A t \in Sessions \ {s} : doing'[t] = doing[t]
    BY <1>5 DEF Render, PowerGenTyped
  <2>5. SavedIsKnown' /\ OneAtATime'
    BY <1>5, <2>4 DEF Render, SavedIsKnown, OneAtATime, Garbled
  <2> QED
    BY <1>5, <2>1, <2>2, <2>3, <2>4, <2>5 DEF Render, OnlyApprovedIsRendered, RenderingLeavesAFile
<1>6. ASSUME NEW s \in Sessions, Rendered(s)
      PROVE  PowerGenIInv'
  <2>1. CASE Order[project[s].stage] >= Order["APPROVED"]
    <3>1. PICK p : p = [project[s] EXCEPT !.stage = "RENDERED", !.output = TRUE] /\ Becomes(s, p)
      BY <1>6, <2>1 DEF Rendered
    <3>2. project[s] \in Projects
      BY DEF PowerGenTyped
    <3>3. /\ p \in Projects /\ p.stage = "RENDERED" /\ p.output /\ p.plan = project[s].plan
          /\ p.spec = project[s].spec /\ p.revised = project[s].revised
      BY <3>1, <3>2 DEF Projects, ProjectStages
    <3>4. /\ OneAtATime' /\ SavedIsKnown' /\ RenderingLeavesAFile'
          /\ project' \in [Sessions -> Projects]
          /\ doing' \in [Sessions -> {"off", "idle", "rendering", "saving", "writing"}]
          /\ project'[s] = p /\ \A t \in Sessions \ {s} : project'[t] = project[t]
      BY <1>6, <3>1, <3>3, BecomesKeepsTheRest DEF Rendered
    <3>5. PowerGenTyped'
      BY <1>6, <3>4 DEF Rendered, PowerGenTyped, Garbled
    <3>6. slides # 0
      BY <1>6 DEF Rendered, RenderingLeavesAFile
    <3>7. project[s].plan # 0
      BY <2>1, <3>2 DEF ProjectsAreSound, Sound, Coherent, Order, Projects, ProjectStages
    <3>8. Sound(project[s])'
      BY <1>6, <2>1, <3>3, <3>4, <3>6, <3>7 DEF Rendered, ProjectsAreSound, Sound, Coherent
    <3>9. ProjectsAreSound'
      BY <1>6, <3>4, <3>8, SoundnessStays DEF Rendered
    <3> QED
      BY <1>6, <3>4, <3>5, <3>9 DEF Rendered, OnlyApprovedIsRendered
  <2>2. CASE ~(Order[project[s].stage] >= Order["APPROVED"])
    <3>1. UNCHANGED project /\ doing' = [doing EXCEPT ![s] = "idle"]
      BY <1>6, <2>2 DEF Rendered
    <3>2. PowerGenTyped'
      BY <1>6, <3>1 DEF Rendered, PowerGenTyped, Garbled
    <3>3. ProjectsAreSound'
      BY <1>6, <3>1, SoundnessStays DEF Rendered
    <3>4. doing'[s] = "idle" /\ \A t \in Sessions \ {s} : doing'[t] = doing[t]
      BY <3>1 DEF PowerGenTyped
    <3> QED
      BY <1>6, <3>1, <3>2, <3>3, <3>4 DEF Rendered, SavedIsKnown, OneAtATime, OnlyApprovedIsRendered,
         RenderingLeavesAFile, Garbled
  <2> QED
    BY <2>1, <2>2
<1>7. ASSUME NEW s \in Sessions, Reset(s)
      PROVE  PowerGenIInv'
  <2>1. /\ OneAtATime' /\ SavedIsKnown' /\ RenderingLeavesAFile'
        /\ project' \in [Sessions -> Projects]
        /\ doing' \in [Sessions -> {"off", "idle", "rendering", "saving", "writing"}]
        /\ project'[s] = New /\ \A t \in Sessions \ {s} : project'[t] = project[t]
    BY <1>7, ProjectsAreNotGarbled, BecomesKeepsTheRest DEF Reset
  <2>2. PowerGenTyped'
    BY <1>7, <2>1 DEF Reset, PowerGenTyped, Garbled
  <2>3. Sound(project[s])'
    BY <2>1 DEF Sound, Coherent, New, Order
  <2>4. ProjectsAreSound'
    BY <1>7, <2>1, <2>3, SoundnessStays DEF Reset
  <2> QED
    BY <1>7, <2>1, <2>2, <2>4 DEF Reset, OnlyApprovedIsRendered
<1>8. ASSUME NEW s \in Sessions, BeginSave(s)
      PROVE  PowerGenIInv'
  <2>1. PowerGenTyped'
    BY <1>8 DEF BeginSave, PowerGenTyped, Garbled
  <2>2. ProjectsAreSound'
    BY <1>8, SoundnessStays DEF BeginSave
  <2>3. doing'[s] = "writing" /\ \A t \in Sessions \ {s} : doing'[t] = doing[t]
    BY <1>8 DEF BeginSave, PowerGenTyped
  <2> QED
    BY <1>8, <2>1, <2>2, <2>3 DEF BeginSave, SavedIsKnown, OneAtATime, OnlyApprovedIsRendered,
       RenderingLeavesAFile
<1>9. ASSUME NEW s \in Sessions, Write(s)
      PROVE  PowerGenIInv'
  <2>1. saved' \in Projects
    BY <1>9 DEF Write, PowerGenTyped
  <2>2. PowerGenTyped'
    BY <1>9, <2>1 DEF Write, PowerGenTyped
  <2>3. Sound(saved)'
    BY <1>9 DEF Write, ProjectsAreSound, Sound, Coherent
  <2>4. ProjectsAreSound'
    BY <1>9, <2>3, SoundnessStays DEF Write
  <2>5. doing'[s] = "idle" /\ \A t \in Sessions \ {s} : doing'[t] = doing[t]
    BY <1>9 DEF Write, PowerGenTyped
  <2>6. saved' # Garbled'
    BY <2>1, ProjectsAreNotGarbled DEF Garbled
  <2> QED
    BY <1>9, <2>2, <2>4, <2>5, <2>6 DEF Write, SavedIsKnown, OneAtATime, OnlyApprovedIsRendered,
       RenderingLeavesAFile
<1>10. ASSUME NEW s \in Sessions, SaveFails(s)
       PROVE  PowerGenIInv'
  <2>1. PowerGenTyped'
    BY <1>10 DEF SaveFails, PowerGenTyped, Garbled
  <2>2. ProjectsAreSound'
    BY <1>10, SoundnessStays DEF SaveFails
  <2>3. doing'[s] = "idle" /\ \A t \in Sessions \ {s} : doing'[t] = doing[t]
    BY <1>10 DEF SaveFails, PowerGenTyped
  <2> QED
    BY <1>10, <2>1, <2>2, <2>3 DEF SaveFails, SavedIsKnown, OneAtATime, OnlyApprovedIsRendered,
       RenderingLeavesAFile
<1>11. ASSUME NEW s \in Sessions, Quit(s)
       PROVE  PowerGenIInv'
  <2>1. PowerGenTyped'
    BY <1>11, ProjectsAreNotGarbled DEF Quit, PowerGenTyped, Garbled
  <2>2. project'[s] = New /\ \A t \in Sessions \ {s} : project'[t] = project[t]
    BY <1>11 DEF Quit, PowerGenTyped
  <2>3. Sound(project[s])'
    BY <2>2 DEF Sound, Coherent, New, Order
  <2>4. ProjectsAreSound'
    BY <1>11, <2>2, <2>3, SoundnessStays DEF Quit
  <2>5. doing'[s] = "off" /\ \A t \in Sessions \ {s} : doing'[t] = doing[t]
    BY <1>11 DEF Quit, PowerGenTyped
  <2>6. ~mishap' => ~mishap /\ doing[s] = "idle"
    BY <1>11 DEF Quit
  <2> QED
    BY <1>11, <2>1, <2>2, <2>4, <2>5, <2>6 DEF Quit, SavedIsKnown, OneAtATime,
       OnlyApprovedIsRendered, RenderingLeavesAFile, Garbled
<1>12. CASE UNCHANGED genVars
  <2>1. PowerGenTyped'
    BY <1>12 DEF genVars, PowerGenTyped, Garbled
  <2>2. ProjectsAreSound'
    BY <1>12, SoundnessStays DEF genVars
  <2> QED
    BY <1>12, <2>1, <2>2 DEF genVars, SavedIsKnown, OneAtATime, OnlyApprovedIsRendered,
       RenderingLeavesAFile, Garbled
<1> QED
  BY <1>1, <1>2, <1>3, <1>4, <1>5, <1>6, <1>7, <1>8, <1>9, <1>10, <1>11, <1>12 DEF GenNext

LEMMA PowerGenIInvHolds == GenSpec => []PowerGenIInv
<1>1. QED
  BY PowerGenIInvInit, PowerGenIInvStep, PTL DEF GenSpec

(* A project, in memory or in project.json, is at a stage whose work was   *)
(* done (ProjectState and its advance_to methods), whoever else saved      *)
(* over it.                                                                *)
THEOREM StagesAreTrue == GenSpec => []StagesTellTheTruth
<1>1. PowerGenIInv => StagesTellTheTruth
  BY DEF PowerGenIInv, ProjectsAreSound, Sound, StagesTellTheTruth
<1>2. QED
  BY <1>1, PowerGenIInvHolds, PTL

(* The rendered file is of a plan whose spec was approved, though a render *)
(* writes it before it asks for the stage.                                 *)
THEOREM RenderedWasApproved == GenSpec => []OnlyApprovedIsRendered
<1>1. PowerGenIInv => OnlyApprovedIsRendered
  BY DEF PowerGenIInv
<1>2. QED
  BY <1>1, PowerGenIInvHolds, PTL

(* What the run checks of the generator, for any sessions and plans: also  *)
(* that without a mishap nothing a waiting session knows is unsaved.       *)
THEOREM GeneratorIsSound == GenSpec => []PowerGenInv
<1>1. PowerGenIInv => GenTypeOK /\ SavedIsKnown
  BY DEF PowerGenIInv, PowerGenTyped, GenTypeOK
<1>2. QED
  BY <1>1, PowerGenIInvHolds, StagesAreTrue, RenderedWasApproved, PTL DEF PowerGenInv

-----------------------------------------------------------------------------
(* The shell.  What the run's invariant rests on: nothing is left of a     *)
(* call before the next one, ...                                           *)
Calls == [tool : Tools, limit : BOOLEAN, background : BOOLEAN]

ShellTyped ==
  /\ call \in Calls
  /\ phase \in {"idle", "prepared", "feeding", "waiting", "draining", "answered"}
  /\ child \in {"none", "running", "exited", "killed"}
  /\ left \in Nat /\ unsent \in Nat /\ wrote \in Nat /\ got \in Nat
  /\ stdin \in 0 .. Capacity /\ pipe \in 0 .. Capacity
  /\ holds \in BOOLEAN /\ expired \in BOOLEAN
  /\ answer \in {"none", "done", "timeout", "error", "started"}

NothingLingers ==
  phase \in {"idle", "prepared"} =>
    /\ call = NoCall /\ child = "none" /\ answer = "none"
    /\ wrote = 0 /\ got = 0 /\ pipe = 0 /\ stdin = 0

(* ... a process that ended had written all, and while its output is read  *)
(* it was ended by nobody, ...                                             *)
EndsAreKnown ==
  /\ child = "exited" => left = 0
  /\ phase \in {"feeding", "waiting"} => child \in {"running", "exited"} /\ ~call.background
  /\ phase = "draining" => Polls /\ child \in {"exited", "killed"}
  /\ phase = "answered" => child # "none"

FeedersArePlugins == phase = "feeding" => call.tool = "plugin"

(* ... nothing is lost between the process and the tool, except what bash  *)
(* gave up, ...                                                            *)
OutputIsKept ==
  ~call.background /\ ~(answer = "timeout" /\ call.tool = "bash") => wrote = pipe + got

(* ... PowerShell with a limit reads nothing before the end, which a       *)
(* command comes to by itself only if a pipe holds what it writes, ...     *)
PollsReadLate ==
  Polls => /\ phase = "waiting" => got = 0
           /\ child = "running" => phase = "waiting"
           /\ child = "exited" => wrote <= Capacity

(* ... and each answer says how the process ended.                         *)
AnswersAreTrue ==
  /\ answer = "none" <=> phase # "answered"
  /\ answer = "started" <=> call.background
  /\ answer = "done" => child = "exited" /\ pipe = 0
  /\ answer = "error" => child # "running" /\ call.tool = "plugin"
  /\ answer = "timeout" => call.tool = "bash" \/ (Polls /\ child = "killed" /\ pipe = 0)

ShellIInv ==
  /\ ShellTyped /\ NothingLingers /\ EndsAreKnown /\ FeedersArePlugins
  /\ OutputIsKept /\ PollsReadLate
  /\ AnswersAreTrue /\ SandboxIsHonest

(* A call begins with nothing of another, and its sandbox is none yet.     *)
LEMMA NoCallIsACall == NoCall \in Calls /\ ~NoCall.background /\ ~NoCall.limit /\ NoCall.tool = "repl"
BY DEF NoCall, Calls, Tools

LEMMA ShellIInvInit == ShellInit => ShellIInv
<1> SUFFICES ASSUME ShellInit PROVE ShellIInv
  OBVIOUS
<1>1. call \in Calls /\ ~call.background /\ ~call.limit /\ call.tool = "repl" /\ call = NoCall
  BY NoCallIsACall DEF ShellInit
<1>2. ShellTyped
  <2>1. holds \in BOOLEAN /\ expired \in BOOLEAN
    BY Zenon DEF ShellInit
  <2>2. /\ phase = "idle" /\ child = "none" /\ left = 0 /\ stdin = 0 /\ unsent = 0 /\ pipe = 0
        /\ wrote = 0 /\ got = 0 /\ answer = "none"
    BY DEF ShellInit
  <2> QED
    BY <1>1, <2>1, <2>2, ShellAssumption DEF ShellTyped
<1>3. NothingLingers /\ EndsAreKnown /\ FeedersArePlugins /\ OutputIsKept
  BY <1>1 DEF ShellInit, NothingLingers, EndsAreKnown, FeedersArePlugins, OutputIsKept
<1>4. PollsReadLate /\ AnswersAreTrue /\ SandboxIsHonest
  BY <1>1 DEF ShellInit, PollsReadLate, Polls, AnswersAreTrue, SandboxIsHonest
<1> QED
  BY <1>2, <1>3, <1>4 DEF ShellIInv

(* A sandbox status that resolve_sandbox_status_for_request computes has   *)
(* what it says, and names what it lacks.                                  *)
Honest(status) ==
  LET r == status.requested
  IN  /\ status.active => (r.namespace => status.namespace) /\ (r.network => status.network)
      /\ r.enabled /\ ~status.active => status.reasons # {}
      /\ r.enabled /\ r.network /\ ~status.network => "network" \in status.reasons
      /\ ~r.enabled => Launcher(status) = "sh"
      /\ status.network => Launcher(status) = "unshare"

ShellAsks == [enabled : BOOLEAN, namespace : BOOLEAN, network : BOOLEAN, mode : Modes, mounts : BOOLEAN]

LEMMA RequestsResolve ==
  ASSUME NEW config \in Requests, NEW input \in Requests
  PROVE  ResolveRequest(config, input) \in ShellAsks
<1> DEFINE r == ResolveRequest(config, input)
           m == First(input.mode, config.mode, "workspace-only")
<1>1. m \in Modes
  BY DEF Requests, First, Modes
<1> HIDE DEF m
<1> QED
  BY <1>1 DEF ResolveRequest, ShellAsks, m

LEMMA StatusesAreHonest ==
  ASSUME NEW r \in ShellAsks, NEW supported \in BOOLEAN
  PROVE  Honest(ResolveStatus(r, supported))
<1> DEFINE status == ResolveStatus(r, supported)
<1>1. /\ status.requested = r
      /\ status.active = (r.enabled /\ (r.namespace => supported) /\ (r.network => supported))
      /\ status.namespace = (r.enabled /\ r.namespace /\ supported)
      /\ status.network = (r.enabled /\ r.network /\ supported)
      /\ status.filesystem = (r.enabled /\ r.mode # "off")
      /\ status.reasons = Reasons(r, supported)
  BY DEF ResolveStatus
<1>2. r.enabled \in BOOLEAN /\ r.namespace \in BOOLEAN /\ r.network \in BOOLEAN
  BY DEF ShellAsks
<1> HIDE DEF status
<1>3. r.enabled /\ r.network /\ ~supported => "network" \in status.reasons
  BY <1>1 DEF Reasons
<1>4. r.enabled /\ r.namespace /\ ~supported => "namespace" \in status.reasons
  BY <1>1 DEF Reasons
<1>5. status.active => (r.namespace => status.namespace) /\ (r.network => status.network)
  BY <1>1, <1>2
<1>6. r.enabled /\ ~status.active => status.reasons # {}
  BY <1>1, <1>2, <1>3, <1>4
<1>7. r.enabled /\ r.network /\ ~status.network => "network" \in status.reasons
  BY <1>1, <1>2, <1>3
<1>8. ~r.enabled => Launcher(status) = "sh"
  BY <1>1, <1>2 DEF Launcher
<1>9. status.network => Launcher(status) = "unshare"
  BY <1>1, <1>2 DEF Launcher
<1>10. Honest(status)
  BY <1>1, <1>5, <1>6, <1>7, <1>8, <1>9 DEF Honest
<1> QED
  BY <1>10 DEF status

(* What a step does to a call leaves the sandbox of the next one alone.    *)
LEMMA OthersAreHonest ==
  ASSUME phase' # "prepared" \/ (phase' = phase /\ sandbox' = sandbox), SandboxIsHonest
  PROVE  SandboxIsHonest'
BY DEF SandboxIsHonest, Launcher

LEMMA ShellIInvStep == ShellIInv /\ [ShellNext]_shellVars => ShellIInv'
<1> SUFFICES ASSUME ShellIInv, [ShellNext]_shellVars PROVE ShellIInv'
  OBVIOUS
<1> USE ShellAssumption
<1>1. ASSUME Prepare PROVE ShellIInv'
  <2>1. SandboxIsHonest'
    <3>1. PICK config \in Requests, input \in Requests, supported \in BOOLEAN :
            sandbox' = ResolveStatus(ResolveRequest(config, input), supported)
      BY <1>1 DEF Prepare
    <3>2. Honest(sandbox')
      BY <3>1, RequestsResolve, StatusesAreHonest
    <3> QED
      BY <3>2 DEF SandboxIsHonest, Honest, Launcher
  <2> QED
    BY <1>1, <2>1 DEF Prepare, ShellIInv, ShellTyped, NothingLingers, EndsAreKnown, FeedersArePlugins, OutputIsKept,
       PollsReadLate, Polls, AnswersAreTrue
<1>2. ASSUME NEW tool \in Tools, NEW limit \in BOOLEAN, NEW background \in BOOLEAN,
             Start(tool, limit, background)
      PROVE  ShellIInv'
  <2>1. SandboxIsHonest'
    BY <1>2 DEF Start, SandboxIsHonest
  <2>2. call'.tool = tool /\ call'.limit = limit /\ call'.background = background
    BY <1>2 DEF Start
  <2>3. /\ phase \in {"idle", "prepared"} /\ child' = "running" /\ left' \in Nat /\ unsent' \in Nat
        /\ phase' = IF background THEN "answered" ELSE IF tool = "plugin" THEN "feeding" ELSE "waiting"
        /\ answer' = IF background THEN "started" ELSE "none"
        /\ stdin' = stdin /\ pipe' = pipe /\ wrote' = wrote /\ got' = got /\ holds' = holds
        /\ expired' = expired
    BY <1>2 DEF Start
  <2>4. call' \in Calls
    BY <1>2 DEF Start, Calls
  <2>5. ShellTyped'
    BY <2>3, <2>4 DEF ShellIInv, ShellTyped
  <2>6. (NothingLingers /\ EndsAreKnown /\ FeedersArePlugins /\ OutputIsKept)'
    BY <2>2, <2>3 DEF ShellIInv, NothingLingers, EndsAreKnown, FeedersArePlugins, OutputIsKept
  <2>7. PollsReadLate'
    <3>1. ~(background /\ limit)
      BY <1>2 DEF Start
    <3>2. phase' = "waiting" \/ ~Polls'
      BY <2>2, <2>3, <3>1 DEF Polls
    <3> QED
      BY <2>3, <3>2 DEF ShellIInv, NothingLingers, PollsReadLate
  <2>8. AnswersAreTrue'
    <3>1. CASE background
      BY <2>2, <2>3, <3>1 DEF AnswersAreTrue
    <3>2. CASE ~background
      BY <2>2, <2>3, <3>2 DEF AnswersAreTrue
    <3> QED
      BY <3>1, <3>2
  <2> QED
    BY <2>1, <2>5, <2>6, <2>7, <2>8 DEF ShellIInv
<1>3. CASE ChildWrites
  <2>1. SandboxIsHonest'
    BY <1>3, OthersAreHonest DEF ChildWrites, ShellIInv
  <2> QED
    BY <1>3, <2>1 DEF ChildWrites, ReaderGone, ShellIInv, ShellTyped, Calls, NothingLingers,
       EndsAreKnown, FeedersArePlugins, OutputIsKept, PollsReadLate, Polls, AnswersAreTrue
<1>4. CASE ChildReads \/ ChildForks \/ ForkedExits
  <2>1. SandboxIsHonest'
    BY <1>4, OthersAreHonest DEF ChildReads, ChildForks, ForkedExits, ShellIInv
  <2>2. ShellTyped'
    <3>1. holds' \in BOOLEAN /\ expired' \in BOOLEAN
      BY <1>4, Zenon DEF ChildReads, ChildForks, ForkedExits, ShellIInv, ShellTyped
    <3>2. /\ call' = call /\ phase' = phase /\ child' = child /\ left' = left /\ pipe' = pipe
          /\ wrote' = wrote /\ got' = got /\ answer' = answer /\ unsent' = unsent
          /\ stdin' = stdin \/ (stdin > 0 /\ stdin' = stdin - 1)
      BY <1>4 DEF ChildReads, ChildForks, ForkedExits
    <3> QED
      BY <3>1, <3>2 DEF ShellIInv, ShellTyped
  <2>3. /\ call' = call /\ phase' = phase /\ child' = child /\ left' = left /\ pipe' = pipe
        /\ wrote' = wrote /\ got' = got /\ answer' = answer
        /\ child = "running" \/ stdin' = stdin
    BY <1>4 DEF ChildReads, ChildForks, ForkedExits
  <2> QED
    BY <2>1, <2>2, <2>3 DEF ShellIInv, NothingLingers, EndsAreKnown, FeedersArePlugins,
       OutputIsKept, PollsReadLate, Polls, AnswersAreTrue
<1>5. CASE ChildExits
  <2>1. SandboxIsHonest'
    BY <1>5, OthersAreHonest DEF ChildExits, ShellIInv
  <2> QED
    BY <1>5, <2>1 DEF ChildExits, ShellIInv, ShellTyped, NothingLingers,
       EndsAreKnown, FeedersArePlugins, OutputIsKept, PollsReadLate, Polls, AnswersAreTrue
<1>6. CASE Feed
  <2>1. SandboxIsHonest'
    BY <1>6, OthersAreHonest DEF Feed, Answers, ShellIInv
  <2>2. call.tool = "plugin"
    BY <1>6 DEF Feed, ShellIInv, FeedersArePlugins
  <2> QED
    BY <1>6, <2>1, <2>2 DEF Feed, Answers, ShellIInv, ShellTyped, NothingLingers,
       EndsAreKnown, FeedersArePlugins, OutputIsKept, PollsReadLate, Polls, AnswersAreTrue
<1>7. CASE Read
  <2>1. SandboxIsHonest'
    BY <1>7, OthersAreHonest DEF Read, ShellIInv
  <2> QED
    BY <1>7, <2>1 DEF Read, ShellIInv, ShellTyped, NothingLingers,
       EndsAreKnown, FeedersArePlugins, OutputIsKept, PollsReadLate, Polls, AnswersAreTrue
<1>8. CASE Finish \/ Exited \/ Expire
  <2>1. SandboxIsHonest'
    BY <1>8, OthersAreHonest DEF Finish, Exited, Expire, Answers, ShellIInv
  <2> QED
    BY <1>8, <2>1 DEF Finish, Exited, Expire, Answers, EndOfFile, ShellIInv, ShellTyped,
       NothingLingers, EndsAreKnown, FeedersArePlugins, OutputIsKept, PollsReadLate, Polls, AnswersAreTrue
<1>9. CASE Drained \/ GiveUp \/ Kill
  <2>1. SandboxIsHonest'
    BY <1>9, OthersAreHonest DEF Drained, GiveUp, Kill, Answers, ShellIInv
  <2> QED
    BY <1>9, <2>1 DEF Drained, GiveUp, Kill, Answers, EndOfFile, ShellIInv, ShellTyped,
       NothingLingers, EndsAreKnown, FeedersArePlugins, OutputIsKept, PollsReadLate, Polls, AnswersAreTrue
<1>10. CASE Again
  <2>1. /\ call' \in Calls /\ ~call'.background /\ ~call'.limit /\ call' = NoCall
        /\ phase' = "idle"
    BY <1>10, NoCallIsACall DEF Again
  <2>2. ShellTyped'
    <3>1. holds' \in BOOLEAN /\ expired' \in BOOLEAN
      BY <1>10, Zenon DEF Again, ShellIInv, ShellTyped
    <3>2. /\ child' = "none" /\ left' = 0 /\ stdin' = 0 /\ unsent' = 0 /\ pipe' = 0
          /\ wrote' = 0 /\ got' = 0 /\ answer' = "none"
      BY <1>10 DEF Again
    <3> QED
      BY <2>1, <3>1, <3>2 DEF ShellTyped
  <2>3. (NothingLingers /\ EndsAreKnown /\ FeedersArePlugins /\ OutputIsKept)'
    BY <1>10, <2>1 DEF Again, NothingLingers, EndsAreKnown, FeedersArePlugins, OutputIsKept
  <2>4. (PollsReadLate /\ AnswersAreTrue /\ SandboxIsHonest)'
    BY <1>10, <2>1 DEF Again, PollsReadLate, Polls, AnswersAreTrue, SandboxIsHonest
  <2> QED
    BY <2>2, <2>3, <2>4 DEF ShellIInv
<1>11. CASE UNCHANGED shellVars
  BY <1>11 DEF shellVars, ShellIInv, ShellTyped, NothingLingers, EndsAreKnown, FeedersArePlugins, OutputIsKept,
     PollsReadLate, Polls, AnswersAreTrue, SandboxIsHonest, Launcher
<1> QED
  BY <1>1, <1>2, <1>3, <1>4, <1>5, <1>6, <1>7, <1>8, <1>9, <1>10, <1>11
     DEF ShellNext, Command, Tool

LEMMA ShellIInvHolds == ShellSpec => []ShellIInv
<1>1. ShellInit => ShellIInv
  BY ShellIInvInit
<1>2. ShellIInv /\ [ShellNext]_shellVars => ShellIInv'
  BY ShellIInvStep
<1> QED
  BY <1>1, <1>2, PTL DEF ShellSpec

(* What the run checks of the tools that run a process, whatever a pipe    *)
(* holds and a command writes or reads: output reported as complete is all *)
(* of it, PowerShell leaves no process behind and reports what was written *)
(* even when the time is over, and a sandbox reports what it lacks.        *)
THEOREM ShellTellsTheTruth == ShellSpec => []ShellInv
<1>1. ShellIInv => ShellInv
  <2> SUFFICES ASSUME ShellIInv PROVE ShellInv
    OBVIOUS
  <2>1. ShellTypeOK /\ SandboxIsHonest
    BY DEF ShellIInv, ShellTyped, NothingLingers, OutputIsKept, ShellTypeOK
  <2>2. DoneIsWhole
    BY DEF ShellIInv, ShellTyped, DoneIsWhole, AnswersAreTrue, EndsAreKnown, FeedersArePlugins, OutputIsKept
  <2>3. TimeoutReports
    BY DEF ShellIInv, ShellTyped, TimeoutReports, AnswersAreTrue, OutputIsKept
  <2>4. StraysAreBash
    BY DEF ShellIInv, ShellTyped, StraysAreBash, AnswersAreTrue
  <2>5. LongOutputTimesOut
    BY DEF ShellIInv, LongOutputTimesOut, AnswersAreTrue, PollsReadLate
  <2> QED
    BY <2>1, <2>2, <2>3, <2>4, <2>5 DEF ShellInv
<1>2. QED
  BY <1>1, ShellIInvHolds, PTL

-----------------------------------------------------------------------------
(* The files that tools share.  What the invariant rests on: the values,   *)
DocumentKinds == {"notebook", "settings", "todos", "text"}
Items == [id : Nat, by : 0 .. MaxEdits]
FileCalls == UNION {Operations(document, by) : document \in DocumentKinds, by \in 1 .. MaxEdits}
Jobs == [at : {"read", "truncated"}, file : Files, op : FileCalls, content : Seq(Items), alone : BOOLEAN]

FilesTyped ==
  /\ disk \in [Files -> Seq(Items)] /\ expected \in [Files -> Seq(Items)]
  /\ clean \in [Files -> BOOLEAN] /\ deleted \subseteq Files
  /\ job \in [Threads -> Jobs \cup {NoJob}]
  /\ edits \in 0 .. MaxEdits /\ dead \in BOOLEAN
  /\ \A t \in Threads :
       job[t] # NoJob => \E by \in 1 .. MaxEdits : job[t].op \in Operations(Documents[job[t].file], by)

(* ... that on a file where nothing went wrong one call works at most, on  *)
(* what the calls before it made, ...                                      *)
WorksOn(t, f) == job[t] # NoJob /\ job[t].file = f
CleanIsAlone(f) ==
  clean[f] =>
    /\ \A t, u \in Threads : WorksOn(t, f) /\ WorksOn(u, f) => t = u
    /\ (\A t \in Threads : ~WorksOn(t, f)) => disk[f] = expected[f]
    /\ \A t \in Threads : WorksOn(t, f) =>
         /\ job[t].content = Result(expected[f], job[t].op)
         /\ job[t].at = "read" => disk[f] = expected[f]

(* ... that a call which replaces everything writes just that, ...         *)
WholeIsWhole(f) ==
  \A t \in Threads : WorksOn(t, f) /\ Whole(job[t].op) => job[t].content = job[t].op.items

(* ... and that the ids of cells are their numbers in some order.          *)
Numbered(cells) ==
  /\ \A k \in 1 .. Len(cells) : cells[k].id \in 1 .. Len(cells)
  /\ \A j, k \in 1 .. Len(cells) : cells[j].id = cells[k].id => j = k
CellsAreNumbered(f) ==
  Documents[f] = "notebook" /\ f \notin deleted =>
    /\ IsTorn(disk[f]) \/ Numbered(disk[f])
    /\ \A t \in Threads : WorksOn(t, f) /\ job[t].op.mode # "delete" => Numbered(job[t].content)

FilesIInv ==
  /\ FilesTyped
  /\ \A f \in Files : CleanIsAlone(f) /\ WholeIsWhole(f) /\ CellsAreNumbered(f)

LEMMA LeastExists ==
  ASSUME NEW T, T \subseteq Nat, T # {}
  PROVE  \E x \in T : \A y \in T : x <= y
<1> DEFINE R == OpToRel(<, Nat)
<1>1. IsWellFoundedOn(R, Nat)
  BY NatLessThanWellFounded
<1>2. \A x, y \in Nat : y < x => <<y, x>> \in R
  BY DEF OpToRel
<1> HIDE DEF R
<1>3. PICK x \in T : \A y \in T : <<y, x>> \notin R
  BY <1>1, WFMin
<1>4. \A y \in T : x \in Nat /\ y \in Nat /\ ~(y < x)
  BY <1>2, <1>3, Zenon
<1> QED
  BY <1>4

(* The first with an id is one of those that have it.                      *)
LEMMA IndexIsFound ==
  ASSUME NEW cells \in Seq(Items), NEW id, Finds(cells, id)
  PROVE  IndexOf(cells, id) \in 1 .. Len(cells)
<1> DEFINE T == {k \in 1 .. Len(cells) : cells[k].id = id}
           Leads(k) == cells[k].id = id /\ \A j \in 1 .. k - 1 : cells[j].id # id
<1>1. DOMAIN cells = 1 .. Len(cells) /\ Len(cells) \in Nat
  BY LenProperties
<1>2. T \subseteq Nat /\ T # {}
  BY <1>1 DEF Finds
<1>3. PICK x \in T : \A y \in T : x <= y
  BY <1>2, LeastExists
<1>4. x \in DOMAIN cells /\ Leads(x)
  <2>1. ASSUME NEW j \in 1 .. x - 1
        PROVE  cells[j].id # id
    <3>1. j \in 1 .. Len(cells) /\ ~(x <= j)
      BY <1>1, <2>1
    <3> QED
      BY <1>3, <3>1
  <2> QED
    BY <1>1, <2>1
<1>5. IndexOf(cells, id) \in DOMAIN cells
  <2> HIDE DEF Leads
  <2>1. (CHOOSE k \in DOMAIN cells : Leads(k)) \in DOMAIN cells
    BY <1>4
  <2> QED
    BY <2>1 DEF IndexOf, Leads
<1> QED
  BY <1>1, <1>5

LEMMA Inserted ==
  ASSUME NEW cells \in Seq(Items), NEW i \in 1 .. Len(cells) + 1, NEW e \in Items
  PROVE  /\ InsertAt(cells, i, e) \in Seq(Items) /\ Len(InsertAt(cells, i, e)) = Len(cells) + 1
         /\ \A k \in 1 .. Len(cells) + 1 :
              InsertAt(cells, i, e)[k] = IF k < i THEN cells[k] ELSE IF k = i THEN e ELSE cells[k - 1]
<1> DEFINE n == Len(cells)
           front == SubSeq(cells, 1, i - 1)
           back == SubSeq(cells, i, n)
           s == front \o <<e>>
<1>1. n \in Nat /\ i \in Nat /\ 1 <= i /\ i <= n + 1 /\ \A k \in 1 .. n : cells[k] \in Items
  BY LenProperties, ElementOfSeq
<1>2. front \in Seq(Items) /\ Len(front) = i - 1 /\ \A k \in 1 .. i - 1 : front[k] = cells[k]
  <2>1. \A k \in 1 .. i - 1 : cells[k] \in Items
    BY <1>1
  <2>2. /\ SubSeq(cells, 1, i - 1) \in Seq(Items)
        /\ Len(SubSeq(cells, 1, i - 1)) = IF 1 <= i - 1 THEN i - 1 - 1 + 1 ELSE 0
        /\ \A k \in 1 .. i - 1 - 1 + 1 : SubSeq(cells, 1, i - 1)[k] = cells[1 + k - 1]
    BY <1>1, <2>1, SubSeqProperties
  <2> QED
    BY <1>1, <2>2
<1>3. back \in Seq(Items) /\ Len(back) = n - i + 1 /\ \A k \in 1 .. n - i + 1 : back[k] = cells[i + k - 1]
  <2>1. \A k \in i .. n : cells[k] \in Items
    BY <1>1
  <2>2. /\ SubSeq(cells, i, n) \in Seq(Items)
        /\ Len(SubSeq(cells, i, n)) = IF i <= n THEN n - i + 1 ELSE 0
        /\ \A k \in 1 .. n - i + 1 : SubSeq(cells, i, n)[k] = cells[i + k - 1]
    BY <1>1, <2>1, SubSeqProperties
  <2> QED
    BY <1>1, <2>2
<1>4. <<e>> \in Seq(Items) /\ Len(<<e>>) = 1 /\ <<e>>[1] = e
  OBVIOUS
<1> HIDE DEF front, back, n
<1>5. s \in Seq(Items) /\ Len(s) = i /\ \A k \in 1 .. i : s[k] = IF k < i THEN cells[k] ELSE e
  <2>1. /\ s \in Seq(Items) /\ Len(s) = Len(front) + 1
        /\ \A k \in 1 .. Len(front) + 1 : s[k] = IF k <= Len(front) THEN front[k] ELSE <<e>>[k - Len(front)]
    BY <1>2, <1>4, ConcatProperties
  <2> QED
    BY <1>1, <1>2, <1>4, <2>1
<1> HIDE DEF s
<1>6. /\ s \o back \in Seq(Items) /\ Len(s \o back) = n + 1
      /\ \A k \in 1 .. n + 1 :
           (s \o back)[k] = IF k < i THEN cells[k] ELSE IF k = i THEN e ELSE cells[k - 1]
  <2>1. /\ s \o back \in Seq(Items) /\ Len(s \o back) = Len(s) + Len(back)
        /\ \A k \in 1 .. Len(s) + Len(back) : (s \o back)[k] = IF k <= Len(s) THEN s[k] ELSE back[k - Len(s)]
    BY <1>3, <1>5, ConcatProperties
  <2>2. Len(s) + Len(back) = n + 1
    BY <1>1, <1>3, <1>5
  <2>3. ASSUME NEW k \in 1 .. n + 1
        PROVE  (s \o back)[k] = IF k < i THEN cells[k] ELSE IF k = i THEN e ELSE cells[k - 1]
    <3>1. CASE k <= i
      BY <1>1, <1>5, <2>1, <2>2, <3>1
    <3>2. CASE ~(k <= i)
      <4>1. (s \o back)[k] = back[k - i] /\ k - i \in 1 .. n - i + 1 /\ i + (k - i) - 1 = k - 1
        BY <1>1, <1>5, <2>1, <2>2, <3>2
      <4> QED
        BY <1>1, <1>3, <3>2, <4>1
    <3> QED
      BY <3>1, <3>2
  <2> QED
    BY <2>1, <2>2, <2>3
<1> QED
  BY <1>6 DEF InsertAt, n, front, back, s

LEMMA Removed ==
  ASSUME NEW cells \in Seq(Items), NEW i \in 1 .. Len(cells)
  PROVE  RemoveAt(cells, i) \in Seq(Items)
<1>1. Len(cells) \in Nat /\ \A k \in 1 .. Len(cells) : cells[k] \in Items
  BY LenProperties, ElementOfSeq
<1>2. SubSeq(cells, 1, i - 1) \in Seq(Items)
  <2>1. \A k \in 1 .. i - 1 : cells[k] \in Items
    BY <1>1
  <2> QED
    BY <1>1, <2>1, SubSeqProperties
<1>3. SubSeq(cells, i + 1, Len(cells)) \in Seq(Items)
  <2>1. \A k \in i + 1 .. Len(cells) : cells[k] \in Items
    BY <1>1
  <2> QED
    BY <1>1, <2>1, SubSeqProperties
<1> QED
  BY <1>2, <1>3, ConcatProperties DEF RemoveAt

(* What the calls of each document of file carry.                              *)
LEMMA OperationsOf ==
  ASSUME NEW document, NEW by, NEW op \in Operations(document, by)
  PROVE  /\ document = "notebook" => op.mode \in {"insert", "delete", "replace"} /\ op.id \in 0 .. 2 /\ op.by = by
         /\ document = "settings" => op.mode = "set" /\ op.id \in Keys /\ op.by = by
         /\ document = "todos" => op.mode = "all" /\ op.items \in {<<>>, <<[id |-> 1, by |-> by]>>}
         /\ document = "text" =>
              \/ op.mode = "edit" /\ op.id \in Keys /\ op.by = by
              \/ /\ op.mode = "all"
                 /\ op.items = <<[id |-> 1, by |-> by], [id |-> 2, by |-> by], [id |-> 1, by |-> by]>>
<1>1. ASSUME document = "notebook"
      PROVE  op \in [mode : {"insert", "delete", "replace"}, id : 0 .. 2, by : {by}]
  BY <1>1 DEF Operations
<1>2. ASSUME document = "settings"
      PROVE  op \in [mode : {"set"}, id : Keys, by : {by}]
  BY <1>2 DEF Operations
<1>3. ASSUME document = "todos"
      PROVE  op \in [mode : {"all"}, items : {<<>>, <<[id |-> 1, by |-> by]>>}, by : {by}]
  BY <1>3 DEF Operations
<1>4. ASSUME document = "text"
      PROVE  op \in [mode : {"edit"}, id : Keys, all : BOOLEAN, by : {by}]
             \cup [mode : {"all"}, items : {<<[id |-> 1, by |-> by], [id |-> 2, by |-> by], [id |-> 1, by |-> by]>>},
                   by : {by}]
  BY <1>4 DEF Operations
<1> QED
  BY <1>1, <1>2, <1>3, <1>4

(* An insertion takes the next number, a replacement leaves all.           *)
LEMMA NotebookStaysNumbered ==
  ASSUME NEW cells \in Seq(Items), NEW by \in 1 .. MaxEdits, NEW op \in Operations("notebook", by),
         NotebookTakes(cells, op)
  PROVE  /\ NotebookEdit(cells, op) \in Seq(Items)
         /\ Numbered(cells) /\ op.mode # "delete" => Numbered(NotebookEdit(cells, op))
<1> DEFINE n == Len(cells)
           i == Target(cells, op)
<1>1. n \in Nat /\ DOMAIN cells = 1 .. n /\ \A k \in 1 .. n : cells[k] \in Items
  BY LenProperties, ElementOfSeq
<1>2. op.mode \in {"insert", "delete", "replace"} /\ op.id \in 0 .. 2 /\ op.by = by /\ by \in 0 .. MaxEdits
  <2>1. "notebook" = "notebook" => op.mode \in {"insert", "delete", "replace"} /\ op.id \in 0 .. 2 /\ op.by = by
    BY OperationsOf, Zenon
  <2> QED
    BY <2>1, SharedFilesAssumption
<1>3. i \in 0 .. n /\ (op.mode # "insert" => i \in 1 .. n)
  <2>1. CASE op.id # 0
    <3>1. IndexOf(cells, op.id) \in 1 .. n
      BY <2>1, IndexIsFound DEF NotebookTakes
    <3> QED
      BY <1>1, <2>1, <3>1 DEF Target
  <2>2. CASE op.id = 0
    <3>1. op.mode # "insert" => n # 0
      BY EmptySeq DEF NotebookTakes
    <3> QED
      BY <1>1, <2>2, <3>1 DEF Target
  <2> QED
    BY <2>1, <2>2
<1> HIDE DEF i
<1>4. CASE op.mode = "insert"
  <2> DEFINE e == [id |-> n + 1, by |-> by]
             new == InsertAt(cells, i + 1, e)
  <2>1. e \in Items /\ i + 1 \in 1 .. n + 1 /\ e.id = n + 1
    BY <1>1, <1>2, <1>3 DEF Items
  <2>2. NotebookEdit(cells, op) = new
    BY <1>2, <1>4 DEF NotebookEdit, MakeCellId, i
  <2> HIDE DEF e
  <2>3. /\ new \in Seq(Items) /\ Len(new) = n + 1
        /\ \A k \in 1 .. n + 1 : new[k] = IF k < i + 1 THEN cells[k] ELSE IF k = i + 1 THEN e ELSE cells[k - 1]
    BY <2>1, Inserted
  <2> HIDE DEF new
  <2>4. Numbered(cells) => Numbered(new)
    <3> SUFFICES ASSUME Numbered(cells) PROVE Numbered(new)
      OBVIOUS
    <3> DEFINE Old(k) == IF k < i + 1 THEN k ELSE k - 1
    <3>1. /\ \A k \in 1 .. n : cells[k].id \in 1 .. n
          /\ \A j, k \in 1 .. n : cells[j].id = cells[k].id => j = k
      BY DEF Numbered
    <3>2. \A k \in 1 .. n + 1 : k # i + 1 => Old(k) \in 1 .. n /\ new[k] = cells[Old(k)]
      BY <1>1, <1>3, <2>3
    <3>3. \A j, k \in 1 .. n + 1 : j # i + 1 /\ k # i + 1 /\ Old(j) = Old(k) => j = k
      BY <1>1, <1>3
    <3>4. new[i + 1].id = n + 1
      BY <1>1, <1>3, <2>1, <2>3
    <3> HIDE DEF Old
    <3>5. \A k \in 1 .. n + 1 : new[k].id \in 1 .. n + 1 /\ (k # i + 1 => new[k].id # n + 1)
      BY <1>1, <3>1, <3>2, <3>4
    <3>6. ASSUME NEW j \in 1 .. n + 1, NEW k \in 1 .. n + 1, new[j].id = new[k].id
          PROVE  j = k
      <4>1. CASE j = i + 1 \/ k = i + 1
        BY <3>4, <3>5, <3>6, <4>1
      <4>2. CASE j # i + 1 /\ k # i + 1
        BY <3>1, <3>2, <3>3, <3>6, <4>2
      <4> QED
        BY <4>1, <4>2
    <3> QED
      BY <2>3, <3>5, <3>6 DEF Numbered
  <2> QED
    BY <2>2, <2>3, <2>4
<1>5. CASE op.mode = "delete"
  <2>1. NotebookEdit(cells, op) = RemoveAt(cells, i)
    BY <1>5 DEF NotebookEdit, i
  <2> QED
    BY <1>3, <1>5, <2>1, Removed
<1>6. CASE op.mode = "replace"
  <2> DEFINE new == [cells EXCEPT ![i] = [cells[i] EXCEPT !.by = by]]
  <2>1. NotebookEdit(cells, op) = new
    BY <1>2, <1>6 DEF NotebookEdit, i
  <2>2. [cells[i] EXCEPT !.by = by] \in Items /\ [cells[i] EXCEPT !.by = by].id = cells[i].id
    BY <1>1, <1>2, <1>3, <1>6 DEF Items
  <2>3. /\ new \in Seq(Items) /\ Len(new) = n
        /\ \A k \in 1 .. n : new[k].id = cells[k].id
    BY <1>1, <1>3, <1>6, <2>2, ExceptSeq
  <2> HIDE DEF new
  <2>4. Numbered(cells) => Numbered(new)
    BY <2>3 DEF Numbered
  <2> QED
    BY <2>1, <2>3, <2>4
<1> QED
  BY <1>2, <1>4, <1>5, <1>6

LEMMA EditedText ==
  ASSUME NEW items \in Seq(Items), NEW op, op.by \in 0 .. MaxEdits
  PROVE  EditText(items, op) \in Seq(Items)
<1>1. Len(items) \in Nat /\ DOMAIN items = 1 .. Len(items) /\ \A k \in 1 .. Len(items) : items[k] \in Items
  BY LenProperties, ElementOfSeq
<1>2. [id |-> 0, by |-> op.by] \in Items
  BY DEF Items
<1>3. EditText(items, op) \in [1 .. Len(items) -> Items]
  BY <1>1, <1>2 DEF EditText
<1> QED
  BY <1>1, <1>3, SeqDef

(* What a call makes of a file is a file.                                  *)
LEMMA ResultIsTyped ==
  ASSUME NEW document \in DocumentKinds, NEW by \in 1 .. MaxEdits, NEW op \in Operations(document, by),
         NEW content \in Seq(Items), Accepted(document, content, op)
  PROVE  /\ Result(content, op) \in Seq(Items)
         /\ Whole(op) => Result(content, op) = op.items
         /\ document = "notebook" => ~IsTorn(content) /\ Result(content, op) = NotebookEdit(content, op)
                                 /\ NotebookTakes(content, op)
<1>1. by \in 0 .. MaxEdits /\ <<>> \in Seq(Items)
  BY SharedFilesAssumption
<1>2. CASE document = "notebook"
  <2>1. op.mode \in {"insert", "delete", "replace"} /\ op \in Operations("notebook", by)
    BY <1>2, OperationsOf, Zenon
  <2>2. ~IsTorn(content) /\ NotebookTakes(content, op)
    BY <1>2 DEF Accepted
  <2>3. Result(content, op) = NotebookEdit(content, op) /\ ~Whole(op)
    BY <2>1 DEF Result, Whole
  <2>4. NotebookEdit(content, op) \in Seq(Items)
    BY <2>1, <2>2, NotebookStaysNumbered, Zenon
  <2> QED
    BY <2>2, <2>3, <2>4
<1>3. CASE document = "settings"
  <2>1. op.mode = "set" /\ op.id \in Keys /\ op.by = by
    BY <1>3, OperationsOf, Zenon
  <2> DEFINE old == IF IsTorn(content) THEN <<>> ELSE content
  <2>2. Result(content, op) = SetKey(old, op) /\ ~Whole(op)
    BY <2>1 DEF Result, Whole
  <2>3. old \in Seq(Items)
    BY <1>1
  <2> HIDE DEF old
  <2>4. Without(old, op.id) \in Seq(Items)
    BY <2>3, IndexIsFound, Removed DEF Without
  <2>5. [id |-> op.id, by |-> op.by] \in Items
    BY <1>1, <2>1 DEF Items, Keys
  <2>6. Append(Without(old, op.id), [id |-> op.id, by |-> op.by]) \in Seq(Items)
    BY <2>4, <2>5, AppendProperties
  <2> QED
    BY <1>3, <2>2, <2>6 DEF SetKey
<1>4. CASE document = "todos"
  <2>1. op.mode = "all" /\ op.items \in {<<>>, <<[id |-> 1, by |-> by]>>}
    BY <1>4, OperationsOf, Zenon
  <2>2. [id |-> 1, by |-> by] \in Items
    BY <1>1 DEF Items
  <2>3. <<[id |-> 1, by |-> by]>> \in Seq(Items)
    <3> DEFINE one == [id |-> 1, by |-> by]
    <3>1. one \in Items
      BY <2>2
    <3> HIDE DEF one
    <3>2. <<one>> \in Seq(Items)
      BY <3>1
    <3> QED
      BY <3>2 DEF one
  <2>5. op.items \in Seq(Items)
    BY <1>1, <2>1, <2>3, Zenon
  <2>4. Result(content, op) = op.items
    BY <2>1 DEF Result, Whole
  <2> QED
    BY <1>4, <2>4, <2>5
<1>5. CASE document = "text"
  <2>1. \/ op.mode = "edit" /\ op.id \in Keys /\ op.by = by
        \/ /\ op.mode = "all"
           /\ op.items = <<[id |-> 1, by |-> by], [id |-> 2, by |-> by], [id |-> 1, by |-> by]>>
    BY <1>5, OperationsOf, Zenon
  <2>2. CASE op.mode = "edit"
    <3>1. Result(content, op) = EditText(content, op) /\ ~Whole(op)
      BY <2>2 DEF Result, Whole
    <3>2. op.by \in 0 .. MaxEdits
      BY <1>1, <2>1, <2>2
    <3> QED
      BY <1>5, <3>1, <3>2, EditedText
  <2>3. CASE op.mode = "all"
    <3>1. [id |-> 1, by |-> by] \in Items /\ [id |-> 2, by |-> by] \in Items
      BY <1>1 DEF Items
    <3>2. op.items \in Seq(Items)
      <4> DEFINE one == [id |-> 1, by |-> by]
                 two == [id |-> 2, by |-> by]
      <4>1. op.items = <<one, two, one>>
        BY <2>1, <2>3
      <4>2. one \in Items /\ two \in Items
        BY <3>1
      <4> HIDE DEF one, two
      <4>3. <<one, two, one>> \in Seq(Items)
        BY <4>2
      <4> QED
        BY <4>1, <4>3
    <3>3. Result(content, op) = op.items
      BY <2>3 DEF Result, Whole
    <3> QED
      BY <1>5, <3>2, <3>3
  <2> QED
    BY <2>1, <2>2, <2>3
<1> QED
  BY <1>2, <1>3, <1>4, <1>5 DEF DocumentKinds

LEMMA DocumentsAreOfAKind ==
  ASSUME NEW f \in Files
  PROVE  Documents[f] \in DocumentKinds
BY SharedFilesAssumption DEF Files, DocumentKinds

LEMMA FilesIInvInit ==
  ASSUME FilesInit
  PROVE  FilesIInv
<1> DEFINE one == [id |-> 1, by |-> 0]
           two == [id |-> 2, by |-> 0]
<1>1. MaxEdits \in Nat /\ one \in Items /\ two \in Items /\ one.id = 1 /\ two.id = 2
  BY SharedFilesAssumption DEF Items
<1>2. disk = [f \in Files |-> IF Documents[f] = "notebook" THEN <<one, two>> ELSE <<>>] /\ expected = disk
  BY DEF FilesInit
<1> HIDE DEF one, two
<1>3. /\ <<one, two>> \in Seq(Items) /\ <<>> \in Seq(Items)
      /\ Len(<<one, two>>) = 2 /\ <<one, two>>[1] = one /\ <<one, two>>[2] = two
  BY <1>1
<1>4. Numbered(<<one, two>>)
  BY <1>1, <1>3 DEF Numbered
<1>5. \A t \in Threads : job[t] = NoJob
  BY DEF FilesInit
<1>6. FilesTyped
  <2>1. disk \in [Files -> Seq(Items)]
    BY <1>2, <1>3
  <2>2. clean \in [Files -> BOOLEAN] /\ job \in [Threads -> Jobs \cup {NoJob}]
    BY DEF FilesInit
  <2>3. edits \in 0 .. MaxEdits /\ deleted \subseteq Files /\ expected \in [Files -> Seq(Items)]
    BY <1>1, <1>2, <2>1 DEF FilesInit
  <2>4. dead \in BOOLEAN
    BY DEF FilesInit
  <2> QED
    BY <1>5, <2>1, <2>2, <2>3, <2>4 DEF FilesTyped
<1>7. ASSUME NEW f \in Files
      PROVE  CleanIsAlone(f) /\ WholeIsWhole(f) /\ CellsAreNumbered(f)
  BY <1>2, <1>4, <1>5 DEF CleanIsAlone, WholeIsWhole, CellsAreNumbered, WorksOn
<1> QED
  BY <1>6, <1>7 DEF FilesIInv

(* What does not touch a file, nor a call on it, leaves what is known.     *)
LEMMA OtherFilesStay ==
  ASSUME NEW f \in Files, CleanIsAlone(f), WholeIsWhole(f), CellsAreNumbered(f),
         disk'[f] = disk[f], expected'[f] = expected[f], clean'[f] => clean[f],
         f \notin deleted' => f \notin deleted,
         \A t \in Threads : WorksOn(t, f) \/ WorksOn(t, f)' => job'[t] = job[t]
  PROVE  CleanIsAlone(f)' /\ WholeIsWhole(f)' /\ CellsAreNumbered(f)'
<1>1. \A t \in Threads : (WorksOn(t, f)' <=> WorksOn(t, f)) /\ (WorksOn(t, f) => job'[t] = job[t])
  BY DEF WorksOn
<1>2. CleanIsAlone(f)'
  <2> SUFFICES ASSUME clean'[f]
      PROVE  /\ \A t, u \in Threads : WorksOn(t, f)' /\ WorksOn(u, f)' => t = u
             /\ (\A t \in Threads : ~WorksOn(t, f)') => disk'[f] = expected'[f]
             /\ \A t \in Threads : WorksOn(t, f)' =>
                  /\ job'[t].content = Result(expected'[f], job'[t].op)
                  /\ job'[t].at = "read" => disk'[f] = expected'[f]
    BY DEF CleanIsAlone
  <2> QED
    BY <1>1 DEF CleanIsAlone
<1>3. WholeIsWhole(f)'
  BY <1>1 DEF WholeIsWhole
<1>4. CellsAreNumbered(f)'
  BY <1>1 DEF CellsAreNumbered
<1> QED
  BY <1>2, <1>3, <1>4

(* A call reads a file, and decides what it will write.                    *)
LEMMA FilesReadFile ==
  ASSUME FilesIInv, NEW t \in Threads, NEW f \in Files, ReadFile(t, f)
  PROVE  FilesIInv'
<1> DEFINE by == edits + 1
<1>1. PICK op \in Operations(Documents[f], by) :
        /\ Accepted(Documents[f], disk[f], op)
        /\ job' = [job EXCEPT ![t] = [at |-> "read", file |-> f, op |-> op, content |-> Result(disk[f], op),
                                      alone |-> Busy(f) = {}]]
  BY DEF ReadFile
<1>2. by \in 1 .. MaxEdits /\ edits' \in 0 .. MaxEdits
  BY SharedFilesAssumption DEF ReadFile, FilesIInv, FilesTyped
<1>3. Documents[f] \in DocumentKinds /\ disk[f] \in Seq(Items) /\ job \in [Threads -> Jobs \cup {NoJob}]
  BY DocumentsAreOfAKind DEF FilesIInv, FilesTyped
<1> DEFINE new == [at |-> "read", file |-> f, op |-> op, content |-> Result(disk[f], op), alone |-> Busy(f) = {}]
<1>4. /\ Result(disk[f], op) \in Seq(Items) /\ (Whole(op) => Result(disk[f], op) = op.items)
      /\ Documents[f] = "notebook" => /\ ~IsTorn(disk[f]) /\ NotebookTakes(disk[f], op)
                                      /\ Result(disk[f], op) = NotebookEdit(disk[f], op)
  BY <1>1, <1>2, <1>3, ResultIsTyped, Zenon
<1>5. op \in FileCalls
  BY <1>1, <1>2, <1>3 DEF FileCalls
<1> DEFINE alone == Busy(f) = {}
<1>6. alone \in BOOLEAN
  OBVIOUS
<1>7. /\ new \in Jobs /\ new # NoJob /\ new.file = f /\ new.op = op /\ new.content = Result(disk[f], op)
      /\ new.at = "read"
  <2> HIDE DEF alone
  <2>1. [at |-> "read", file |-> f, op |-> op, content |-> Result(disk[f], op), alone |-> alone] \in Jobs
    BY <1>4, <1>5, <1>6 DEF Jobs
  <2>2. [at |-> "read", file |-> f, op |-> op, content |-> Result(disk[f], op), alone |-> alone] # NoJob
    BY DEF NoJob
  <2> QED
    BY <2>1, <2>2 DEF alone
<1>8. job'[t] = new /\ \A u \in Threads : u # t => job'[u] = job[u]
  BY <1>1, <1>3
<1> HIDE DEF new, by, alone
<1>9. /\ disk' = disk /\ expected' = expected /\ deleted' = deleted /\ dead' = dead
      /\ job[t] = NoJob
      /\ clean' = [clean EXCEPT ![f] = clean[f] /\ Busy(f) = {}]
  BY DEF ReadFile
<1>10. clean \in [Files -> BOOLEAN]
  BY DEF FilesIInv, FilesTyped
<1>11. clean' \in [Files -> BOOLEAN] /\ (clean'[f] => clean[f] /\ Busy(f) = {})
       /\ \A g \in Files : g # f => clean'[g] = clean[g]
  BY <1>9, <1>10
<1>12. FilesTyped'
  <2>1. job' \in [Threads -> Jobs \cup {NoJob}]
    BY <1>1, <1>3, <1>7 DEF new
  <2>2. \A u \in Threads : job'[u] # NoJob =>
          \E b \in 1 .. MaxEdits : job'[u].op \in Operations(Documents[job'[u].file], b)
    BY <1>1, <1>2, <1>7, <1>8 DEF FilesIInv, FilesTyped
  <2> QED
    BY <1>2, <1>9, <1>11, <2>1, <2>2 DEF FilesIInv, FilesTyped
<1>13. \A g \in Files : CleanIsAlone(g) /\ WholeIsWhole(g) /\ CellsAreNumbered(g)
  BY DEF FilesIInv
<1>14. ASSUME NEW g \in Files, g # f
       PROVE  CleanIsAlone(g)' /\ WholeIsWhole(g)' /\ CellsAreNumbered(g)'
  <2>1. \A u \in Threads : WorksOn(u, g) \/ WorksOn(u, g)' => job'[u] = job[u]
    BY <1>7, <1>8, <1>9, <1>14 DEF WorksOn
  <2> QED
    BY <1>9, <1>11, <1>13, <1>14, <2>1, OtherFilesStay
<1>15. \A u \in Threads : WorksOn(u, f)' => u = t \/ WorksOn(u, f)
  BY <1>8 DEF WorksOn
<1>16. CleanIsAlone(f)'
  <2>1. ASSUME clean'[f]
        PROVE  /\ \A u \in Threads : WorksOn(u, f)' => u = t
               /\ WorksOn(t, f)'
               /\ disk'[f] = expected'[f]
               /\ job'[t].content = Result(expected'[f], job'[t].op)
    <3>1. clean[f] /\ \A u \in Threads : ~WorksOn(u, f)
      BY <1>11, <2>1 DEF Busy, WorksOn
    <3>2. disk[f] = expected[f]
      BY <1>13, <3>1 DEF CleanIsAlone
    <3> QED
      BY <1>7, <1>8, <1>9, <1>15, <3>1, <3>2 DEF WorksOn
  <2> QED
    BY <2>1 DEF CleanIsAlone
<1>17. WholeIsWhole(f)'
  <2>1. ASSUME NEW u \in Threads, WorksOn(u, f)', Whole(job'[u].op)
        PROVE  job'[u].content = job'[u].op.items
    BY <1>4, <1>7, <1>8, <1>13, <1>15, <2>1 DEF WholeIsWhole
  <2> QED
    BY <2>1 DEF WholeIsWhole
<1>18. CellsAreNumbered(f)'
  <2> SUFFICES ASSUME Documents[f] = "notebook", f \notin deleted'
      PROVE  /\ IsTorn(disk'[f]) \/ Numbered(disk'[f])
             /\ \A u \in Threads : WorksOn(u, f)' /\ job'[u].op.mode # "delete" => Numbered(job'[u].content)
    BY DEF CellsAreNumbered
  <2>1. /\ IsTorn(disk[f]) \/ Numbered(disk[f])
        /\ \A u \in Threads : WorksOn(u, f) /\ job[u].op.mode # "delete" => Numbered(job[u].content)
    BY <1>9, <1>13 DEF CellsAreNumbered
  <2>2. op.mode # "delete" => Numbered(Result(disk[f], op))
    <3>1. op \in Operations("notebook", by)
      BY <1>1
    <3>2. Numbered(disk[f]) /\ op.mode # "delete" => Numbered(NotebookEdit(disk[f], op))
      BY <1>2, <1>3, <1>4, <3>1, NotebookStaysNumbered, Zenon
    <3> QED
      BY <1>4, <2>1, <3>2
  <2> QED
    BY <1>7, <1>8, <1>9, <1>15, <2>1, <2>2
<1> QED
  BY <1>12, <1>14, <1>16, <1>17, <1>18 DEF FilesIInv

(* The file of a call is emptied.                                          *)
LEMMA FilesTruncate ==
  ASSUME FilesIInv, NEW t \in Threads, Truncate(t)
  PROVE  FilesIInv'
<1> DEFINE torn == <<Torn>>
<1>0. job[t] \in Jobs /\ job[t] # NoJob /\ job[t].at = "read" /\ job \in [Threads -> Jobs \cup {NoJob}]
  BY DEF FilesIInv, FilesTyped, Truncate, NoJob, Jobs
<1>1. PICK f \in Files : job[t].file = f
  BY <1>0 DEF Jobs
<1>2. torn \in Seq(Items)
  <2>1. Torn \in Items
    BY SharedFilesAssumption DEF Torn, Items
  <2> QED
    BY <2>1
<1>3. IsTorn(torn)
  BY DEF IsTorn
<1> HIDE DEF torn
<1>4. /\ disk' = [disk EXCEPT ![f] = torn] /\ job' = [job EXCEPT ![t].at = "truncated"]
      /\ expected' = expected /\ clean' = clean /\ deleted' = deleted /\ dead' = dead /\ edits' = edits
  BY <1>1 DEF Truncate, torn
<1>5. disk \in [Files -> Seq(Items)]
  BY DEF FilesIInv, FilesTyped
<1>6. disk' \in [Files -> Seq(Items)] /\ disk'[f] = torn /\ \A g \in Files : g # f => disk'[g] = disk[g]
  BY <1>0, <1>1, <1>2, <1>4, <1>5
<1>7. /\ job' \in [Threads -> Jobs \cup {NoJob}]
      /\ job'[t].at = "truncated" /\ job'[t] # NoJob
      /\ job'[t].file = f /\ job'[t].op = job[t].op /\ job'[t].content = job[t].content
      /\ \A u \in Threads : u # t => job'[u] = job[u]
  <2>1. /\ [job[t] EXCEPT !.at = "truncated"] \in Jobs /\ [job[t] EXCEPT !.at = "truncated"] # NoJob
        /\ [job[t] EXCEPT !.at = "truncated"].file = job[t].file
        /\ [job[t] EXCEPT !.at = "truncated"].op = job[t].op
        /\ [job[t] EXCEPT !.at = "truncated"].content = job[t].content
        /\ [job[t] EXCEPT !.at = "truncated"].at = "truncated"
    BY <1>0, <1>1 DEF Jobs, NoJob
  <2>2. job'[t] = [job[t] EXCEPT !.at = "truncated"] /\ \A u \in Threads : u # t => job'[u] = job[u]
    BY <1>0, <1>1, <1>4
  <2>3. job' = [job EXCEPT ![t] = [job[t] EXCEPT !.at = "truncated"]]
    BY <1>4
  <2> QED
    BY <1>0, <1>1, <2>1, <2>2, <2>3
<1>8. \A g \in Files : CleanIsAlone(g) /\ WholeIsWhole(g) /\ CellsAreNumbered(g)
  BY DEF FilesIInv
<1>9. FilesTyped'
  <2>1. \A u \in Threads : job'[u] # NoJob =>
          \E b \in 1 .. MaxEdits : job'[u].op \in Operations(Documents[job'[u].file], b)
    BY <1>0, <1>1, <1>7 DEF FilesIInv, FilesTyped
  <2> QED
    BY <1>4, <1>6, <1>7, <2>1 DEF FilesIInv, FilesTyped
<1>10. ASSUME NEW g \in Files, g # f
       PROVE  CleanIsAlone(g)' /\ WholeIsWhole(g)' /\ CellsAreNumbered(g)'
  <2>1. \A u \in Threads : WorksOn(u, g) \/ WorksOn(u, g)' => job'[u] = job[u]
    BY <1>1, <1>7, <1>10 DEF WorksOn
  <2>2. /\ disk'[g] = disk[g] /\ expected'[g] = expected[g] /\ (clean'[g] => clean[g])
        /\ (g \notin deleted' => g \notin deleted)
    BY <1>4, <1>6, <1>10
  <2> QED
    BY <1>8, <1>10, <2>1, <2>2, OtherFilesStay, Zenon
<1>11. WorksOn(t, f) /\ \A u \in Threads : WorksOn(u, f)' <=> WorksOn(u, f)
  BY <1>0, <1>1, <1>7 DEF WorksOn
<1>12. CleanIsAlone(f)'
  <2>1. ASSUME clean'[f]
        PROVE  /\ \A u \in Threads : WorksOn(u, f)' => u = t
               /\ WorksOn(t, f)' /\ job'[t].at # "read"
               /\ job'[t].content = Result(expected'[f], job'[t].op)
    <3>1. clean[f]
      BY <1>4, <2>1
    <3> QED
      BY <1>0, <1>1, <1>4, <1>7, <1>8, <1>11, <3>1 DEF CleanIsAlone
  <2>2. CASE clean'[f]
    <3>1. /\ \A u \in Threads : WorksOn(u, f)' => u = t
          /\ WorksOn(t, f)' /\ job'[t].at # "read"
          /\ job'[t].content = Result(expected'[f], job'[t].op)
      BY <2>1, <2>2
    <3> QED
      BY <3>1 DEF CleanIsAlone
  <2> QED
    BY <2>2 DEF CleanIsAlone
<1>13. WholeIsWhole(f)'
  <2>1. ASSUME NEW u \in Threads, WorksOn(u, f)', Whole(job'[u].op)
        PROVE  job'[u].content = job'[u].op.items
    BY <1>0, <1>1, <1>7, <1>8, <1>11, <2>1 DEF WholeIsWhole
  <2> QED
    BY <2>1 DEF WholeIsWhole
<1>14. CellsAreNumbered(f)'
  <2> SUFFICES ASSUME Documents[f] = "notebook", f \notin deleted'
      PROVE  /\ IsTorn(disk'[f])
             /\ \A u \in Threads : WorksOn(u, f)' /\ job'[u].op.mode # "delete" => Numbered(job'[u].content)
    BY DEF CellsAreNumbered
  <2>1. \A u \in Threads : WorksOn(u, f) /\ job[u].op.mode # "delete" => Numbered(job[u].content)
    <3>1. f \in Files /\ f \notin deleted
      BY <1>0, <1>1, <1>4
    <3> QED
      BY <1>8, <3>1 DEF CellsAreNumbered
  <2> QED
    BY <1>3, <1>6, <1>7, <1>11, <2>1
<1>15. \A g \in Files : CleanIsAlone(g)' /\ WholeIsWhole(g)' /\ CellsAreNumbered(g)'
  BY <1>10, <1>12, <1>13, <1>14, Zenon
<1> QED
  BY <1>9, <1>15 DEF FilesIInv

(* A call leaves its file alone: nobody is there, or only others.          *)
LEMMA LeavingStays ==
  ASSUME FilesIInv, NEW t \in Threads, NEW f \in Files, job[t] # NoJob, job[t].file = f,
         job' = [job EXCEPT ![t] = NoJob],
         \A g \in Files : g # f =>
           /\ disk'[g] = disk[g] /\ expected'[g] = expected[g] /\ clean'[g] = clean[g]
           /\ g \in deleted <=> g \in deleted',
         clean'[f] => (\A u \in Threads : u # t => ~WorksOn(u, f)) /\ disk'[f] = expected'[f],
         Documents[f] = "notebook" /\ f \notin deleted' => f \notin deleted /\ (IsTorn(disk'[f]) \/ Numbered(disk'[f]))
  PROVE  /\ job' \in [Threads -> Jobs \cup {NoJob}]
         /\ \A u \in Threads : job'[u] # NoJob =>
              \E b \in 1 .. MaxEdits : job'[u].op \in Operations(Documents[job'[u].file], b)
         /\ \A g \in Files : CleanIsAlone(g)' /\ WholeIsWhole(g)' /\ CellsAreNumbered(g)'
<1>1. job \in [Threads -> Jobs \cup {NoJob}]
  BY DEF FilesIInv, FilesTyped
<1>2. job'[t] = NoJob /\ \A u \in Threads : u # t => job'[u] = job[u]
  BY <1>1
<1>3. job' \in [Threads -> Jobs \cup {NoJob}]
  BY <1>1
<1>4. \A u \in Threads : job'[u] # NoJob =>
        \E b \in 1 .. MaxEdits : job'[u].op \in Operations(Documents[job'[u].file], b)
  BY <1>2 DEF FilesIInv, FilesTyped
<1>5. \A g \in Files : CleanIsAlone(g) /\ WholeIsWhole(g) /\ CellsAreNumbered(g)
  BY DEF FilesIInv
<1>6. ASSUME NEW g \in Files, g # f
      PROVE  CleanIsAlone(g)' /\ WholeIsWhole(g)' /\ CellsAreNumbered(g)'
  <2>1. \A u \in Threads : WorksOn(u, g) \/ WorksOn(u, g)' => job'[u] = job[u]
    BY <1>2, <1>6 DEF WorksOn
  <2>2. /\ disk'[g] = disk[g] /\ expected'[g] = expected[g] /\ (clean'[g] => clean[g])
        /\ (g \notin deleted' => g \notin deleted)
    BY <1>6
  <2> QED
    BY <1>5, <1>6, <2>1, <2>2, OtherFilesStay, Zenon
<1>7. \A u \in Threads : WorksOn(u, f)' => u # t /\ WorksOn(u, f) /\ job'[u] = job[u]
  BY <1>2 DEF WorksOn
<1>8. CleanIsAlone(f)'
  <2>1. CASE clean'[f]
    BY <1>7, <2>1 DEF CleanIsAlone
  <2> QED
    BY <2>1 DEF CleanIsAlone
<1>9. WholeIsWhole(f)'
  BY <1>5, <1>7 DEF WholeIsWhole
<1>10. CellsAreNumbered(f)'
  <2> SUFFICES ASSUME Documents[f] = "notebook", f \notin deleted'
      PROVE  /\ IsTorn(disk'[f]) \/ Numbered(disk'[f])
             /\ \A u \in Threads : WorksOn(u, f)' /\ job'[u].op.mode # "delete" => Numbered(job'[u].content)
    BY DEF CellsAreNumbered
  <2>1. \A u \in Threads : WorksOn(u, f) /\ job[u].op.mode # "delete" => Numbered(job[u].content)
    BY <1>5 DEF CellsAreNumbered
  <2> QED
    BY <1>7, <2>1
<1>11. \A g \in Files : CleanIsAlone(g)' /\ WholeIsWhole(g)' /\ CellsAreNumbered(g)'
  BY <1>6, <1>8, <1>9, <1>10, Zenon
<1> QED
  BY <1>3, <1>4, <1>11

(* A call writes what it decided, and is acknowledged.                     *)
LEMMA FilesFill ==
  ASSUME FilesIInv, NEW t \in Threads, Fill(t)
  PROVE  FilesIInv'
<1>1. job[t] \in Jobs /\ job[t] # NoJob /\ job[t].at = "truncated"
  BY DEF FilesIInv, FilesTyped, Fill, NoJob, Jobs
<1>2. PICK f \in Files : job[t].file = f
  BY <1>1 DEF Jobs
<1>3. PICK op : job[t].op = op
  OBVIOUS
<1>4. PICK content \in Seq(Items) : job[t].content = content
  BY <1>1 DEF Jobs
<1> DEFINE fresh == Whole(op) /\ job[t].alone /\ Busy(f) = {t}
<1>5. /\ disk' = [disk EXCEPT ![f] = content]
      /\ deleted' = deleted \cup (IF op.mode = "delete" THEN {f} ELSE {})
      /\ expected' = [expected EXCEPT ![f] = IF clean[f] \/ fresh THEN Result(expected[f], op) ELSE content]
      /\ clean' = [clean EXCEPT ![f] = clean[f] \/ fresh]
      /\ job' = [job EXCEPT ![t] = NoJob]
      /\ edits' = edits /\ dead' = dead
  BY <1>2, <1>3, <1>4 DEF Fill
<1>6. CleanIsAlone(f) /\ WholeIsWhole(f) /\ CellsAreNumbered(f) /\ WorksOn(t, f)
  BY <1>1, <1>2 DEF FilesIInv, WorksOn
<1>7. fresh => Whole(op) /\ \A u \in Threads : u # t => ~WorksOn(u, f)
  BY DEF Busy, WorksOn
<1>8. clean[f] \/ fresh => Result(expected[f], op) = content
  <2>1. CASE clean[f]
    BY <1>3, <1>4, <1>6, <2>1 DEF CleanIsAlone
  <2>2. CASE fresh
    <3>1. Whole(op) /\ content = op.items
      BY <1>3, <1>4, <1>6, <1>7, <2>2 DEF WholeIsWhole
    <3> QED
      BY <3>1 DEF Result, Whole
  <2> QED
    BY <2>1, <2>2
<1>9. clean[f] \/ fresh => \A u \in Threads : u # t => ~WorksOn(u, f)
  BY <1>6, <1>7 DEF CleanIsAlone
<1>10. fresh \in BOOLEAN
  OBVIOUS
<1> HIDE DEF fresh
<1>11. /\ disk \in [Files -> Seq(Items)] /\ expected \in [Files -> Seq(Items)]
       /\ clean \in [Files -> BOOLEAN] /\ deleted \subseteq Files /\ edits \in 0 .. MaxEdits /\ dead \in BOOLEAN
  BY DEF FilesIInv, FilesTyped
<1>12. disk' \in [Files -> Seq(Items)] /\ disk'[f] = content /\ \A g \in Files : g # f => disk'[g] = disk[g]
  BY <1>5, <1>11
<1>13. expected' = [expected EXCEPT ![f] = content]
  BY <1>5, <1>8
<1>14. /\ expected' \in [Files -> Seq(Items)] /\ expected'[f] = content
       /\ \A g \in Files : g # f => expected'[g] = expected[g]
  BY <1>11, <1>13
<1>15. /\ clean' \in [Files -> BOOLEAN] /\ (clean'[f] => clean[f] \/ fresh)
       /\ \A g \in Files : g # f => clean'[g] = clean[g]
  BY <1>5, <1>10, <1>11
<1>16. /\ deleted' \subseteq Files /\ \A g \in Files : g # f => (g \in deleted <=> g \in deleted')
       /\ f \notin deleted' => f \notin deleted /\ op.mode # "delete"
  BY <1>5, <1>11
<1>17. Documents[f] = "notebook" /\ f \notin deleted' => f \notin deleted /\ (IsTorn(disk'[f]) \/ Numbered(disk'[f]))
  BY <1>3, <1>4, <1>6, <1>12, <1>16 DEF CellsAreNumbered
<1>18. \A g \in Files : g # f =>
         /\ disk'[g] = disk[g] /\ expected'[g] = expected[g] /\ clean'[g] = clean[g]
         /\ g \in deleted <=> g \in deleted'
  BY <1>12, <1>14, <1>15, <1>16
<1>19. clean'[f] => (\A u \in Threads : u # t => ~WorksOn(u, f)) /\ disk'[f] = expected'[f]
  BY <1>9, <1>12, <1>14, <1>15
<1>20. job' = [job EXCEPT ![t] = NoJob]
  BY <1>5
<1>21. /\ job' \in [Threads -> Jobs \cup {NoJob}]
       /\ \A u \in Threads : job'[u] # NoJob =>
            \E b \in 1 .. MaxEdits : job'[u].op \in Operations(Documents[job'[u].file], b)
       /\ \A g \in Files : CleanIsAlone(g)' /\ WholeIsWhole(g)' /\ CellsAreNumbered(g)'
  BY <1>1, <1>2, <1>17, <1>18, <1>19, <1>20, LeavingStays, Zenon
<1> QED
  BY <1>5, <1>11, <1>12, <1>14, <1>15, <1>16, <1>21 DEF FilesIInv, FilesTyped

(* A write fails, before the truncation or behind it.                      *)
LEMMA FilesFillFails ==
  ASSUME FilesIInv, NEW t \in Threads, FillFails(t)
  PROVE  FilesIInv'
<1>1. job[t] \in Jobs /\ job[t] # NoJob
  BY DEF FilesIInv, FilesTyped, FillFails, NoJob, Jobs
<1>2. PICK f \in Files : job[t].file = f
  BY <1>1 DEF Jobs
<1>3. /\ clean' = [clean EXCEPT ![f] = clean[f] /\ job[t].at = "read"] /\ job' = [job EXCEPT ![t] = NoJob]
      /\ disk' = disk /\ expected' = expected /\ deleted' = deleted /\ edits' = edits /\ dead' = dead
  BY <1>2 DEF FillFails
<1>4. clean \in [Files -> BOOLEAN]
  BY DEF FilesIInv, FilesTyped
<1>5. /\ clean' \in [Files -> BOOLEAN] /\ (clean'[f] => clean[f] /\ job[t].at = "read")
      /\ \A g \in Files : g # f => clean'[g] = clean[g]
  BY <1>3, <1>4
<1>6. CleanIsAlone(f) /\ CellsAreNumbered(f) /\ WorksOn(t, f)
  BY <1>1, <1>2 DEF FilesIInv, WorksOn
<1>7. clean'[f] => (\A u \in Threads : u # t => ~WorksOn(u, f)) /\ disk'[f] = expected'[f]
  BY <1>3, <1>5, <1>6 DEF CleanIsAlone
<1>8. Documents[f] = "notebook" /\ f \notin deleted' => f \notin deleted /\ (IsTorn(disk'[f]) \/ Numbered(disk'[f]))
  BY <1>3, <1>6 DEF CellsAreNumbered
<1>9. \A g \in Files : g # f =>
        /\ disk'[g] = disk[g] /\ expected'[g] = expected[g] /\ clean'[g] = clean[g]
        /\ g \in deleted <=> g \in deleted'
  BY <1>3, <1>5
<1>10. job' = [job EXCEPT ![t] = NoJob]
  BY <1>3
<1>11. /\ job' \in [Threads -> Jobs \cup {NoJob}]
       /\ \A u \in Threads : job'[u] # NoJob =>
            \E b \in 1 .. MaxEdits : job'[u].op \in Operations(Documents[job'[u].file], b)
       /\ \A g \in Files : CleanIsAlone(g)' /\ WholeIsWhole(g)' /\ CellsAreNumbered(g)'
  BY <1>1, <1>2, <1>7, <1>8, <1>9, <1>10, LeavingStays, Zenon
<1> QED
  BY <1>3, <1>5, <1>11 DEF FilesIInv, FilesTyped

(* The process dies: a file that was truncated stays so.                   *)
LEMMA FilesDie ==
  ASSUME FilesIInv, Die
  PROVE  FilesIInv'
<1>1. /\ disk' = disk /\ expected' = expected /\ deleted' = deleted /\ edits' = edits /\ dead' = TRUE
      /\ job' = [t \in Threads |-> NoJob]
      /\ clean' = [f \in Files |-> clean[f] /\ ~\E t \in Busy(f) : job[t].at = "truncated"]
  BY DEF Die
<1>2. job' \in [Threads -> Jobs \cup {NoJob}] /\ \A t \in Threads : job'[t] = NoJob
  BY <1>1
<1>3. /\ clean' \in [Files -> BOOLEAN]
      /\ \A f \in Files : clean'[f] => clean[f] /\ \A t \in Threads : WorksOn(t, f) => job[t].at # "truncated"
  <2>1. clean' \in [Files -> BOOLEAN]
    BY <1>1, Zenon DEF FilesIInv, FilesTyped
  <2>2. ASSUME NEW f \in Files, clean'[f]
        PROVE  clean[f] /\ ~\E t \in Busy(f) : job[t].at = "truncated"
    BY <1>1, <2>2, Zenon
  <2> QED
    BY <2>1, <2>2 DEF Busy, WorksOn
<1>4. FilesTyped'
  BY <1>1, <1>2, <1>3 DEF FilesIInv, FilesTyped
<1>5. ASSUME NEW f \in Files
      PROVE  CleanIsAlone(f)' /\ WholeIsWhole(f)' /\ CellsAreNumbered(f)'
  <2>1. CleanIsAlone(f) /\ CellsAreNumbered(f)
    BY DEF FilesIInv
  <2>2. \A t \in Threads : ~WorksOn(t, f)'
    BY <1>2 DEF WorksOn
  <2>3. clean'[f] => disk[f] = expected[f]
    <3>1. \A t \in Threads : WorksOn(t, f) => job[t].at \in {"read", "truncated"}
      BY DEF WorksOn, FilesIInv, FilesTyped, Jobs
    <3> QED
      BY <1>3, <2>1, <3>1 DEF CleanIsAlone
  <2>4. CleanIsAlone(f)' /\ WholeIsWhole(f)'
    BY <1>1, <2>2, <2>3 DEF CleanIsAlone, WholeIsWhole
  <2>5. CellsAreNumbered(f)'
    BY <1>1, <2>1, <2>2 DEF CellsAreNumbered
  <2> QED
    BY <2>4, <2>5
<1> QED
  BY <1>4, <1>5 DEF FilesIInv

(* What else happens changes no file and no call on one.                   *)
LEMMA FilesRest ==
  ASSUME FilesIInv, UNCHANGED <<disk, job, expected, clean, deleted>>, edits' \in 0 .. MaxEdits, dead' \in BOOLEAN
  PROVE  FilesIInv'
<1>1. FilesTyped'
  BY DEF FilesIInv, FilesTyped
<1>2. ASSUME NEW f \in Files
      PROVE  CleanIsAlone(f)' /\ WholeIsWhole(f)' /\ CellsAreNumbered(f)'
  BY DEF FilesIInv, CleanIsAlone, WholeIsWhole, CellsAreNumbered, WorksOn
<1> QED
  BY <1>1, <1>2 DEF FilesIInv

(* Edits that are acknowledged are on disk unless calls overlapped or one  *)
(* was cut short, and the cells of a notebook have different ids.          *)
THEOREM FilesKeepWhatWasAcknowledged == FilesSpec => []SharedFilesInv
<1>1. ASSUME FilesIInv, [FilesNext]_fileVars
      PROVE  FilesIInv'
  <2>1. CASE \E t \in Threads, f \in Files : ReadFile(t, f)
    BY <1>1, <2>1, FilesReadFile
  <2>2. CASE \E t \in Threads, f \in Files : ReadRefused(t, f)
    <3>1. UNCHANGED <<disk, job, expected, clean, deleted>> /\ edits' \in 0 .. MaxEdits /\ dead' \in BOOLEAN
      BY <1>1, <2>2, SharedFilesAssumption DEF ReadRefused, FilesIInv, FilesTyped
    <3> QED
      BY <1>1, <3>1, FilesRest
  <2>3. CASE \E t \in Threads : Truncate(t)
    BY <1>1, <2>3, FilesTruncate
  <2>4. CASE \E t \in Threads : Fill(t)
    BY <1>1, <2>4, FilesFill
  <2>5. CASE \E t \in Threads : FillFails(t)
    BY <1>1, <2>5, FilesFillFails
  <2>6. CASE Die
    BY <1>1, <2>6, FilesDie
  <2>7. CASE Restart \/ UNCHANGED fileVars
    <3>1. UNCHANGED <<disk, job, expected, clean, deleted>> /\ edits' \in 0 .. MaxEdits /\ dead' \in BOOLEAN
      BY <1>1, <2>7 DEF Restart, fileVars, FilesIInv, FilesTyped
    <3> QED
      BY <1>1, <3>1, FilesRest
  <2> QED
    BY <1>1, <2>1, <2>2, <2>3, <2>4, <2>5, <2>6, <2>7 DEF FilesNext
<1>2. ASSUME FilesIInv
      PROVE  SharedFilesInv
  <2>1. FilesTypeOK
    <3>1. \A f \in Files : disk[f] \in Seq(Items)
      BY <1>2 DEF FilesIInv, FilesTyped
    <3>2. \A f \in Files : \A k \in DOMAIN disk[f] : disk[f][k] \in Items
      BY <3>1
    <3>3. \A f \in Files : \A k \in DOMAIN disk[f] : disk[f][k].by \in 0 .. MaxEdits
      BY <3>2 DEF Items
    <3>4. \A t \in Threads : job[t] = NoJob \/ (job[t].file \in Files /\ job[t].at \in {"read", "truncated"})
      BY <1>2 DEF FilesIInv, FilesTyped, Jobs
    <3> QED
      BY <1>2, <3>3, <3>4 DEF FilesTypeOK, FilesIInv, FilesTyped
  <2>2. AcknowledgedIsOnDisk
    BY <1>2 DEF FilesIInv, CleanIsAlone, WorksOn, Busy, AcknowledgedIsOnDisk
  <2>3. CellIdsDiffer
    <3> SUFFICES ASSUME NEW f \in Files, Documents[f] = "notebook", f \notin deleted,
                        NEW j \in DOMAIN disk[f], NEW k \in DOMAIN disk[f], disk[f][j].id = disk[f][k].id
        PROVE  j = k
      BY DEF CellIdsDiffer
    <3>1. IsTorn(disk[f]) \/ Numbered(disk[f])
      BY <1>2 DEF FilesIInv, CellsAreNumbered
    <3>2. DOMAIN disk[f] = 1 .. Len(disk[f])
      BY <1>2 DEF FilesIInv, FilesTyped
    <3>3. CASE IsTorn(disk[f])
      BY <3>3 DEF IsTorn
    <3>4. CASE Numbered(disk[f])
      BY <3>2, <3>4 DEF Numbered
    <3> QED
      BY <3>1, <3>3, <3>4
  <2> QED
    BY <2>1, <2>2, <2>3 DEF SharedFilesInv
<1> QED
  BY <1>1, <1>2, FilesIInvInit, PTL DEF FilesSpec

-----------------------------------------------------------------------------
(* The Python agent.  What the invariant rests on: the values, ...         *)
TonyUses == 1 .. UsesPerReply
TonyMessages ==
  [role : {"user", "assistant", "tool"}, uses : Seq(TonyUses), text : BOOLEAN, heavy : BOOLEAN]

TonyTyped ==
  /\ readOnly \in BOOLEAN /\ messages \in Seq(TonyMessages)
  /\ step \in {"prompt", "iterate", "stream", "tools"}
  /\ turn \in [iteration : 0 .. MaxIterations, blocks : Seq(TonyUses), current : 0 .. UsesPerReply,
               text : BOOLEAN, results : Seq(TonyUses)]
  /\ sent \in [open : {"none", "text", "tool"}, tools : Nat, retries : 0 .. Retries]
  /\ log \in [drawn : 0 .. UsesPerReply, wrote : SUBSET TonyUses, torn : SUBSET TonyUses,
              half : SUBSET TonyUses, left : SUBSET TonyUses, turns : Nat]

(* ... that results are those of the uses the message before them has, if  *)
(* it was not cut away; the rest of a cut is longer than what is kept, ... *)
Answered(ms, k) == k > 1 /\ ms[k - 1].role = "assistant" /\ ms[k - 1].uses = ms[k].uses
ResultsAreAnswers(ms) ==
  \A k \in 1 .. Len(ms) : ms[k].role = "tool" =>
    Answered(ms, k) \/ (k = 2 /\ ms[1] = Summary /\ Len(ms) > Keep)

(* ... that uses have their results or are left, those of the last reply   *)
(* but for while their tools run, ...                                      *)
Settled(ms, k, over) ==
  \/ k < Len(ms) /\ ms[k + 1].role = "tool" /\ ms[k + 1].uses = ms[k].uses
  \/ ToSet(ms[k].uses) \subseteq over
UsesAreSettled(ms, open, over) ==
  \A k \in 1 .. Len(ms) : ms[k].role = "assistant" => Settled(ms, k, over) \/ (k = Len(ms) /\ open)

(* ... that while they run the last reply is theirs, and the results are   *)
(* of the first of them, ...                                               *)
ToolsAreOfTheReply ==
  /\ step = "stream" => turn.results = <<>>
  /\ step = "tools" =>
       /\ messages # <<>> /\ messages[Len(messages)].role = "assistant"
       /\ messages[Len(messages)].uses = turn.blocks
       /\ Len(turn.results) <= Len(turn.blocks)
       /\ \A i \in 1 .. Len(turn.results) : turn.results[i] = turn.blocks[i]

(* ... and that a use which is still open is that of the open block, or    *)
(* one that a timeout cut short.                                           *)
OpenUsesAreKnown ==
  /\ step = "stream" /\ turn.current # 0 /\ sent.open # "tool" => turn.current \in log.torn
  /\ RunsAreDue

TonyIInv ==
  /\ TonyTyped /\ ToolsAreOfTheReply /\ OpenUsesAreKnown
  /\ ResultsAreAnswers(messages) /\ UsesAreSettled(messages, step = "tools", log.left)

LEMMA SummaryIsAMessage ==
  Summary \in TonyMessages /\ Summary.role = "assistant" /\ Summary.uses = <<>> /\ ToSet(Summary.uses) = {}
<1>1. <<>> \in Seq(TonyUses) /\ DOMAIN <<>> = {}
  OBVIOUS
<1>2. Summary = [role |-> "assistant", uses |-> <<>>, text |-> TRUE, heavy |-> FALSE]
  BY DEF Summary, Message
<1>3. Summary \in TonyMessages /\ Summary.role = "assistant" /\ Summary.uses = <<>>
  BY <1>1, <1>2 DEF TonyMessages
<1>4. ToSet(<<>>) = {}
  BY <1>1 DEF ToSet
<1> QED
  BY <1>3, <1>4

(* What a compaction leaves is as sound as what it was made of.            *)
LEMMA CutStaysSound ==
  ASSUME NEW ms \in Seq(TonyMessages), NEW over, ResultsAreAnswers(ms), UsesAreSettled(ms, FALSE, over)
  PROVE  LET cut == <<Summary>> \o Newest(ms)
         IN  cut \in Seq(TonyMessages) /\ ResultsAreAnswers(cut) /\ UsesAreSettled(cut, FALSE, over)
<1> DEFINE n == Len(ms)
           d == IF n > Keep THEN n - Keep ELSE 0
           newest == SubSeq(ms, d + 1, n)
           cut == <<Summary>> \o newest
<1>1. /\ n \in Nat /\ Keep \in Nat \ {0} /\ d \in 0 .. n /\ (n > Keep => d >= 1 /\ n - d = Keep) /\ (n <= Keep => d = 0)
      /\ \A k \in 1 .. n : ms[k] \in TonyMessages
  BY TonyAssumption, LenProperties, ElementOfSeq
<1>2. Newest(ms) = newest
  BY <1>1 DEF Newest
<1> HIDE DEF d
<1>3. newest \in Seq(TonyMessages) /\ Len(newest) = n - d /\ \A k \in 1 .. n - d : newest[k] = ms[d + k]
  <2>1. \A k \in d + 1 .. n : ms[k] \in TonyMessages
    BY <1>1
  <2>2. /\ SubSeq(ms, d + 1, n) \in Seq(TonyMessages)
        /\ Len(SubSeq(ms, d + 1, n)) = IF d + 1 <= n THEN n - (d + 1) + 1 ELSE 0
        /\ \A k \in 1 .. n - (d + 1) + 1 : SubSeq(ms, d + 1, n)[k] = ms[d + 1 + k - 1]
    BY <1>1, <2>1, SubSeqProperties
  <2> QED
    BY <1>1, <2>2
<1> HIDE DEF newest, n
<1>4. <<Summary>> \in Seq(TonyMessages) /\ Len(<<Summary>>) = 1 /\ <<Summary>>[1] = Summary
  BY SummaryIsAMessage
<1>5. /\ cut \in Seq(TonyMessages) /\ Len(cut) = n - d + 1 /\ cut[1] = Summary
      /\ \A k \in 2 .. n - d + 1 : cut[k] = ms[d + k - 1]
  <2>1. /\ cut \in Seq(TonyMessages) /\ Len(cut) = 1 + Len(newest)
        /\ \A k \in 1 .. 1 + Len(newest) : cut[k] = IF k <= 1 THEN <<Summary>>[k] ELSE newest[k - 1]
    BY <1>3, <1>4, ConcatProperties
  <2> QED
    BY <1>1, <1>3, <1>4, <2>1
<1> HIDE DEF cut
<1>6. ResultsAreAnswers(cut)
  <2> SUFFICES ASSUME NEW k \in 1 .. n - d + 1, cut[k].role = "tool"
      PROVE  Answered(cut, k) \/ (k = 2 /\ cut[1] = Summary /\ Len(cut) > Keep)
    BY <1>5 DEF ResultsAreAnswers
  <2>1. k \in 2 .. n - d + 1 /\ d + k - 1 \in 1 .. n /\ cut[k] = ms[d + k - 1]
    BY <1>1, <1>5, SummaryIsAMessage
  <2>2. Answered(ms, d + k - 1) \/ (d + k - 1 = 2 /\ n > Keep)
    BY <2>1 DEF ResultsAreAnswers, n
  <2>3. CASE k = 2 /\ n > Keep
    BY <1>1, <1>5, <2>3
  <2>4. CASE k = 2 /\ n <= Keep
    BY <1>1, <2>1, <2>2, <2>4 DEF Answered
  <2>5. CASE k # 2
    <3>1. k \in 3 .. n - d + 1 /\ k - 1 \in 2 .. n - d + 1 /\ d + (k - 1) - 1 = (d + k - 1) - 1
      BY <1>1, <2>1, <2>5
    <3>2. cut[k - 1] = ms[(d + k - 1) - 1]
      BY <1>5, <3>1
    <3>3. ~(d + k - 1 = 2 /\ n > Keep)
      BY <1>1, <3>1
    <3>4. Answered(ms, d + k - 1)
      BY <2>2, <3>3
    <3>5. k > 1
      BY <1>1, <3>1
    <3>6. ms[(d + k - 1) - 1].role = "assistant" /\ ms[(d + k - 1) - 1].uses = ms[d + k - 1].uses
      BY <3>4, Zenon DEF Answered
    <3>7. cut[k - 1].role = "assistant" /\ cut[k - 1].uses = cut[k].uses
      BY <2>1, <3>2, <3>6, Zenon
    <3> QED
      BY <3>5, <3>7 DEF Answered
  <2>6. n > Keep \/ n <= Keep
    BY <1>1
  <2> QED
    BY <2>3, <2>4, <2>5, <2>6, Zenon
<1>7. UsesAreSettled(cut, FALSE, over)
  <2> SUFFICES ASSUME NEW k \in 1 .. n - d + 1, cut[k].role = "assistant"
      PROVE  Settled(cut, k, over)
    BY <1>5 DEF UsesAreSettled
  <2>1. CASE k = 1
    <3>1. ToSet(cut[k].uses) = {}
      BY <1>5, <2>1, SummaryIsAMessage
    <3> QED
      BY <3>1 DEF Settled
  <2>2. CASE k # 1
    <3>1. k \in 2 .. n - d + 1 /\ d + k - 1 \in 1 .. n /\ cut[k] = ms[d + k - 1]
      BY <1>1, <1>5, <2>2
    <3>2. Settled(ms, d + k - 1, over)
      BY <3>1 DEF UsesAreSettled, n
    <3>3. CASE ToSet(ms[d + k - 1].uses) \subseteq over
      BY <3>1, <3>3 DEF Settled
    <3>4. CASE d + k - 1 < n /\ ms[d + k - 1 + 1].role = "tool" /\ ms[d + k - 1 + 1].uses = ms[d + k - 1].uses
      <4>1. k < n - d + 1 /\ k + 1 \in 2 .. n - d + 1 /\ d + (k + 1) - 1 = d + k - 1 + 1
        BY <1>1, <3>1, <3>4
      <4>2. cut[k + 1] = ms[d + k - 1 + 1]
        BY <1>5, <4>1
      <4> QED
        BY <1>5, <3>1, <3>4, <4>1, <4>2 DEF Settled
    <3> QED
      BY <3>2, <3>3, <3>4 DEF Settled, n
  <2> QED
    BY <2>1, <2>2
<1> QED
  BY <1>2, <1>5, <1>6, <1>7 DEF cut

(* A message that is added: results answer the last one, and a reply with  *)
(* uses has its tools run, or leaves them.                                 *)
LEMMA AddedIsSound ==
  ASSUME NEW ms \in Seq(TonyMessages), NEW m \in TonyMessages, NEW over, NEW was \in BOOLEAN, NEW open \in BOOLEAN,
         ResultsAreAnswers(ms), UsesAreSettled(ms, was, over),
         was => m.role = "tool",
         m.role = "tool" => ms # <<>> /\ ms[Len(ms)].role = "assistant" /\ ms[Len(ms)].uses = m.uses,
         m.role = "assistant" => open \/ ToSet(m.uses) \subseteq over
  PROVE  /\ Append(ms, m) \in Seq(TonyMessages)
         /\ ResultsAreAnswers(Append(ms, m)) /\ UsesAreSettled(Append(ms, m), open, over)
<1> DEFINE n == Len(ms)
           new == Append(ms, m)
<1>1. /\ n \in Nat /\ new \in Seq(TonyMessages) /\ Len(new) = n + 1 /\ new[n + 1] = m
      /\ \A k \in 1 .. n : new[k] = ms[k]
      /\ ms # <<>> => n >= 1
  BY LenProperties, AppendProperties, EmptySeq
<1>0. Keep \in Nat
  BY TonyAssumption
<1> HIDE DEF new
<1>2. ASSUME NEW k \in 1 .. n + 1, new[k].role = "tool"
      PROVE  Answered(new, k) \/ (k = 2 /\ new[1] = Summary /\ n + 1 > Keep)
  <2>1. CASE k = n + 1
    BY <1>1, <1>2, <2>1 DEF Answered
  <2>2. CASE k # n + 1
    <3>1. k \in 1 .. n /\ new[k] = ms[k]
      BY <1>1, <2>2
    <3>2. Answered(ms, k) \/ (k = 2 /\ ms[1] = Summary /\ n > Keep)
      BY <1>2, <3>1 DEF ResultsAreAnswers
    <3>3. k > 1 => k - 1 \in 1 .. n /\ new[k - 1] = ms[k - 1]
      BY <1>1, <3>1
    <3>4. k = 2 => new[1] = ms[1]
      BY <1>1, <3>1
    <3> QED
      BY <1>0, <1>1, <3>1, <3>2, <3>3, <3>4 DEF Answered
  <2> QED
    BY <2>1, <2>2
<1>3. ASSUME NEW k \in 1 .. n + 1, new[k].role = "assistant"
      PROVE  Settled(new, k, over) \/ (k = n + 1 /\ open)
  <2>1. CASE k = n + 1
    BY <1>1, <1>3, <2>1 DEF Settled
  <2>2. CASE k # n + 1
    <3>1. k \in 1 .. n /\ new[k] = ms[k]
      BY <1>1, <2>2
    <3>2. Settled(ms, k, over) \/ (k = n /\ was)
      BY <1>3, <3>1 DEF UsesAreSettled
    <3>3. CASE k = n /\ was
      BY <1>1, <3>1, <3>3 DEF Settled
    <3>4. CASE ToSet(ms[k].uses) \subseteq over
      BY <3>1, <3>4 DEF Settled
    <3>5. CASE k < n /\ ms[k + 1].role = "tool" /\ ms[k + 1].uses = ms[k].uses
      <4>1. new[k + 1] = ms[k + 1] /\ k < n + 1
        BY <1>1, <3>1, <3>5
      <4> QED
        BY <1>1, <3>1, <3>5, <4>1 DEF Settled
    <3> QED
      BY <3>2, <3>3, <3>4, <3>5 DEF Settled
  <2> QED
    BY <2>1, <2>2
<1>4. ResultsAreAnswers(new)
  BY <1>1, <1>2 DEF ResultsAreAnswers
<1>5. UsesAreSettled(new, open, over)
  BY <1>1, <1>3 DEF UsesAreSettled
<1> QED
  BY <1>1, <1>4, <1>5 DEF new

LEMMA NoTurnIsATurn ==
  /\ NoTurn \in [iteration : 0 .. MaxIterations, blocks : Seq(TonyUses), current : 0 .. UsesPerReply,
                 text : BOOLEAN, results : Seq(TonyUses)]
  /\ NoStream \in [open : {"none", "text", "tool"}, tools : Nat, retries : 0 .. Retries]
  /\ NoTurn.current = 0 /\ NoTurn.results = <<>> /\ NoStream.open = "none"
<1>1. <<>> \in Seq(TonyUses)
  OBVIOUS
<1>2. NoTurn \in [iteration : 0 .. MaxIterations, blocks : Seq(TonyUses), current : 0 .. UsesPerReply,
                  text : BOOLEAN, results : Seq(TonyUses)]
  BY <1>1, TonyAssumption DEF NoTurn
<1>3. NoStream \in [open : {"none", "text", "tool"}, tools : Nat, retries : 0 .. Retries]
  BY TonyAssumption DEF NoStream
<1> QED
  BY <1>2, <1>3 DEF NoTurn, NoStream

(* More uses that are left settle no less.                                 *)
LEMMA MoreIsLeft ==
  ASSUME NEW ms, NEW open \in BOOLEAN, NEW over, NEW more, over \subseteq more, UsesAreSettled(ms, open, over)
  PROVE  UsesAreSettled(ms, open, more)
BY DEF UsesAreSettled, Settled

LEMMA TonyIInvInit ==
  ASSUME TonyInit
  PROVE  TonyIInv
<1>1. <<>> \in Seq(TonyMessages) /\ Len(<<>>) = 0
  OBVIOUS
<1>2. messages = <<>> /\ step = "prompt" /\ turn = NoTurn /\ sent = NoStream /\ readOnly \in BOOLEAN
      /\ log = [drawn |-> 0, wrote |-> {}, torn |-> {}, half |-> {}, left |-> {}, turns |-> 0]
  BY DEF TonyInit
<1>3. log \in [drawn : 0 .. UsesPerReply, wrote : SUBSET TonyUses, torn : SUBSET TonyUses,
               half : SUBSET TonyUses, left : SUBSET TonyUses, turns : Nat]
  BY <1>2, TonyAssumption
<1>4. TonyTyped
  BY <1>1, <1>2, <1>3, NoTurnIsATurn DEF TonyTyped
<1>5. ResultsAreAnswers(messages) /\ UsesAreSettled(messages, step = "tools", log.left)
  BY <1>1, <1>2 DEF ResultsAreAnswers, UsesAreSettled
<1>6. ToolsAreOfTheReply /\ OpenUsesAreKnown
  BY <1>2 DEF ToolsAreOfTheReply, OpenUsesAreKnown, RunsAreDue
<1> QED
  BY <1>4, <1>5, <1>6 DEF TonyIInv

(* A message that is added outside of the running of tools.                *)
LEMMA MessageIsAdded ==
  ASSUME TonyIInv, NEW m \in TonyMessages, step # "tools" \/ m.role = "tool", messages' = Append(messages, m),
         log' \in [drawn : 0 .. UsesPerReply, wrote : SUBSET TonyUses, torn : SUBSET TonyUses,
                   half : SUBSET TonyUses, left : SUBSET TonyUses, turns : Nat],
         log.left \subseteq log'.left,
         m.role = "tool" => messages # <<>> /\ messages[Len(messages)].role = "assistant"
                            /\ messages[Len(messages)].uses = m.uses,
         m.role = "assistant" => step' = "tools" \/ ToSet(m.uses) \subseteq log'.left
  PROVE  /\ messages' \in Seq(TonyMessages)
         /\ ResultsAreAnswers(messages') /\ UsesAreSettled(messages', step' = "tools", log'.left)
<1> DEFINE ms == messages
           over == log'.left
           was == step = "tools"
           open == step' = "tools"
<1>1. messages \in Seq(TonyMessages) /\ ResultsAreAnswers(messages) /\ UsesAreSettled(messages, was, log.left)
  BY DEF TonyIInv, TonyTyped
<1>2. was \in BOOLEAN /\ open \in BOOLEAN
  OBVIOUS
<1>3. UsesAreSettled(messages, was, over)
  BY <1>1, <1>2, MoreIsLeft
<1>4. was => m.role = "tool"
  OBVIOUS
<1>5. m.role = "assistant" => open \/ ToSet(m.uses) \subseteq over
  OBVIOUS
<1> HIDE DEF was, open, over
<1>6. /\ Append(messages, m) \in Seq(TonyMessages)
      /\ ResultsAreAnswers(Append(messages, m)) /\ UsesAreSettled(Append(messages, m), open, over)
  BY <1>1, <1>2, <1>3, <1>4, <1>5, AddedIsSound
<1> QED
  BY <1>6 DEF open, over

(* The messages are cut, and the tools of none run.                        *)
LEMMA MessagesAreCut ==
  ASSUME TonyIInv, step # "tools", step' # "tools",
         messages' = messages \/ messages' = <<Summary>> \o Newest(messages) \/ messages' = <<>>,
         log'.left = log.left
  PROVE  /\ messages' \in Seq(TonyMessages)
         /\ ResultsAreAnswers(messages') /\ UsesAreSettled(messages', step' = "tools", log'.left)
<1>1. messages \in Seq(TonyMessages) /\ ResultsAreAnswers(messages) /\ UsesAreSettled(messages, FALSE, log.left)
  <2>1. (step = "tools") = FALSE
    OBVIOUS
  <2>2. UsesAreSettled(messages, step = "tools", log.left)
    BY DEF TonyIInv
  <2>3. UsesAreSettled(messages, FALSE, log.left)
    BY <2>2 DEF UsesAreSettled
  <2> QED
    BY <2>3 DEF TonyIInv, TonyTyped
<1>2. /\ messages' \in Seq(TonyMessages)
      /\ ResultsAreAnswers(messages') /\ UsesAreSettled(messages', FALSE, log.left)
  <2>1. CASE messages' = messages
    BY <1>1, <2>1
  <2>2. CASE messages' = <<Summary>> \o Newest(messages)
    <3>1. LET cut == <<Summary>> \o Newest(messages)
          IN  cut \in Seq(TonyMessages) /\ ResultsAreAnswers(cut) /\ UsesAreSettled(cut, FALSE, log.left)
      BY <1>1, CutStaysSound
    <3> QED
      BY <2>2, <3>1, Zenon
  <2>3. CASE messages' = <<>>
    BY <2>3 DEF ResultsAreAnswers, UsesAreSettled
  <2> QED
    BY <2>1, <2>2, <2>3
<1>3. UsesAreSettled(messages', step' = "tools", log'.left)
  BY <1>2 DEF UsesAreSettled
<1> QED
  BY <1>2, <1>3

(* One step of the agent.                                                  *)
LEMMA TonyIInvStep ==
  ASSUME TonyIInv, [TonyNext]_tonyVars
  PROVE  TonyIInv'
<1> DEFINE Turns == [iteration : 0 .. MaxIterations, blocks : Seq(TonyUses), current : 0 .. UsesPerReply,
                     text : BOOLEAN, results : Seq(TonyUses)]
           Streams == [open : {"none", "text", "tool"}, tools : Nat, retries : 0 .. Retries]
           Logs == [drawn : 0 .. UsesPerReply, wrote : SUBSET TonyUses, torn : SUBSET TonyUses,
                    half : SUBSET TonyUses, left : SUBSET TonyUses, turns : Nat]
           MessagesAreSound == /\ messages' \in Seq(TonyMessages)
                               /\ ResultsAreAnswers(messages')
                               /\ UsesAreSettled(messages', step' = "tools", log'.left)
<1>1. /\ readOnly \in BOOLEAN /\ messages \in Seq(TonyMessages)
      /\ step \in {"prompt", "iterate", "stream", "tools"}
      /\ turn \in Turns /\ sent \in Streams /\ log \in Logs
  BY DEF TonyIInv, TonyTyped
<1>2. /\ NoTurn \in Turns /\ NoStream \in Streams
      /\ NoTurn.current = 0 /\ NoTurn.results = <<>> /\ NoStream.open = "none"
  BY NoTurnIsATurn
<1>3. ToolsAreOfTheReply /\ OpenUsesAreKnown /\ ResultsAreAnswers(messages)
      /\ UsesAreSettled(messages, step = "tools", log.left)
  BY DEF TonyIInv
<1>4. MaxIterations \in Nat \ {0} /\ Retries \in Nat /\ UsesPerReply \in Nat
  BY TonyAssumption
<1>5. SUFFICES /\ readOnly' = readOnly /\ step' \in {"prompt", "iterate", "stream", "tools"}
               /\ turn' \in Turns /\ sent' \in Streams /\ log' \in Logs
               /\ MessagesAreSound /\ ToolsAreOfTheReply' /\ OpenUsesAreKnown'
  BY <1>1 DEF TonyIInv, TonyTyped
(* Where no tool runs before or after it, and nothing is done to uses.     *)
<1>6. ASSUME step # "tools", step' \in {"prompt", "iterate", "stream"}, readOnly' = readOnly,
             turn' \in Turns, sent' \in Streams, log' \in Logs, MessagesAreSound,
             log'.half \subseteq log'.torn, log'.wrote = log.wrote,
             step' = "stream" => turn'.results = <<>>,
             step' = "stream" /\ turn'.current # 0 /\ sent'.open # "tool" => turn'.current \in log'.torn
      PROVE  /\ step' \in {"prompt", "iterate", "stream", "tools"}
             /\ ToolsAreOfTheReply' /\ OpenUsesAreKnown'
  BY <1>3, <1>6 DEF ToolsAreOfTheReply, OpenUsesAreKnown, RunsAreDue
<1>7. log.half \subseteq log.torn
  BY <1>3 DEF OpenUsesAreKnown, RunsAreDue
<1> HIDE DEF Turns, Streams, MessagesAreSound
<1>8. CASE Say
  <2>1. /\ step = "prompt" /\ step' = "iterate" /\ turn' = NoTurn /\ readOnly' = readOnly /\ sent' = sent
        /\ log' = [log EXCEPT !.turns = log.turns + 1]
    BY <1>8 DEF Say
  <2>2. log' \in Logs /\ log'.left = log.left /\ log'.half = log.half /\ log'.torn = log.torn /\ log'.wrote = log.wrote
    BY <1>1, <2>1
  <2>3. PICK heavy \in BOOLEAN : messages' = Append(messages, Message("user", <<>>, TRUE, heavy))
    BY <1>8 DEF Say
  <2> DEFINE m == Message("user", <<>>, TRUE, heavy)
  <2>4. m \in TonyMessages /\ m.role = "user"
    <3>1. <<>> \in Seq(TonyUses) /\ TRUE \in BOOLEAN /\ "user" \in {"user", "assistant", "tool"}
      OBVIOUS
    <3> QED
      BY <3>1 DEF Message, TonyMessages
  <2> HIDE DEF m
  <2>5. MessagesAreSound
    BY <2>1, <2>2, <2>3, <2>4, MessageIsAdded DEF MessagesAreSound, m
  <2> QED
    BY <1>1, <1>2, <1>6, <1>7, <2>1, <2>2, <2>5
<1>9. CASE CommandCompact \/ Clear
  <2>1. /\ step = "prompt" /\ step' = step /\ turn' = turn /\ readOnly' = readOnly /\ sent' = sent /\ log' = log
        /\ messages' = <<Summary>> \o Newest(messages) \/ messages' = <<>>
    BY <1>9 DEF CommandCompact, Clear
  <2>2. MessagesAreSound
    BY <2>1, MessagesAreCut DEF MessagesAreSound
  <2> QED
    BY <1>1, <1>6, <1>7, <2>1, <2>2
<1>10. CASE Iterate
  <2>1. /\ step = "iterate" /\ readOnly' = readOnly /\ log' = log /\ turn.iteration < MaxIterations
        /\ messages' = messages \/ messages' = <<Summary>> \o Newest(messages)
    BY <1>10 DEF Iterate, Compact
  <2>2. \/ step' = "stream" /\ sent' = NoStream /\ turn' = [NoTurn EXCEPT !.iteration = turn.iteration + 1]
        \/ step' = "prompt" /\ sent' = sent /\ turn' = NoTurn
    BY <1>10 DEF Iterate
  <2>3. turn' \in Turns /\ turn'.current = 0 /\ turn'.results = <<>>
    <3>1. turn.iteration + 1 \in 0 .. MaxIterations
      BY <1>1, <1>4, <2>1 DEF Turns
    <3> QED
      BY <1>2, <2>2, <3>1 DEF Turns
  <2>4. MessagesAreSound
    BY <2>1, <2>2, MessagesAreCut DEF MessagesAreSound
  <2> QED
    BY <1>1, <1>2, <1>6, <1>7, <2>1, <2>2, <2>3, <2>4
<1>11. CASE MaxIterationsReached
  <2>1. /\ step = "iterate" /\ step' = "prompt" /\ turn' = NoTurn /\ readOnly' = readOnly /\ sent' = sent /\ log' = log
        /\ messages' = messages
    BY <1>11 DEF MaxIterationsReached
  <2>2. MessagesAreSound
    BY <2>1, MessagesAreCut DEF MessagesAreSound
  <2> QED
    BY <1>1, <1>2, <1>6, <1>7, <2>1, <2>2
<1>12. ASSUME step = "stream", messages' = messages, log'.left = log.left, step' # "tools"
       PROVE  MessagesAreSound
  BY <1>12, MessagesAreCut DEF MessagesAreSound
<1>13. CASE StartText
  <2>1. /\ step = "stream" /\ step' = step /\ readOnly' = readOnly /\ log' = log /\ messages' = messages
        /\ sent.open = "none"
        /\ sent' = [sent EXCEPT !.open = "text"] /\ turn' = [turn EXCEPT !.text = TRUE]
    BY <1>13 DEF StartText
  <2>2. sent' \in Streams /\ turn' \in Turns /\ turn'.current = turn.current /\ turn'.results = turn.results
    BY <1>1, <2>1 DEF Streams, Turns
  <2>3. turn.results = <<>> /\ (turn.current # 0 => turn.current \in log.torn)
    BY <1>3, <2>1 DEF OpenUsesAreKnown, ToolsAreOfTheReply
  <2> QED
    BY <1>1, <1>6, <1>7, <1>12, <2>1, <2>2, <2>3
<1>14. CASE StartTool
  <2>1. /\ step = "stream" /\ step' = step /\ readOnly' = readOnly /\ messages' = messages
        /\ log.drawn < UsesPerReply
        /\ sent' = [sent EXCEPT !.open = "tool", !.tools = sent.tools + 1]
        /\ turn' = [turn EXCEPT !.current = log.drawn + 1]
        /\ log' = [log EXCEPT !.drawn = log.drawn + 1]
    BY <1>14 DEF StartTool
  <2>2. log.drawn + 1 \in 0 .. UsesPerReply
    BY <1>1, <1>4, <2>1
  <2>3. sent' \in Streams /\ sent'.open = "tool"
    <3>1. sent.tools + 1 \in Nat
      BY <1>1 DEF Streams
    <3> QED
      BY <1>1, <2>1, <3>1 DEF Streams
  <2>5. turn' \in Turns /\ turn'.results = <<>>
    <3>1. turn.results = <<>>
      BY <1>3, <2>1 DEF ToolsAreOfTheReply
    <3> QED
      BY <1>1, <2>1, <2>2, <3>1 DEF Turns
  <2>4. log' \in Logs /\ log'.left = log.left /\ log'.half = log.half /\ log'.torn = log.torn /\ log'.wrote = log.wrote
    BY <1>1, <2>1, <2>2
  <2> QED
    BY <1>6, <1>7, <1>12, <2>1, <2>3, <2>4, <2>5
<1>15. CASE StopBlock
  <2> DEFINE use == turn.current
  <2>1. /\ step = "stream" /\ step' = step /\ readOnly' = readOnly /\ messages' = messages
        /\ sent' = [sent EXCEPT !.open = "none"]
        /\ turn' = [turn EXCEPT !.blocks = IF use = 0 THEN turn.blocks ELSE Append(turn.blocks, use), !.current = 0]
        /\ log' = [log EXCEPT !.half = IF use # 0 /\ sent.open = "text" THEN log.half \cup {use} ELSE log.half]
    BY <1>15 DEF StopBlock
  <2>2. use # 0 => use \in TonyUses /\ Append(turn.blocks, use) \in Seq(TonyUses)
    <3>1. use \in 0 .. UsesPerReply /\ turn.blocks \in Seq(TonyUses)
      BY <1>1 DEF Turns
    <3>2. use # 0 => use \in TonyUses
      BY <1>4, <3>1 DEF TonyUses
    <3> QED
      BY <3>1, <3>2, AppendProperties
  <2>3. sent' \in Streams
    BY <1>1, <2>1 DEF Streams
  <2>6. turn' \in Turns /\ turn'.current = 0 /\ turn'.results = <<>>
    <3> DEFINE more == IF use = 0 THEN turn.blocks ELSE Append(turn.blocks, use)
    <3>1. more \in Seq(TonyUses) /\ turn' = [turn EXCEPT !.blocks = more, !.current = 0]
      BY <1>1, <2>1, <2>2 DEF Turns
    <3>2. turn.results = <<>>
      BY <1>3, <2>1 DEF ToolsAreOfTheReply
    <3> HIDE DEF more, use
    <3>3. 0 \in 0 .. UsesPerReply
      BY <1>4
    <3>4. turn' \in Turns
      BY <1>1, <3>1, <3>3 DEF Turns
    <3>5. turn'.current = 0 /\ turn'.results = turn.results
      BY <1>1, <3>1 DEF Turns
    <3> QED
      BY <3>2, <3>4, <3>5
  <2>4. log' \in Logs /\ log'.left = log.left /\ log'.torn = log.torn /\ log'.wrote = log.wrote
    BY <1>1, <2>1, <2>2
  <2>5. log'.half \subseteq log'.torn
    <3>1. log'.half = log.half \/ (log'.half = log.half \cup {use} /\ use # 0 /\ sent.open = "text")
      BY <1>1, <2>1
    <3>2. use # 0 /\ sent.open = "text" => use \in log.torn
      BY <1>3, <2>1 DEF OpenUsesAreKnown
    <3> QED
      BY <1>7, <2>4, <3>1, <3>2
  <2> QED
    BY <1>6, <1>12, <2>1, <2>3, <2>4, <2>5, <2>6
<1>16. CASE StreamTimesOut
  <2>1. /\ step = "stream" /\ step' = step /\ readOnly' = readOnly /\ messages' = messages /\ turn' = turn
        /\ sent.retries < Retries /\ sent' = [NoStream EXCEPT !.retries = sent.retries + 1]
        /\ log' = [log EXCEPT !.torn = log.torn \cup ({turn.current} \ {0})]
    BY <1>16 DEF StreamTimesOut
  <2>2. sent.retries + 1 \in 0 .. Retries
    BY <1>1, <1>4, <2>1 DEF Streams
  <2>3. sent' \in Streams
    BY <1>2, <2>1, <2>2 DEF Streams
  <2>4. {turn.current} \ {0} \subseteq TonyUses
    BY <1>1, <1>4 DEF Turns, TonyUses
  <2>5. /\ log' \in Logs /\ log'.left = log.left /\ log'.half = log.half /\ log'.wrote = log.wrote
        /\ log'.torn = log.torn \cup ({turn.current} \ {0})
    BY <1>1, <2>1, <2>4
  <2>6. log'.half \subseteq log'.torn /\ (turn'.current # 0 => turn'.current \in log'.torn)
    BY <1>7, <2>1, <2>5
  <2>7. turn'.results = <<>>
    BY <1>3, <2>1 DEF ToolsAreOfTheReply
  <2> QED
    BY <1>1, <1>6, <1>12, <2>1, <2>3, <2>5, <2>6, <2>7
<1>17. CASE StreamFails
  <2>1. /\ step = "stream" /\ step' = "prompt" /\ readOnly' = readOnly /\ messages' = messages /\ log' = log
        /\ turn' = NoTurn /\ sent' = NoStream
    BY <1>17 DEF StreamFails
  <2> QED
    BY <1>1, <1>2, <1>6, <1>7, <1>12, <2>1
<1>18. CASE \E reason \in StopReasons : StreamEnds(reason)
  <2>1. PICK reason \in StopReasons : StreamEnds(reason)
    BY <1>18
  <2> DEFINE runs == reason = "tool_use" /\ turn.blocks # <<>>
             m == Message("assistant", turn.blocks, turn.text, FALSE)
  <2>2. /\ step = "stream" /\ readOnly' = readOnly /\ sent' = NoStream /\ messages' = Append(messages, m)
        /\ step' = IF runs THEN "tools" ELSE "prompt"
        /\ turn' = IF runs THEN turn ELSE NoTurn
        /\ log' = [log EXCEPT !.left = IF runs THEN log.left ELSE log.left \cup ToSet(turn.blocks)]
    BY <2>1 DEF StreamEnds
  <2>3. /\ turn.blocks \in Seq(TonyUses) /\ turn.text \in BOOLEAN
        /\ ToSet(turn.blocks) \subseteq TonyUses
    <3>1. turn.blocks \in Seq(TonyUses) /\ turn.text \in BOOLEAN
      BY <1>1 DEF Turns
    <3>2. \A i \in DOMAIN turn.blocks : turn.blocks[i] \in TonyUses
      BY <3>1
    <3> QED
      BY <3>1, <3>2 DEF ToSet
  <2>4. m \in TonyMessages /\ m.role = "assistant" /\ m.uses = turn.blocks
    <3>1. FALSE \in BOOLEAN /\ "assistant" \in {"user", "assistant", "tool"}
      OBVIOUS
    <3> QED
      BY <2>3, <3>1 DEF Message, TonyMessages
  <2> HIDE DEF m
  <2>5. /\ log' \in Logs /\ log'.half = log.half /\ log'.wrote = log.wrote /\ log'.torn = log.torn
        /\ log'.left = IF runs THEN log.left ELSE log.left \cup ToSet(turn.blocks)
    <3> HIDE DEF runs
    <3> QED
      BY <1>1, <2>2, <2>3
  <2>6. turn' \in Turns
    BY <1>1, <1>2, <2>2
  <2>7. MessagesAreSound
    <3>1. step' = "tools" \/ ToSet(m.uses) \subseteq log'.left
      BY <2>2, <2>4, <2>5
    <3>2. log.left \subseteq log'.left /\ step # "tools" /\ m.role # "tool"
      BY <2>2, <2>4, <2>5
    <3> QED
      BY <2>2, <2>4, <2>5, <3>1, <3>2, MessageIsAdded DEF MessagesAreSound
  <2>8. CASE ~runs
    BY <1>2, <1>6, <1>7, <2>2, <2>5, <2>6, <2>7, <2>8
  <2>9. CASE runs
    <3>1. step' = "tools" /\ turn' = turn /\ turn.results = <<>> /\ Len(turn.results) = 0
      BY <1>3, <2>2, <2>9 DEF ToolsAreOfTheReply
    <3>2. /\ messages' # <<>> /\ messages'[Len(messages')] = m /\ Len(turn.blocks) \in Nat
      BY <1>1, <2>2, <2>3, <2>4, AppendProperties, LenProperties, EmptySeq
    <3>3. ToolsAreOfTheReply'
      BY <2>4, <3>1, <3>2 DEF ToolsAreOfTheReply
    <3>4. OpenUsesAreKnown'
      BY <1>3, <2>2, <2>5, <3>1 DEF OpenUsesAreKnown, RunsAreDue
    <3> QED
      BY <1>2, <2>2, <2>5, <2>6, <2>7, <3>1, <3>3, <3>4
  <2> QED
    BY <2>8, <2>9
<1>19. CASE RunTool
  <2> DEFINE n == Len(turn.results)
             use == turn.blocks[n + 1]
  <2>1. /\ step = "tools" /\ step' = step /\ readOnly' = readOnly /\ messages' = messages /\ sent' = sent
        /\ n < Len(turn.blocks) /\ turn' = [turn EXCEPT !.results = Append(turn.results, use)]
        /\ log' = log \/ (log' = [log EXCEPT !.wrote = log.wrote \cup {use}] /\ ~readOnly)
    BY <1>19 DEF RunTool
  <2>2. /\ turn.blocks \in Seq(TonyUses) /\ turn.results \in Seq(TonyUses) /\ n \in Nat
        /\ Len(turn.blocks) \in Nat
    BY <1>1, LenProperties DEF Turns
  <2>3. use \in TonyUses
    <3>1. n + 1 \in 1 .. Len(turn.blocks)
      BY <2>1, <2>2
    <3> QED
      BY <2>2, <3>1, ElementOfSeq
  <2> DEFINE results == Append(turn.results, use)
  <2>4. /\ results \in Seq(TonyUses) /\ Len(results) = n + 1
        /\ \A i \in 1 .. n : results[i] = turn.results[i]
        /\ results[n + 1] = use
    BY <2>2, <2>3, AppendProperties
  <2>5. turn' = [turn EXCEPT !.results = results]
    BY <2>1
  <2> HIDE DEF results
  <2>6. turn' \in Turns /\ turn'.results = results /\ turn'.blocks = turn.blocks
    BY <1>1, <2>4, <2>5 DEF Turns
  <2>7. /\ log' \in Logs /\ log'.left = log.left /\ log'.half = log.half /\ log'.torn = log.torn
        /\ log'.wrote # {} => log.wrote # {} \/ ~readOnly
    BY <1>1, <2>1, <2>3
  <2>8. ToolsAreOfTheReply'
    <3>1. /\ messages # <<>> /\ messages[Len(messages)].role = "assistant"
          /\ messages[Len(messages)].uses = turn.blocks
          /\ \A i \in 1 .. n : turn.results[i] = turn.blocks[i]
      BY <1>3, <2>1 DEF ToolsAreOfTheReply
    <3>2. \A i \in 1 .. n + 1 : results[i] = turn.blocks[i]
      BY <2>2, <2>4, <3>1
    <3> QED
      BY <2>1, <2>2, <2>4, <2>6, <3>1, <3>2 DEF ToolsAreOfTheReply
  <2>9. OpenUsesAreKnown'
    BY <1>3, <2>1, <2>7 DEF OpenUsesAreKnown, RunsAreDue
  <2>10. MessagesAreSound
    <3>1. UsesAreSettled(messages, step' = "tools", log'.left)
      BY <1>3, <2>1, <2>7
    <3> QED
      BY <1>1, <1>3, <2>1, <3>1 DEF MessagesAreSound
  <2> QED
    BY <1>1, <2>1, <2>6, <2>7, <2>8, <2>9, <2>10
<1>20. CASE ToolsDone
  <2>1. /\ step = "tools" /\ step' = "iterate" /\ readOnly' = readOnly /\ turn' = turn /\ sent' = sent /\ log' = log
        /\ Len(turn.results) = Len(turn.blocks)
    BY <1>20 DEF ToolsDone
  <2>2. PICK heavy \in BOOLEAN : messages' = Append(messages, Message("tool", turn.results, TRUE, heavy))
    BY <1>20 DEF ToolsDone
  <2> DEFINE m == Message("tool", turn.results, TRUE, heavy)
  <2>3. turn.blocks \in Seq(TonyUses) /\ turn.results \in Seq(TonyUses)
    BY <1>1 DEF Turns
  <2>4. m \in TonyMessages /\ m.role = "tool" /\ m.uses = turn.results
    <3>1. TRUE \in BOOLEAN /\ "tool" \in {"user", "assistant", "tool"}
      OBVIOUS
    <3> QED
      BY <2>3, <3>1 DEF Message, TonyMessages
  <2> HIDE DEF m
  <2>5. /\ messages # <<>> /\ messages[Len(messages)].role = "assistant"
        /\ messages[Len(messages)].uses = turn.blocks
        /\ \A i \in 1 .. Len(turn.results) : turn.results[i] = turn.blocks[i]
    BY <1>3, <2>1 DEF ToolsAreOfTheReply
  <2>6. turn.results = turn.blocks
    BY <2>1, <2>3, <2>5, SeqEqual
  <2>7. MessagesAreSound
    <3>1. messages' = Append(messages, m)
      BY <2>2 DEF m
    <3> QED
      BY <1>1, <2>1, <2>4, <2>5, <2>6, <3>1, MessageIsAdded DEF MessagesAreSound
  <2>8. ToolsAreOfTheReply' /\ OpenUsesAreKnown'
    BY <1>3, <2>1 DEF ToolsAreOfTheReply, OpenUsesAreKnown, RunsAreDue
  <2> QED
    BY <1>1, <2>1, <2>7, <2>8
<1>21. CASE Interrupt
  <2>1. /\ step \in {"stream", "tools"} /\ step' = "prompt" /\ readOnly' = readOnly /\ messages' = messages
        /\ turn' = NoTurn /\ sent' = NoStream
        /\ log' = IF step = "tools" THEN [log EXCEPT !.left = log.left \cup ToSet(turn.blocks)] ELSE log
    BY <1>21 DEF Interrupt
  <2>2. ToSet(turn.blocks) \subseteq TonyUses
    <3>1. turn.blocks \in Seq(TonyUses)
      BY <1>1 DEF Turns
    <3>2. \A i \in DOMAIN turn.blocks : turn.blocks[i] \in TonyUses
      BY <3>1
    <3> QED
      BY <3>2 DEF ToSet
  <2>3. /\ log' \in Logs /\ log'.half = log.half /\ log'.torn = log.torn /\ log'.wrote = log.wrote
        /\ log.left \subseteq log'.left
        /\ step = "tools" => ToSet(turn.blocks) \subseteq log'.left
    BY <1>1, <2>1, <2>2
  <2>4. UsesAreSettled(messages, FALSE, log'.left)
    <3>1. \A k \in 1 .. Len(messages) : messages[k].role = "assistant" =>
            Settled(messages, k, log.left) \/ (k = Len(messages) /\ step = "tools")
      BY <1>3 DEF UsesAreSettled
    <3>2. step = "tools" => messages[Len(messages)].uses = turn.blocks
      BY <1>3 DEF ToolsAreOfTheReply
    <3> QED
      BY <2>3, <3>1, <3>2 DEF UsesAreSettled, Settled
  <2>5. MessagesAreSound
    <3>1. UsesAreSettled(messages, step' = "tools", log'.left)
      BY <2>1, <2>4 DEF UsesAreSettled
    <3> QED
      BY <1>1, <1>3, <2>1, <3>1 DEF MessagesAreSound
  <2>6. ToolsAreOfTheReply' /\ OpenUsesAreKnown'
    BY <1>3, <2>1, <2>3 DEF ToolsAreOfTheReply, OpenUsesAreKnown, RunsAreDue
  <2> QED
    BY <1>2, <2>1, <2>3, <2>5, <2>6
<1>22. CASE UNCHANGED tonyVars
  <2>1. /\ readOnly' = readOnly /\ messages' = messages /\ step' = step /\ turn' = turn /\ sent' = sent /\ log' = log
    BY <1>22 DEF tonyVars
  <2>2. MessagesAreSound
    BY <1>1, <1>3, <2>1 DEF MessagesAreSound
  <2> QED
    BY <1>1, <1>3, <2>1, <2>2 DEF ToolsAreOfTheReply, OpenUsesAreKnown, RunsAreDue
<1> QED
  BY <1>8, <1>9, <1>10, <1>11, <1>13, <1>14, <1>15, <1>16, <1>17, <1>18, <1>19, <1>20, <1>21, <1>22 DEF TonyNext

(* Results in the session of the Python agent follow the uses they answer, *)
(* all of them and in their order, or the cut of a compaction; uses        *)
(* without results were left; a use of which a part arrived was cut short  *)
(* by a timeout, and nothing writes in read-only mode.                     *)
THEOREM AgentKeepsItsSession == TonySpec => []AgentInv
<1>1. ASSUME TonyIInv
      PROVE  AgentInv
  <2>1. messages \in Seq(TonyMessages) /\ DOMAIN messages = 1 .. Len(messages)
    BY <1>1 DEF TonyIInv, TonyTyped
  <2>2. TonyTypeOK
    <3>1. \A k \in DOMAIN messages : messages[k] \in TonyMessages
      BY <2>1
    <3>2. \A k \in DOMAIN messages : messages[k].role \in {"user", "assistant", "tool"}
      BY <3>1 DEF TonyMessages
    <3> QED
      BY <1>1, <3>2 DEF TonyIInv, TonyTyped, TonyTypeOK, TonyUses
  <2>3. ResultsFollowUses
    <3>1. ASSUME NEW k \in DOMAIN messages, messages[k].role = "tool"
          PROVE  Cut(k) \/ (k > 1 /\ messages[k - 1].role = "assistant" /\ messages[k - 1].uses = messages[k].uses)
      BY <1>1, <2>1, <3>1 DEF TonyIInv, ResultsAreAnswers, Answered, Cut
    <3>2. ASSUME NEW k \in DOMAIN messages, messages[k].role = "assistant", messages[k].uses # <<>>
          PROVE  \/ k = Len(messages) /\ step = "tools"
                 \/ k < Len(messages) /\ messages[k + 1].role = "tool" /\ messages[k + 1].uses = messages[k].uses
                 \/ ToSet(messages[k].uses) \subseteq log.left
      BY <1>1, <2>1, <3>2 DEF TonyIInv, UsesAreSettled, Settled
    <3> QED
      BY <3>1, <3>2 DEF ResultsFollowUses
  <2> QED
    BY <1>1, <2>2, <2>3 DEF AgentInv, TonyIInv, OpenUsesAreKnown
<1> QED
  BY <1>1, TonyIInvInit, TonyIInvStep, PTL DEF TonySpec

=============================================================================
