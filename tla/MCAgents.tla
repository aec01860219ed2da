------------------------------ MODULE MCAgents -------------------------------
(***************************************************************************)
(* Small instances of what works beside the conversation: the agents and   *)
(* skills a project defines, sub-agents, the files tools share and search, *)
(* commands with a limit, and the two Python programs, the agent and the   *)
(* presentation generator.  They never meet: a behaviour is one of one of  *)
(* them, and the others stay as they begin.                                *)
(***************************************************************************)
EXTENDS Definitions, SubAgents, FileTools, ShellCommands, TonyAgent,
        PowerGen, TLC

CONSTANTS a1, a2, t1, t2, notebook, settings, todos, text, s1, s2

VARIABLE part   \* the component the behaviour is of

MCAgentIds == {a1, a2}
MCThreads == {t1, t2}
MCDocuments == notebook :> "notebook" @@ settings :> "settings" @@ todos :> "todos" @@ text :> "text"
MCSessions == {s1, s2}
MCFileLines == {<<>>, <<0>>, <<2>>, <<0, 1, 0>>, <<1, 0, 3>>, <<1, 1, 0, 1>>}
MCContexts == {Unset, 0, 1}
MCPageLimits == {Unset, 0, 1, 2}

MCParent == "/" :> "/" @@ "home" :> "/" @@ "project" :> "home" @@ "elsewhere" :> "/"
MCNames == "a" :> "a" @@ "A" :> "a"
MCRank == "A" :> 1 @@ "a" :> 2

toolVars == <<agentVars, fileVars, searchVars, shellVars, tonyVars, genVars>>

AgentsInit ==
  /\ part \in {"definitions", "agents", "files", "searches", "shell", "tony", "powergen"}
  /\ DefinitionsInit /\ (part # "definitions" => cwd = Home /\ ~codexHome)
  /\ AgentInit /\ FilesInit /\ SearchInit /\ ShellInit /\ GenInit
  /\ TonyInit /\ (part # "tony" => readOnly)

ToolsNext ==
  \/ part = "agents" /\ AgentNext /\ UNCHANGED <<fileVars, searchVars, shellVars, tonyVars, genVars>>
  \/ part = "files" /\ FilesNext /\ UNCHANGED <<agentVars, searchVars, shellVars, tonyVars, genVars>>
  \/ part = "searches" /\ SearchNext /\ UNCHANGED <<agentVars, fileVars, shellVars, tonyVars, genVars>>
  \/ part = "shell" /\ ShellNext /\ UNCHANGED <<agentVars, fileVars, searchVars, tonyVars, genVars>>
  \/ part = "tony" /\ TonyNext /\ UNCHANGED <<agentVars, fileVars, searchVars, shellVars, genVars>>
  \/ part = "powergen" /\ GenNext /\ UNCHANGED <<agentVars, fileVars, searchVars, shellVars, tonyVars>>

AgentsNext ==
  /\ UNCHANGED part
  /\ \/ part = "definitions" /\ DefinitionsNext /\ UNCHANGED toolVars
     \/ ToolsNext /\ UNCHANGED definitionVars

(* The fairness of ShellSpec.                                              *)
AgentsSpec ==
  /\ AgentsInit /\ [][AgentsNext]_<<part, definitionVars, toolVars>>
  /\ WF_shellVars(part = "shell" /\ Tool)

(* What is found in the project: its agents and skills, and the lines and  *)
(* files that are searched for.                                            *)
FindingsInv == DefinitionsInv /\ SearchInv

=============================================================================
