---------------------------- MODULE ToolRegistry ----------------------------
(***************************************************************************)
(* The tools a session offers (tools/src/lib.rs, claw-cli/src/main.rs):    *)
(* those of claw and those of the enabled plugins.  --allowedTools is      *)
(* resolved against the plugins of the moment it is parsed; the registry   *)
(* is built again for the session and at each /model, /permissions and     *)
(* /plugins, with the plugins that are enabled then.  Also the search of   *)
(* the ToolSearch tool.                                                    *)
(***************************************************************************)
EXTENDS Naturals, SequencesExt, FiniteSetsExt

CONSTANTS
  PluginTools,  \* what plugins may define: [name, permission]
  Tokens,       \* what may be written after --allowedTools
  Normal,       \* normalize_tool_name of names and tokens
  Terms,        \* words of a search
  Relation      \* how a word relates to a tool: "described", "named", "exact"

VARIABLES
  enabled,  \* the tools of the enabled plugins, by the ids of the plugins
  cli,      \* [step, allowed]; history: written, and the tools it was resolved against
  runtime,  \* the plugin tools of the registry of the running session
  found     \* the last search: [query, names]

registryVars == <<enabled, cli, runtime, found>>

(* mvp_tool_specs: the tools of claw and what they require.                *)
ReadOnlyTools == {"read_file", "glob_search", "grep_search", "WebFetch", "WebSearch", "Skill",
                  "ToolSearch", "Sleep", "SendUserMessage", "StructuredOutput"}
WritingTools == {"write_file", "edit_file", "TodoWrite", "NotebookEdit", "Config"}
OtherTools == {"bash", "Agent", "REPL", "PowerShell"}
SpecNames == ReadOnlyTools \cup WritingTools \cup OtherTools
RequiredPermission(name) ==
  IF name \in ReadOnlyTools THEN "read-only"
  ELSE IF name \in WritingTools THEN "workspace-write" ELSE "danger-full-access"

Everything == {"*"}   \* no --allowedTools
NamesOf(tools) == SpecNames \cup {tools[k].name : k \in DOMAIN tools}

(* with_plugin_tools: no plugin takes a name that is taken.                *)
Accepted(tools) ==
  \A k \in DOMAIN tools :
    tools[k].name \notin SpecNames /\ \A j \in 1 .. k - 1 : tools[j].name # tools[k].name

-----------------------------------------------------------------------------
(* normalize_allowed_tools: of names that normalise alike the last one     *)
(* counts, and plugins come after claw; an alias counts most.              *)
Alias(normal) ==
  CASE normal = "read" -> "read_file" [] normal = "write" -> "write_file"
    [] normal = "edit" -> "edit_file" [] normal = "glob" -> "glob_search"
    [] normal = "grep" -> "grep_search" [] OTHER -> "none"
Like(tools, token) == {k \in DOMAIN tools : Normal[tools[k].name] = Normal[token]}
KnownTools(tools, token) ==
  Alias(Normal[token]) # "none" \/ \E n \in NamesOf(tools) : Normal[n] = Normal[token]
Canonical(tools, token) ==
  IF Alias(Normal[token]) # "none" THEN Alias(Normal[token])
  ELSE IF Like(tools, token) # {} THEN tools[Max(Like(tools, token))].name
  ELSE CHOOSE n \in SpecNames : Normal[n] = Normal[token]

(* Slip: a set of which nothing is registered counts as no set at all. *)
AllowsWhenEmpty(tools, allowed, name) ==
  allowed = Everything \/ allowed \cap NamesOf(tools) = {} \/ name \in allowed
Allows(tools, allowed, name) == allowed = Everything \/ name \in allowed

Definitions(tools, allowed) == {n \in NamesOf(tools) : Allows(tools, allowed, n)}

(* permission_policy: the requirement of a name is the last one given.     *)
Requirement(tools, name) ==
  LET given == {k \in DOMAIN tools : tools[k].name = name}
  IN  IF given # {} THEN tools[Max(given)].permission ELSE RequiredPermission(name)

(* CliToolExecutor and GlobalToolRegistry::execute.                        *)
Unsupported == [from |-> "nobody", permission |-> "none"]
Executes(tools, allowed, name) ==
  IF ~Allows(tools, allowed, name) THEN Unsupported
  ELSE IF name \in SpecNames THEN [from |-> "claw", permission |-> RequiredPermission(name)]
  ELSE LET given == {k \in DOMAIN tools : tools[k].name = name}
       IN  IF given = {} THEN Unsupported
           ELSE [from |-> "plugin", permission |-> tools[Min(given)].permission]

-----------------------------------------------------------------------------
NotParsed == [step |-> "shell", allowed |-> Everything, written |-> {}, against |-> <<>>]
NothingFound == [query |-> [required |-> {}, optional |-> {}, blank |-> FALSE, max |-> 0], names |-> <<>>]
RegistryInit == enabled = <<>> /\ cli = NotParsed /\ runtime = <<>> /\ found = NothingFound

(* Another process, or /plugins of this one before it builds again.  A     *)
(* search is looked at until the process ends: a bound.                    *)
Configure ==
  /\ found = NothingFound
  /\ \E n \in 0 .. 2 : enabled' \in [1 .. n -> PluginTools]
  /\ UNCHANGED <<cli, runtime, found>>

(* A value without names in it allows none.                                *)
ParseArgs(given, tokens) ==
  /\ cli.step = "shell"
  /\ cli' = IF ~Accepted(enabled) \/ \E t \in tokens : ~KnownTools(enabled, t)
            THEN [NotParsed EXCEPT !.step = "refused"]
            ELSE [step |-> "parsed", written |-> tokens, against |-> enabled,
                  allowed |-> IF ~given THEN Everything ELSE {Canonical(enabled, t) : t \in tokens}]
  /\ UNCHANGED <<enabled, runtime, found>>

(* build_runtime; an error of it ends the process.                         *)
BuildRuntime ==
  /\ cli.step \in {"parsed", "up"} /\ found = NothingFound
  /\ IF Accepted(enabled) THEN cli' = [cli EXCEPT !.step = "up"] /\ runtime' = enabled
     ELSE cli' = [NotParsed EXCEPT !.step = "refused"] /\ runtime' = <<>>
  /\ UNCHANGED <<enabled, found>>

Restart ==
  /\ cli.step \in {"up", "refused"} /\ cli' = NotParsed
  /\ runtime' = <<>> /\ found' = NothingFound
  /\ UNCHANGED enabled

-----------------------------------------------------------------------------
(* search_tool_specs: of the tools that are not always shown, by score and *)
(* then by name.  A query without words is blank, or some "+" alone.  One  *)
(* that begins with "select:" names its tools, and is not modelled.        *)
Deferred == <<"Agent", "Config", "NotebookEdit", "PowerShell", "REPL", "SendUserMessage", "Skill",
              "Sleep", "StructuredOutput", "TodoWrite", "ToolSearch", "WebFetch", "WebSearch">>
Strength(name, term) == IF <<name, term>> \in DOMAIN Relation THEN Relation[<<name, term>>] ELSE "none"
ScoreOf(strength) == CASE strength = "exact" -> 2 + 8 + 4 + 12 + 3 [] strength = "named" -> 2 + 4 + 3
                       [] strength = "described" -> 2 + 3 [] OTHER -> 0
Words(query) == query.required \cup query.optional
Score(name, query) == MapThenSumSet(LAMBDA t : ScoreOf(Strength(name, t)), Words(query))
(* Slip: the required words are only counted. *)
FoundByScore(name, query) == Score(name, query) > 0 \/ query.blank
Found(name, query) ==
  /\ \A t \in query.required : Strength(name, t) # "none"
  /\ Score(name, query) > 0 \/ query.blank
Before(query, j, k) ==
  \/ Score(Deferred[j], query) > Score(Deferred[k], query)
  \/ Score(Deferred[j], query) = Score(Deferred[k], query) /\ j < k

(* Slip: a search for at most no tools is taken at its word. *)
MaxAsAsked(asked) == asked
MaxResults(asked) == Max({asked, 1})

Search(required, optional, blank, asked) ==
  /\ cli.step = "up" /\ found = NothingFound
  /\ LET query == [required |-> required, optional |-> optional, blank |-> blank, max |-> MaxResults(asked)]
         ranked == SortSeq(SelectSeq([k \in DOMAIN Deferred |-> k], LAMBDA k : Found(Deferred[k], query)),
                           LAMBDA j, k : Before(query, j, k))
     IN  found' = [query |-> query,
                   names |-> [i \in 1 .. Min({query.max, Len(ranked)}) |-> Deferred[ranked[i]]]]
  /\ UNCHANGED <<enabled, cli, runtime>>

RegistryNext ==
  \/ Configure
  \/ (\E given \in BOOLEAN, tokens \in SUBSET Tokens :
         (tokens # {} => given) /\ Cardinality(tokens) <= 2 /\ ParseArgs(given, tokens))
  \/ BuildRuntime \/ Restart
  \/ (\E required, optional \in SUBSET Terms, blank \in BOOLEAN, asked \in {0, 2} :
         /\ required \cap optional = {} /\ (blank => required \cup optional = {})
         /\ Search(required, optional, blank, asked))

RegistrySpec == RegistryInit /\ [][RegistryNext]_registryVars

-----------------------------------------------------------------------------
(* What the model is offered is what a call reaches, under the permission  *)
(* the policy asks for, and a tool it is not offered cannot be called.     *)
OfferedIsReached ==
  cli.step = "up" =>
    \A n \in NamesOf(runtime) \cup NamesOf(enabled) :
      LET reached == Executes(runtime, cli.allowed, n)
      IN  /\ n \in Definitions(runtime, cli.allowed) <=> reached # Unsupported
          /\ reached # Unsupported => reached.permission = Requirement(runtime, n)

(* However the plugins change after --allowedTools was resolved, no tool   *)
(* is offered that nothing written there stands for.                       *)
NothingWidened ==
  cli.allowed # Everything =>
    \A n \in Definitions(runtime, cli.allowed) :
      \E t \in cli.written : Normal[t] = Normal[n] \/ Alias(Normal[t]) = n

(* The exact name of a tool allows that tool, unless another one, or an    *)
(* alias, normalises alike.                                                *)
ExactNamesCount ==
  \A t \in cli.written \cap NamesOf(cli.against) :
    \/ t \in cli.allowed
    \/ Alias(Normal[t]) # "none"
    \/ \E n \in NamesOf(cli.against) \ {t} : Normal[n] = Normal[t]

(* A tool that fits every word of a search at least as well as another,    *)
(* and one better, comes before it, and none lacks a required word.  One   *)
(* that has them all and some word of the search, or any when the search   *)
(* is for nothing, is left out only where the answer is full, and there is *)
(* room for one in every answer.                                           *)
Weight(strength) == CASE strength = "exact" -> 3 [] strength = "named" -> 2 [] strength = "described" -> 1 [] OTHER -> 0
Fits(a, b, query) ==
  /\ \A t \in Words(query) : Weight(Strength(a, t)) >= Weight(Strength(b, t))
  /\ \E t \in Words(query) : Weight(Strength(a, t)) > Weight(Strength(b, t))
Wanted(name, query) ==
  /\ \A t \in query.required : Strength(name, t) # "none"
  /\ query.blank \/ \E t \in Words(query) : Strength(name, t) # "none"
SearchIsFair ==
  LET query == found.query
  IN  /\ \A k \in DOMAIN found.names :
           /\ Wanted(found.names[k], query)
           /\ \A a \in ToSet(Deferred) : Fits(a, found.names[k], query) => \E j \in 1 .. k - 1 : found.names[j] = a
      /\ found # NothingFound =>
           \A a \in ToSet(Deferred) \ ToSet(found.names) : Wanted(a, query) => Len(found.names) >= Max({query.max, 1})
      /\ Len(found.names) <= query.max

RegistryInv == OfferedIsReached /\ NothingWidened /\ ExactNamesCount

=============================================================================
