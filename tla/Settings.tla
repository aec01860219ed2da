------------------------------ MODULE Settings ------------------------------
(***************************************************************************)
(* The settings (runtime/src/config.rs): five files, from the user's       *)
(* legacy one to the local one of the project, merged into one object by   *)
(* ConfigLoader::load, and the two ways in which the program writes one of *)
(* them: the Config tool (tools/src/lib.rs) and the switch of a plugin     *)
(* (plugins/src/lib.rs).  The user edits any of them in between.           *)
(***************************************************************************)
EXTENDS Integers

CONSTANTS
  MaxChanges  \* bound: changes of a file

ASSUME SettingsAssumption == MaxChanges \in Nat

VARIABLES
  files,   \* [file -> [path -> value]]; one that is missing or empty has no values
  broken,  \* files that do not parse
  changes, \* changes so far
  report   \* what the last change was, and whether the files could be loaded before it

settingsVars == <<files, broken, changes, report>>

UserLegacy == 1     User == 2     ProjectLegacy == 3     Project == 4     Local == 5
Entries == UserLegacy .. Local
Legacy(f) == f \in {UserLegacy, ProjectLegacy}
Source(f) == CASE f <= User -> "user" [] f = Local -> "local" [] OTHER -> "project"

-----------------------------------------------------------------------------
(* A file is the set of its leaves: a path without a value is absent.  The *)
(* path "permissions" stands for a value there that is no object.          *)
Values ==
  [model |-> {"opus", "number"},
   permissionMode |-> {"read-only", "unknown", "number"},
   permissions |-> {"junk"},
   defaultMode |-> {"default", "dontAsk", "unknown", "number"},   \* permissions.defaultMode
   enabledPlugin |-> {"on", "off", "junk"},                       \* enabledPlugins.<plugin>
   pluginsEnabled |-> {"on", "junk"},                             \* plugins.enabled.<plugin>
   othersEnabled |-> {"on"},                                      \* plugins.enabled, empty or of other plugins
   mcpServer |-> {"stdio", "http", "junk"}]                       \* mcpServers.<server>
Paths == DOMAIN Values
Parent == [defaultMode |-> "permissions"]
Unset == "absent"
Empty == [p \in Paths |-> Unset]

(* Inserting a leaf replaces what is no object above it, or the objects    *)
(* that were where it is now (deep_merge_objects, set_nested_value).       *)
Clears(p) == {q \in DOMAIN Parent : Parent[q] = p} \cup (IF p \in DOMAIN Parent THEN {Parent[p]} ELSE {})
Put(object, p, v) == [q \in Paths |-> IF q = p THEN v ELSE IF q \in Clears(p) THEN Unset ELSE object[q]]

DeepMerge(low, high) ==
  [p \in Paths |-> IF high[p] # Unset THEN high[p]
                   ELSE IF \E q \in Clears(p) : high[q] # Unset THEN Unset ELSE low[p]]

(* read_optional_json_object: a legacy file that does not parse is skipped.*)
Readable == \A f \in broken : Legacy(f)
MergeFile(object, f) == IF f \in broken THEN object ELSE DeepMerge(object, files[f])

(* Slip: the files are merged in the opposite order. *)
MergedBackwards ==
  MergeFile(MergeFile(MergeFile(MergeFile(MergeFile(Empty, Local), Project), ProjectLegacy), User), UserLegacy)
Merged ==
  MergeFile(MergeFile(MergeFile(MergeFile(MergeFile(Empty, UserLegacy), User), ProjectLegacy), Project), Local)

(* merge_mcp_servers: each file's servers are parsed on their own and      *)
(* replace those of the files before it.                                   *)
MergeServer(server, f) ==
  IF f \in broken \/ files[f].mcpServer = Unset THEN server
  ELSE [config |-> files[f].mcpServer, scope |-> Source(f)]
NoServer == [config |-> Unset, scope |-> "none"]
McpServers ==
  MergeServer(MergeServer(MergeServer(MergeServer(MergeServer(
    NoServer, UserLegacy), User), ProjectLegacy), Project), Local)

(* The fields of RuntimeFeatureConfig.  permissionMode goes before         *)
(* permissions.defaultMode, whatever files they are in, and a              *)
(* plugins.enabled takes the place of the whole of enabledPlugins, whether *)
(* or not it names the plugin.                                             *)
Text(v) == v \notin {Unset, "number", "junk"}
ModeLabel(object) ==
  IF Text(object.permissionMode) THEN object.permissionMode
  ELSE IF Text(object.defaultMode) THEN object.defaultMode ELSE Unset
Model(object) == IF Text(object.model) THEN object.model ELSE Unset

(* Slip: plugins.enabled only goes before enabledPlugins, plugin by plugin.*)
SwitchedByPlugin(object) ==
  IF object.pluginsEnabled # Unset THEN object.pluginsEnabled ELSE object.enabledPlugin
SwitchedOn(object) ==
  IF object.pluginsEnabled # Unset \/ object.othersEnabled # Unset THEN object.pluginsEnabled
  ELSE object.enabledPlugin

ModeLabels == {"default", "plan", "read-only", "acceptEdits", "auto", "workspace-write",
               "dontAsk", "danger-full-access"}

Loads ==
  /\ Readable
  /\ \A f \in Entries \ broken : files[f].mcpServer # "junk"
  /\ Merged.enabledPlugin # "junk" /\ Merged.pluginsEnabled # "junk"
  /\ ModeLabel(Merged) \in ModeLabels \cup {Unset}

-----------------------------------------------------------------------------
NoReport == [by |-> "none", path |-> Unset, value |-> Unset, before |-> FALSE]

SettingsInit ==
  /\ files = [f \in Entries |-> Empty] /\ broken = {}
  /\ changes = 0
  /\ report = NoReport

Change(f, by, p, v) ==
  /\ f \notin broken /\ changes < MaxChanges /\ changes' = changes + 1
  /\ files' = [files EXCEPT ![f] = Put(@, p, v)]
  /\ report' = [by |-> by, path |-> p, value |-> v, before |-> Loads]
  /\ UNCHANGED broken

UserEdits(f) == \E p \in Paths : \E v \in Values[p] \cup {Unset} : Change(f, "user", p, v)

UserBreaks(f) ==
  /\ changes < MaxChanges /\ changes' = changes + 1
  /\ files' = [files EXCEPT ![f] = Empty] /\ broken' = broken \cup {f}
  /\ report' = NoReport

(* execute_config: the settings it takes that are loaded again, with the   *)
(* options normalize_config_value lets through; a number is one of them    *)
(* for the model.  A broken file is an error and stays.                    *)
ConfigOptions ==
  [model |-> {"haiku", "number"}, defaultMode |-> {"default", "plan", "acceptEdits", "dontAsk", "auto"}]

ConfigTool ==
  \E p \in DOMAIN ConfigOptions : \E v \in ConfigOptions[p] : Change(Local, "tool", p, v)

(* write_enabled_state, after the settings were loaded for it.             *)
SwitchPlugin == Loads /\ \E v \in {"on", "off"} : Change(User, "switch", "enabledPlugin", v)

SettingsNext == (\E f \in Entries : UserEdits(f) \/ UserBreaks(f)) \/ ConfigTool \/ SwitchPlugin

SettingsSpec == SettingsInit /\ [][SettingsNext]_settingsVars

-----------------------------------------------------------------------------
SettingsTypeOK ==
  /\ \A f \in Entries, p \in Paths :
       files[f][p] \in Values[p] \cup {Unset, "haiku"} \cup (IF p = "defaultMode" THEN ModeLabels ELSE {})
  /\ broken \subseteq Entries
  /\ changes \in 0 .. MaxChanges

(* The last file that has a path, or that has something else where the     *)
(* path goes through, decides what is there.                               *)
Has(f, p) == files[f][p] # Unset
Decides(f, p) == \E q \in {p} \cup Clears(p) : Has(f, q)
LastFileDecides ==
  Merged = [p \in Paths |->
    IF \E f \in Entries : Decides(f, p)
    THEN files[CHOOSE f \in Entries : Decides(f, p) /\ \A g \in f + 1 .. Local : ~Decides(g, p)][p]
    ELSE Unset]

(* A server is taken whole from the last file that names it, and its scope *)
(* says which that was; no file is refused for what a later one replaced,  *)
(* but for its servers.                                                    *)
ServersAreWhole ==
  \A f \in Entries :
    Has(f, "mcpServer") /\ (\A g \in f + 1 .. Local : ~Has(g, "mcpServer"))
      => McpServers = [config |-> files[f].mcpServer, scope |-> Source(f)]

(* No change by the program makes settings unreadable that could be read.  *)
ProgramKeepsThemReadable == report.by \in {"tool", "switch"} /\ report.before => Loads

(* What the program set is what it reads next, unless a file above it says *)
(* otherwise, or any file has what goes first.  For a switch that is a     *)
(* plugins.enabled, even an empty one: then no switch that is written is   *)
(* ever read, and a plugin which it does not name is as if it had none.    *)
WhatWasSetIsRead ==
  report.by \in {"tool", "switch"} /\ Loads =>
    /\ report.by = "tool" /\ report.path = "model" =>
         Model(Merged) = IF report.value = "number" THEN Unset ELSE report.value
    /\ report.by = "tool" /\ report.path = "defaultMode" =>
         \/ ModeLabel(Merged) = report.value
         \/ \E f \in Entries : Has(f, "permissionMode")
    /\ report.by = "switch" =>
         \/ SwitchedOn(Merged) = report.value
         \/ \E f \in User + 1 .. Local : Has(f, "enabledPlugin")
         \/ \E f \in Entries : Has(f, "pluginsEnabled") \/ Has(f, "othersEnabled")
    /\ report.by = "switch" =>
         ((\E f \in Entries : Has(f, "othersEnabled")) /\ (\A f \in Entries : ~Has(f, "pluginsEnabled"))
            => SwitchedOn(Merged) = Unset)

SettingsInv ==
  /\ SettingsTypeOK /\ LastFileDecides /\ ServersAreWhole /\ ProgramKeepsThemReadable /\ WhatWasSetIsRead

=============================================================================
