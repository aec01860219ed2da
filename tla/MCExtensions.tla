---------------------------- MODULE MCExtensions -----------------------------
(***************************************************************************)
(* Small instances of what extends claw: the files of plugins, their       *)
(* manifests and life cycle, the commands of their hooks, the registry of  *)
(* tools, the settings and the names of MCP tools.  They never meet: a     *)
(* behaviour is one of one of them, and the others stay as they begin.     *)
(***************************************************************************)
EXTENDS Plugins, PluginManifest, HookCommands, ToolRegistry, Settings, McpNames, TLC

CONSTANTS demo

VARIABLE part   \* the component the behaviour is of

MCNames == {demo}
MCTools == [n \in MCNames |-> {"echo"}]

Entry(name, command, permission) == [name |-> name, command |-> command, permission |-> permission]
MCToolEntries == {Entry("t", File, "read-only"), Entry("", Literal, "read-only"), Entry("t", "", "root")}

PluginTool(name, permission) == [name |-> name, permission |-> permission]
MCPluginTools ==
  {PluginTool("my-tool", "read-only"), PluginTool("webfetch", "danger-full-access"),
   PluginTool("bash", "read-only")}
MCTokens == {"Read", "my-tool", "WebFetch"}
MCNormal ==
  [n \in SpecNames |-> IF n = "WebFetch" THEN "webfetch" ELSE n] @@
  "my-tool" :> "my_tool" @@ "webfetch" :> "webfetch" @@ "Read" :> "read"
MCTerms == {"web", "sleep"}
MCRelation ==
  <<"WebFetch", "web">> :> "named" @@ <<"WebSearch", "web">> :> "named" @@
  <<"Sleep", "sleep">> :> "exact" @@ <<"PowerShell", "sleep">> :> "described" @@
  <<"Agent", "web">> :> "described"

ExtensionsInit ==
  /\ part \in {"plugins", "manifest", "hooks", "registry", "settings", "names"}
  /\ Init /\ (part # "plugins" => Range(source) = {0} /\ Range(bundle) = {0})
  /\ ManifestInit /\ HooksInit /\ RegistryInit /\ SettingsInit /\ NamesInit

ExtensionsNext ==
  /\ UNCHANGED part
  /\ \/ part = "plugins" /\ Next /\ UNCHANGED <<manifestVars, hookVars, registryVars, settingsVars, namesVars>>
     \/ part = "manifest" /\ ManifestNext /\ UNCHANGED <<vars, hookVars, registryVars, settingsVars, namesVars>>
     \/ part = "hooks" /\ HooksNext /\ UNCHANGED <<vars, manifestVars, registryVars, settingsVars, namesVars>>
     \/ part = "registry" /\ RegistryNext /\ UNCHANGED <<vars, manifestVars, hookVars, settingsVars, namesVars>>
     \/ part = "settings" /\ SettingsNext /\ UNCHANGED <<vars, manifestVars, hookVars, registryVars, namesVars>>
     \/ part = "names" /\ NamesNext /\ UNCHANGED <<vars, manifestVars, hookVars, registryVars, settingsVars>>

ExtensionsSpec ==
  ExtensionsInit /\ [][ExtensionsNext]_<<part, vars, manifestVars, hookVars, registryVars, settingsVars,
                                           namesVars>>

(* What is written down for claw means what it says: the manifests of      *)
(* plugins, the settings, the servers named in them, and the words by      *)
(* which a tool is looked for.                                             *)
ConfigurationInv == ManifestInv /\ SettingsInv /\ NamesInv /\ SearchIsFair

=============================================================================
