--------------------------- MODULE PluginManifest ---------------------------
(***************************************************************************)
(* What a plugin declares and what becomes of it (plugins/src/lib.rs): the *)
(* manifest is read and checked as a whole, the files it names are looked  *)
(* for then and once more when the tools or hooks of the enabled plugins   *)
(* are gathered, and the lifecycle commands are run in the order of the    *)
(* plugins' ids, the last first to shut down.  initialize and shutdown are *)
(* there for a host to call; claw-cli does not.                            *)
(***************************************************************************)
EXTENDS Naturals, SequencesExt, FiniteSetsExt

CONSTANTS
  Plugins,      \* number of enabled plugins, in the order of their ids
  ToolEntries,  \* entries a manifest may have: [name, command, permission]
  MaxWrites     \* bound: manifests written and files moved

ASSUME ManifestAssumption == Plugins \in Nat \ {0} /\ MaxWrites \in Nat

VARIABLES
  manifest,  \* of each plugin: [named, permissions, tools, init, stop]
  there,     \* whether the file is there that its entries may name
  defined,   \* the definition that was loaded, or what is wrong with it
  collected, \* "unread", "read", "gathered", "initializing", "up", "stopping", "down", "failed"
  at,        \* the plugin whose lifecycle commands run
  started,   \* history: the plugins whose init commands all ran, in that order
  stopped,   \* history: those whose shutdown commands all ran, in that order
  writes

manifestVars == <<manifest, there, defined, collected, at, started, stopped, writes>>

Numbers == 1 .. Plugins
File == "./run.sh"
Literal == "echo"
ToolPermissions == {"read-only", "workspace-write", "danger-full-access"}
Manifests ==
  [named : BOOLEAN, permissions : {<<>>, <<"read">>, <<"read", "read">>, <<"sudo">>},
   tools : {<<>>} \cup {<<e>> : e \in ToolEntries} \cup (ToolEntries \X ToolEntries),
   init : {<<>>, <<File>>, <<Literal, "">>}, stop : {<<>>, <<File>>}]
Plain == [named |-> TRUE, permissions |-> <<>>, tools |-> <<>>, init |-> <<>>, stop |-> <<>>]

-----------------------------------------------------------------------------
(* build_plugin_manifest: everything that is wrong is reported.           *)
Wrong(of, is, entry) == [of |-> of, is |-> is, entry |-> entry]

(* validate_command_entry; a bare name is left for the shell to find.      *)
Missing(command, file) == command = File /\ ~file
CommandErrors(of, k, command, file) ==
  IF command = "" THEN {Wrong(of, "without command", k)}
  ELSE IF Missing(command, file) THEN {Wrong(of, "without file", k)} ELSE {}

PermissionErrors(m) ==
  UNION {IF m.permissions[k] = "" THEN {Wrong("permission", "empty", k)}
         ELSE IF \E j \in 1 .. k - 1 : m.permissions[j] = m.permissions[k] THEN {Wrong("permission", "twice", k)}
         ELSE IF m.permissions[k] \notin {"read", "write", "execute"} THEN {Wrong("permission", "unknown", k)}
         ELSE {} : k \in DOMAIN m.permissions}

(* build_manifest_tools: nothing more is said of an entry without a name   *)
(* or with one that was there.                                             *)
ToolErrors(tools, file) ==
  UNION {LET t == tools[k]
         IN  IF t.name = "" THEN {Wrong("tool", "without name", k)}
             ELSE IF \E j \in 1 .. k - 1 : tools[j].name = t.name THEN {Wrong("tool", "twice", k)}
             ELSE CommandErrors("tool", k, t.command, file) \cup
                  (IF t.permission \notin ToolPermissions THEN {Wrong("tool", "with unknown permission", k)} ELSE {})
         : k \in DOMAIN tools}

LifecycleErrors(commands, file) ==
  UNION {CommandErrors("lifecycle", k, commands[k], file) : k \in DOMAIN commands}

ManifestErrors(m, file) ==
  (IF m.named THEN {} ELSE {Wrong("field", "empty", 0)}) \cup PermissionErrors(m) \cup
  ToolErrors(m.tools, file) \cup LifecycleErrors(m.init, file) \cup LifecycleErrors(m.stop, file)

Unread == [is |-> "unread", errors |-> {}, tools |-> <<>>, init |-> <<>>, stop |-> <<>>]
Definition(m, file) ==
  IF ManifestErrors(m, file) # {}
  THEN [Unread EXCEPT !.is = "refused", !.errors = ManifestErrors(m, file)]
  ELSE [is |-> "loaded", errors |-> {}, tools |-> m.tools, init |-> m.init, stop |-> m.stop]

(* PluginDefinition::validate.                                             *)
CommandsOf(d) == ToSet(d.init) \cup ToSet(d.stop) \cup {d.tools[k].command : k \in DOMAIN d.tools}
Valid(p) == File \in CommandsOf(defined[p]) => there[p]

-----------------------------------------------------------------------------
ManifestInit ==
  /\ manifest = [p \in Numbers |-> Plain] /\ there = [p \in Numbers |-> TRUE]
  /\ defined = [p \in Numbers |-> Unread]
  /\ collected = "unread" /\ at = 0 /\ started = <<>> /\ stopped = <<>> /\ writes = 0

(* The author and the user, before claw reads and while it runs.           *)
WriteManifest(p) ==
  /\ collected = "unread" /\ writes < MaxWrites /\ writes' = writes + 1
  /\ \E m \in Manifests : manifest' = [manifest EXCEPT ![p] = m]
  /\ UNCHANGED <<there, defined, collected, at, started, stopped>>

MoveFile(p) ==
  /\ writes < MaxWrites /\ writes' = writes + 1
  /\ there' = [there EXCEPT ![p] = ~@]
  /\ UNCHANGED <<manifest, defined, collected, at, started, stopped>>

(* plugin_registry: one manifest that is refused fails them all.           *)
LoadPlugins ==
  /\ collected = "unread"
  /\ defined' = [p \in Numbers |-> Definition(manifest[p], there[p])]
  /\ collected' = IF \E p \in Numbers : defined'[p].is = "refused" THEN "failed" ELSE "read"
  /\ UNCHANGED <<manifest, there, at, started, stopped, writes>>

(* aggregated_tools.                                                       *)
ToolNames(p) == {defined[p].tools[k].name : k \in DOMAIN defined[p].tools}
AggregateTools ==
  /\ collected = "read"
  /\ collected' = IF /\ \A p \in Numbers : Valid(p)
                    /\ \A p, q \in Numbers : p # q => ToolNames(p) \cap ToolNames(q) = {}
                 THEN "gathered" ELSE "failed"
  /\ UNCHANGED <<manifest, there, defined, at, started, stopped, writes>>

Initialize ==
  /\ collected = "gathered" /\ collected' = "initializing" /\ at' = 1
  /\ UNCHANGED <<manifest, there, defined, started, stopped, writes>>

(* run_lifecycle_commands: the commands of a plugin, up to one that fails. *)
InitializePlugin ==
  /\ collected = "initializing"
  /\ \/ /\ Valid(at) /\ started' = Append(started, at)
        /\ IF at = Plugins THEN collected' = "up" /\ at' = 0 ELSE at' = at + 1 /\ UNCHANGED collected
     \/ /\ ~Valid(at) \/ defined[at].init # <<>>
        /\ collected' = "failed" /\ at' = 0 /\ UNCHANGED started
  /\ UNCHANGED <<manifest, there, defined, stopped, writes>>

Shutdown ==
  /\ collected = "up" /\ collected' = "stopping" /\ at' = Plugins
  /\ UNCHANGED <<manifest, there, defined, started, stopped, writes>>

(* Slip: they are shut down in the order they were started. *)
ShutdownForward ==
  /\ collected = "stopping"
  /\ LET p == Plugins + 1 - at
     IN  \/ /\ stopped' = Append(stopped, p)
            /\ IF at = 1 THEN collected' = "down" /\ at' = 0 ELSE at' = at - 1 /\ UNCHANGED collected
         \/ /\ defined[p].stop # <<>> /\ collected' = "failed" /\ at' = 0 /\ UNCHANGED stopped
  /\ UNCHANGED <<manifest, there, defined, started, writes>>
ShutdownPlugin ==
  /\ collected = "stopping"
  /\ \/ /\ File \in ToSet(defined[at].stop) => there[at]
        /\ stopped' = Append(stopped, at)
        /\ IF at = 1 THEN collected' = "down" /\ at' = 0 ELSE at' = at - 1 /\ UNCHANGED collected
     \/ /\ defined[at].stop # <<>>
        /\ collected' = "failed" /\ at' = 0 /\ UNCHANGED stopped
  /\ UNCHANGED <<manifest, there, defined, started, writes>>

(* The next start reads everything again.                                  *)
StartAgain ==
  /\ collected \in {"failed", "down"}
  /\ collected' = "unread" /\ defined' = [p \in Numbers |-> Unread]
  /\ started' = <<>> /\ stopped' = <<>>
  /\ UNCHANGED <<manifest, there, at, writes>>

ManifestNext ==
  \/ (\E p \in Numbers : WriteManifest(p) \/ MoveFile(p))
  \/ LoadPlugins \/ AggregateTools \/ Initialize \/ InitializePlugin \/ Shutdown \/ ShutdownPlugin
  \/ StartAgain

ManifestSpec == ManifestInit /\ [][ManifestNext]_manifestVars

-----------------------------------------------------------------------------
(* A manifest is refused exactly if something in it is wrong, and the user *)
(* is told of every entry that is: no error hides that of another entry.   *)
DefectiveTool(tools, k, file) ==
  \/ tools[k].name = "" \/ tools[k].command = "" \/ tools[k].permission \notin ToolPermissions
  \/ Missing(tools[k].command, file)
  \/ \E j \in 1 .. k - 1 : tools[j].name = tools[k].name
EveryDefectIsTold ==
  collected = "unread" =>
    \A p \in Numbers :
      LET d == Definition(manifest[p], there[p])
          tools == manifest[p].tools
          told == {e \in d.errors : e.of = "tool"}
      IN  /\ {k \in DOMAIN tools : DefectiveTool(tools, k, there[p])} = {e.entry : e \in told}
          /\ d.is = "loaded" => manifest[p].named /\ "" \notin CommandsOf(d) /\ IsInjective(manifest[p].permissions)

(* The tools that were gathered have one name each, across all plugins.    *)
NamesAreUnique ==
  collected \in {"gathered", "initializing", "up", "stopping", "down"} =>
    \A p, q \in Numbers : \A j \in DOMAIN defined[p].tools, k \in DOMAIN defined[q].tools :
      defined[p].tools[j].name = defined[q].tools[k].name => p = q /\ j = k

(* Plugins start in the order of their ids and stop in the reverse order;  *)
(* a shutdown that succeeds stops all of them, one that fails leaves the   *)
(* earlier ones running.                                                   *)
LastStartedStopsFirst ==
  /\ started = [k \in DOMAIN started |-> k]
  /\ stopped = [k \in DOMAIN stopped |-> Plugins + 1 - k]
  /\ collected = "down" => Len(started) = Plugins /\ Len(stopped) = Plugins

ManifestInv == EveryDefectIsTold /\ NamesAreUnique /\ LastStartedStopsFirst

=============================================================================
