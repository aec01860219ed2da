------------------------------- MODULE Plugins -------------------------------
(***************************************************************************)
(* The plugins of claw on disk (plugins/src/lib.rs) and the session that   *)
(* loads them (claw-cli/src/main.rs, /plugins of commands/src/lib.rs).     *)
(* An installed plugin is a copied directory, a record of the registry and *)
(* a switch in settings.json.  They are written one after the other, none  *)
(* of the writes is atomic, and the process may end at any point: by a     *)
(* crash, or because an error of a slash command ends the session.         *)
(* A step of the program is one directory or file; todo is the rest of     *)
(* the operation under way.                                                *)
(***************************************************************************)
EXTENDS Naturals, SequencesExt, FiniteSetsExt, Functions

CONSTANTS
  Names,           \* names of plugins
  Versions,        \* their versions
  Tools,           \* tool names of the plugin of each name
  BuiltinTools,    \* tool names of claw itself
  DefaultEnabled,  \* names whose manifest says defaultEnabled
  MaxDeaths        \* bound: processes that end in the middle

ASSUME PluginsAssumption ==
  /\ IsFiniteSet(Names)
  /\ Versions \subseteq Nat \ {0}
  /\ DOMAIN Tools = Names
  /\ DefaultEnabled \subseteq Names
  /\ MaxDeaths \in Nat

VARIABLES
  session,   \* "down", "up", or "refused" (the start failed)
  todo,      \* steps left of the operation under way
  half,      \* is the first of them half done?
  copy,      \* what is in the install directory of each plugin
  registry,  \* installed.json: id -> version of its record
  settings,  \* enabledPlugins of settings.json: id -> BOOLEAN
  torn,      \* which of the two files do not parse
  source,    \* version at the place external plugins come from, 0 if invalid
  bundle,    \* version that comes with claw, 0 if none does
  loaded,    \* plugins of the running session: [id, from (its directory)]
  deaths,
  wish, acked, cut, lost  \* history

disk == <<copy, registry, settings, torn>>
history == <<wish, acked, cut, lost>>
vars == <<session, todo, half, disk, source, bundle, loaded, deaths, history>>

(* An id is name@marketplace; the directory of a plugin is named after it. *)
External(n) == <<n, "external">>
Bundled(n) == <<n, "bundled">>
Ids == Names \X {"bundled", "external"}
IsBundled(id) == id[2] = "bundled"

Absent == [is |-> "absent", version |-> 0]
Bare == [is |-> "bare", version |-> 0]       \* no manifest: no plugin
Broken == [is |-> "broken", version |-> 0]   \* a manifest that does not load
Partial == [is |-> "partial", version |-> 0] \* a manifest that loads, files missing
Whole(v) == [is |-> "whole", version |-> v]

Init ==
  /\ session = "down" /\ todo = <<>> /\ half = FALSE
  /\ copy = [id \in Ids |-> Absent]
  /\ registry = <<>> /\ settings = <<>> /\ torn = {}
  /\ source \in [Names -> Versions \cup {0}]
  /\ bundle \in [Names -> Versions \cup {0}]
  /\ loaded = {} /\ deaths = 0
  /\ wish = [id \in Ids |-> "none"]
  /\ acked = [id \in Ids |-> 0]
  /\ cut = {} /\ lost = {}

-----------------------------------------------------------------------------
(* The steps. *)
Removal(id) == [do |-> "remove", id |-> id]
Copying(id, v) == [do |-> "copy", id |-> id, version |-> v]
Store(records) == [do |-> "store", records |-> records]
Switches(s) == [do |-> "switches", switches |-> s]
Ack(id, v, w) == [do |-> "ack", id |-> id, version |-> v, wish |-> w]
Sync == [do |-> "sync"]
Scan == [do |-> "scan"]
Load == [do |-> "load"]

With(f, id, v) == [i \in DOMAIN f \cup {id} |-> IF i = id THEN v ELSE f[i]]
Without(f, ids) == Restrict(f, DOMAIN f \ ids)

Does(step) == todo # <<>> /\ Head(todo).do = step
Goes(rest) == todo' = rest /\ half' = FALSE
Refused == session' = "refused" /\ todo' = <<>> /\ half' = FALSE /\ loaded' = {}

(* remove_dir_all: files go in any order. *)
Remains(c) == CASE c.is = "bare" -> {Bare}
                [] c.is = "broken" -> {Bare, Broken}
                [] OTHER -> {Bare, Broken, Partial}

RemoveDir ==
  /\ Does("remove")
  /\ LET id == Head(todo).id IN
     \/ /\ ~half /\ copy[id] = Absent
        /\ Goes(Tail(todo)) /\ UNCHANGED <<copy, cut>>
     \/ /\ ~half /\ copy[id] # Absent
        /\ \E rest \in Remains(copy[id]) : copy' = [copy EXCEPT ![id] = rest]
        /\ half' = TRUE /\ UNCHANGED <<todo, cut>>
     \/ /\ half
        /\ copy' = [copy EXCEPT ![id] = Absent]
        /\ cut' = cut \ {id} /\ Goes(Tail(todo))
  /\ UNCHANGED <<session, registry, settings, torn, source, bundle, loaded, deaths,
                 wish, acked, lost>>

(* copy_dir_all: files come in any order. *)
CopyDir ==
  /\ Does("copy")
  /\ LET id == Head(todo).id IN
     \/ /\ ~half
        /\ \E some \in {Bare, Broken, Partial} : copy' = [copy EXCEPT ![id] = some]
        /\ half' = TRUE /\ UNCHANGED <<todo, cut>>
     \/ /\ half
        /\ copy' = [copy EXCEPT ![id] = Whole(Head(todo).version)]
        /\ cut' = cut \ {id} /\ Goes(Tail(todo))
  /\ UNCHANGED <<session, registry, settings, torn, source, bundle, loaded, deaths,
                 wish, acked, lost>>

(* store_registry: fs::write truncates the file first. *)
StoreRegistry ==
  /\ Does("store")
  /\ \/ /\ ~half
        /\ registry' = <<>> /\ torn' \in {torn, torn \cup {"registry"}}
        /\ half' = TRUE /\ UNCHANGED todo
     \/ /\ half
        /\ registry' = Head(todo).records /\ torn' = torn \ {"registry"}
        /\ Goes(Tail(todo))
  /\ UNCHANGED <<session, copy, settings, source, bundle, loaded, deaths, history>>

(* write_enabled_state, by update_settings_json. *)
WriteEnabledState ==
  /\ Does("switches")
  /\ \/ /\ ~half
        /\ settings' = <<>> /\ torn' \in {torn, torn \cup {"settings"}}
        /\ half' = TRUE /\ UNCHANGED todo
     \/ /\ half
        /\ settings' = Head(todo).switches /\ torn' = torn \ {"settings"}
        /\ Goes(Tail(todo))
  /\ UNCHANGED <<session, copy, registry, source, bundle, loaded, deaths, history>>

-----------------------------------------------------------------------------
(* What is on disk. *)

(* sync_bundled_plugins: what comes with claw is copied again unless its   *)
(* record and its copy are in order, and what no longer comes is removed.  *)
NeedsSync(n) ==
  /\ bundle[n] # 0
  /\ \/ Bundled(n) \notin DOMAIN registry
     \/ registry[Bundled(n)] # bundle[n]
     \/ copy[Bundled(n)].is \notin {"whole", "partial"}

StaleBundled == {id \in DOMAIN registry : IsBundled(id) /\ bundle[id[1]] = 0}

Behind == {n \in Names : NeedsSync(n)}

Renewed ==
  [id \in (DOMAIN registry \ StaleBundled) \cup {Bundled(n) : n \in Behind} |->
     IF IsBundled(id) THEN bundle[id[1]] ELSE registry[id]]

Renewal(n) == <<Removal(Bundled(n)), Copying(Bundled(n), bundle[n])>>
Renewals ==
  LET order == SetToSeq(Behind)
  IN  [k \in 1 .. 2 * Len(order) |-> Renewal(order[(k + 1) \div 2])[IF k % 2 = 1 THEN 1 ELSE 2]]

SyncPlan ==
  Renewals \o SetToSeq({Removal(id) : id \in StaleBundled})
  \o (IF Behind = {} /\ StaleBundled = {} THEN <<>> ELSE <<Store(Renewed)>>)

(* discover_installed_plugins: a directory that has a manifest is a        *)
(* plugin; without a record of its own it is taken for an external one.    *)
(* Of two with one id, the first directory counts.                         *)
HasManifest(d) == copy[d].is \in {"broken", "partial", "whole"}
IdOf(d) == IF d \in DOMAIN registry THEN d ELSE External(d[1])
Shadowed(d) == d = External(d[1]) /\ HasManifest(Bundled(d[1])) /\ IdOf(Bundled(d[1])) = d
Discovered == {[id |-> IdOf(d), from |-> d] : d \in {e \in Ids : HasManifest(e) /\ ~Shadowed(e)}}
StaleRecords == {id \in DOMAIN registry : ~HasManifest(id)}

(* Slip: any manifest may switch its plugin on. *)
IsEnabledByManifest(id) ==
  IF id \in DOMAIN settings THEN settings[id] ELSE id[1] \in DefaultEnabled

(* is_enabled: the switch, or the default of what comes with claw.         *)
IsEnabled(id) ==
  IF id \in DOMAIN settings THEN settings[id] ELSE IsBundled(id) /\ id[1] \in DefaultEnabled
Enabled == {p \in Discovered : IsEnabled(p.id)}

(* aggregated_tools and with_plugin_tools refuse a name that is taken.     *)
ToolsClash ==
  \E p \in Enabled : LET tools == Tools[p.id[1]] IN
    \/ tools \cap BuiltinTools # {}
    \/ \E q \in Enabled \ {p} : tools \cap Tools[q.id[1]] # {}

-----------------------------------------------------------------------------
(* A session starts, and loads its plugins again after each command.       *)
Reload == <<Sync, Scan, Load>>

Start ==
  /\ session = "down"
  /\ session' = "up" /\ Goes(Reload)
  /\ UNCHANGED <<disk, source, bundle, loaded, deaths, history>>

SyncBundledPlugins ==
  /\ Does("sync")
  /\ \/ torn # {} /\ Refused
     \/ torn = {} /\ Goes(SyncPlan \o Tail(todo)) /\ UNCHANGED <<session, loaded>>
  /\ UNCHANGED <<disk, source, bundle, deaths, history>>

DiscoverInstalledPlugins ==
  /\ Does("scan")
  /\ LET broken == \E d \in Ids : copy[d] = Broken
         pruned == IF StaleRecords = {} THEN <<>>
                   ELSE <<Store(Without(registry, StaleRecords))>>
     IN  \/ broken /\ Refused
         \/ ~broken /\ Goes(pruned \o Tail(todo)) /\ UNCHANGED <<session, loaded>>
  /\ UNCHANGED <<disk, source, bundle, deaths, history>>

AggregatedTools ==
  /\ Does("load")
  /\ \/ ToolsClash /\ Refused
     \/ ~ToolsClash /\ loaded' = Enabled /\ Goes(Tail(todo)) /\ UNCHANGED session
  /\ UNCHANGED <<disk, source, bundle, deaths, history>>

(* /plugins install, enable, disable, uninstall and update, one at a time. *)
(* The registry and the settings parse and agree with the discovery at     *)
(* this point, as the session could load them.                             *)
Begin(steps, ids, version, w) ==
  /\ session = "up" /\ todo = <<>>
  /\ Goes(steps \o Reload)
  /\ wish' = [id \in Ids |-> IF id \in ids THEN w ELSE wish[id]]
  /\ acked' = [id \in Ids |-> IF id \in ids THEN version ELSE acked[id]]
  /\ UNCHANGED <<session, disk, source, bundle, loaded, deaths, cut, lost>>

Install(n) ==
  /\ source[n] # 0
  /\ LET id == External(n) IN
     Begin(<<Removal(id), Copying(id, source[n]), Store(With(registry, id, source[n])),
             Switches(With(settings, id, TRUE)), Ack(id, source[n], "on")>>,
           {id}, 0, "unsure")

Known(id) == \E p \in Discovered : p.id = id

Enable(id) ==
  /\ Known(id)
  /\ Begin(<<Switches(With(settings, id, TRUE)), Ack(id, acked[id], "on")>>,
           {id}, acked[id], "unsure")

Disable(id) ==
  /\ Known(id)
  /\ Begin(<<Switches(With(settings, id, FALSE)), Ack(id, acked[id], "off")>>,
           {id}, acked[id], "unsure")

Uninstall(n) ==
  /\ External(n) \in DOMAIN registry
  /\ LET id == External(n) IN
     Begin(<<Removal(id), Store(Without(registry, {id})), Switches(Without(settings, {id})),
             Ack(id, 0, "none")>>,
           {id}, 0, "unsure")

Update(id) ==
  /\ id \in DOMAIN registry
  /\ LET v == IF IsBundled(id) THEN bundle[id[1]] ELSE source[id[1]] IN
     /\ v # 0
     /\ Begin(<<Removal(id), Copying(id, v), Store(With(registry, id, v)),
                Ack(id, IF IsBundled(id) THEN 0 ELSE v, wish[id])>>, {id}, 0, wish[id])

(* The command returns: what it promised is remembered. *)
Return ==
  /\ Does("ack")
  /\ LET done == Head(todo) IN
     /\ wish' = [wish EXCEPT ![done.id] = done.wish]
     /\ acked' = [acked EXCEPT ![done.id] = done.version]
  /\ Goes(Tail(todo))
  /\ UNCHANGED <<session, disk, source, bundle, loaded, deaths, cut, lost>>

(* /exit, or a command that is refused before it changes anything (an id   *)
(* that is not known, a source that is not valid): its error ends run_repl.*)
(* A start that fails ends claw, too.                                      *)
Exit ==
  /\ session # "down" /\ todo = <<>>
  /\ session' = "down" /\ loaded' = {}
  /\ UNCHANGED <<todo, half, disk, source, bundle, deaths, history>>

(* A crash, or an error of a file operation. *)
Die ==
  /\ todo # <<>> /\ deaths < MaxDeaths
  /\ deaths' = deaths + 1
  /\ session' = "down" /\ todo' = <<>> /\ half' = FALSE /\ loaded' = {}
  /\ cut' = IF half /\ Head(todo).do \in {"remove", "copy"} THEN cut \cup {Head(todo).id} ELSE cut
  /\ lost' = IF ~half THEN lost
             ELSE lost \cup (IF Does("store") THEN {"registry"} ELSE {})
                       \cup (IF Does("switches") THEN {"settings"} ELSE {})
  /\ UNCHANGED <<disk, source, bundle, wish, acked>>

(* The author of a plugin changes it; claw is installed anew.              *)
SourceChanges ==
  /\ session # "refused" /\ todo = <<>>
  /\ \E n \in Names, v \in Versions \cup {0} : source' = [source EXCEPT ![n] = v]
  /\ UNCHANGED <<session, todo, half, disk, bundle, loaded, deaths, history>>

BundleChanges ==
  /\ session = "down"
  /\ \E n \in Names, v \in Versions \cup {0} : bundle' = [bundle EXCEPT ![n] = v]
  /\ UNCHANGED <<session, todo, half, disk, source, loaded, deaths, history>>

Next ==
  \/ Start \/ SyncBundledPlugins \/ DiscoverInstalledPlugins \/ AggregatedTools
  \/ RemoveDir \/ CopyDir \/ StoreRegistry \/ WriteEnabledState \/ Return
  \/ \E n \in Names : Install(n) \/ Uninstall(n)
  \/ \E id \in Ids : Enable(id) \/ Disable(id) \/ Update(id)
  \/ Exit \/ Die \/ SourceChanges \/ BundleChanges

Spec == Init /\ [][Next]_vars

-----------------------------------------------------------------------------
TypeOK ==
  /\ session \in {"down", "up", "refused"}
  /\ session # "up" => todo = <<>> /\ loaded = {}
  /\ half => todo # <<>>
  /\ \A id \in Ids : copy[id] \in {Absent, Bare, Broken, Partial} \cup {Whole(v) : v \in Versions}
  /\ DOMAIN registry \subseteq Ids /\ Range(registry) \subseteq Versions
  /\ DOMAIN settings \subseteq Ids /\ Range(settings) \subseteq BOOLEAN
  /\ torn \subseteq {"registry", "settings"}
  /\ loaded \subseteq [id : Ids, from : Ids]
  /\ wish \in [Ids -> {"none", "on", "off", "unsure"}]
  /\ acked \in [Ids -> Versions \cup {0}]

(* A session that can not start has one of three reasons: a file that was  *)
(* cut while it was written, the directory of a plugin that was cut while  *)
(* it was copied or removed and does not come with claw (what does is      *)
(* copied again), or two enabled plugins with the same tool.               *)
StartsAgain ==
  session = "refused" =>
    \/ torn # {} /\ torn \subseteq lost
    \/ \E id \in cut : copy[id] = Broken /\ (IsBundled(id) => bundle[id[1]] = 0)
    \/ ToolsClash

(* A plugin is loaded because its user wants it: an external one was       *)
(* installed or enabled and not disabled or uninstalled since, whatever    *)
(* was updated, copied again or cut short in between.  Only a settings     *)
(* file that was cut can forget a wish.  And it is loaded from a whole     *)
(* copy, unless a removal or a copy was cut and its manifest still loads.  *)
LoadedIsWanted ==
  todo = <<>> => \A p \in loaded :
    /\ \/ wish[p.id] \in {"on", "unsure"}
       \/ /\ IsBundled(p.id) /\ p.id[1] \in DefaultEnabled
          /\ wish[p.id] = "off" => "settings" \in lost
    /\ copy[p.from].is = "whole" \/ p.from \in cut

(* A plugin that was installed or updated stays, in the version that was   *)
(* reported, with its record and its switch, through any number of later   *)
(* sessions; a session that runs has loaded it unless another directory    *)
(* goes by its id.                                                         *)
AckedSurvives ==
  \A n \in Names : LET id == External(n) IN acked[id] # 0 =>
    /\ copy[id] = Whole(acked[id])
    /\ \/ id \in DOMAIN registry /\ registry[id] = acked[id]
       \/ "registry" \in lost
       \/ Does("store")
    /\ wish[id] = "on" /\ todo = <<>> /\ "settings" \notin lost =>
         /\ id \in DOMAIN settings /\ settings[id]
         /\ session = "up" => [id |-> id, from |-> id] \in loaded \/ Shadowed(id)

(* Whatever was cut short, the next start works and loads what the user    *)
(* asked for and was told of.                                              *)
PluginsInv == TypeOK /\ StartsAgain /\ LoadedIsWanted /\ AckedSurvives

=============================================================================
