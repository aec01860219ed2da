----------------------------- MODULE Definitions -----------------------------
(***************************************************************************)
(* Skills and agents: what /skills and /agents list and which of them are  *)
(* shadowed (commands/src/lib.rs), and which file the Skill tool takes     *)
(* (tools/src/lib.rs).  The two look in different places.                  *)
(***************************************************************************)
EXTENDS Naturals, Sequences, SequencesExt, FiniteSets

CONSTANTS
  Parent,        \* the directories: directory -> its parent, the root its own
  Home,          \* the user's
  Names,         \* the spellings of names: spelling -> name
  Rank,          \* their order
  MaxDefinitions \* bound: definitions there are

ASSUME DefinitionsAssumption == Home \in DOMAIN Parent /\ DOMAIN Rank = DOMAIN Names /\ MaxDefinitions \in Nat

VARIABLES
  cwd,         \* the working directory
  codexHome,   \* whether CODEX_HOME is set
  definitions  \* the definitions: where, under which entry, with which declared name

definitionVars == <<cwd, codexHome, definitions>>

RECURSIVE Ancestors(_)
Ancestors(d) == IF Parent[d] = d THEN <<d>> ELSE <<d>> \o Ancestors(Parent[d])

Root(place, leaf) == <<place, leaf>>
Leaves == {"codex/skills", "claw/skills", "codex/commands", "claw/commands", "codex/agents", "claw/agents"}
CustomHome == "codex home"
Roots == {Root(d, leaf) : d \in DOMAIN Parent, leaf \in Leaves} \cup
         {Root(CustomHome, leaf) : leaf \in {"codex/skills", "codex/commands", "codex/agents"}} \cup
         {Root(Home, "agents/skills")}

DefinitionsInit == cwd \in DOMAIN Parent /\ codexHome \in BOOLEAN /\ definitions = {}

Define ==
  /\ Cardinality(definitions) < MaxDefinitions
  /\ \E r \in Roots, e, n \in DOMAIN Names :
       /\ ~\E d \in definitions : d.root = r /\ d.entry = e
       /\ definitions' = definitions \cup {[root |-> r, entry |-> e, name |-> n]}
  /\ UNCHANGED <<cwd, codexHome>>

Discard ==
  /\ \E d \in definitions : definitions' = definitions \ {d}
  /\ UNCHANGED <<cwd, codexHome>>

-----------------------------------------------------------------------------
(* discover_skill_roots and discover_definition_roots: the project first,  *)
(* from the working directory upwards, then the user.                      *)
LeavesOf(kind) == IF kind = "skills" THEN <<"codex/skills", "claw/skills", "codex/commands", "claw/commands">>
                  ELSE <<"codex/agents", "claw/agents">>
UserLeavesOf(kind) == IF kind = "skills" THEN <<"codex/skills", "codex/commands", "claw/skills", "claw/commands">>
                      ELSE <<"codex/agents", "claw/agents">>
RootsAt(place, leaves) == [k \in DOMAIN leaves |-> Root(place, leaves[k])]
AllRoots(kind) ==
  FlattenSeq([k \in DOMAIN Ancestors(cwd) |-> RootsAt(Ancestors(cwd)[k], LeavesOf(kind))])
    \o (IF codexHome THEN SelectSeq(RootsAt(CustomHome, UserLeavesOf(kind)), LAMBDA r : r \in Roots) ELSE <<>>)
    \o RootsAt(Home, UserLeavesOf(kind))

(* push_unique_skill_root: a directory of the user that is above the       *)
(* working directory is a directory of the project.                        *)
(* Slip: it is not compared with those that are there. *)
PushAll(kind) == SelectSeq(AllRoots(kind), LAMBDA r : \E d \in definitions : d.root = r)
PushUnique(kind) ==
  FoldLeft(LAMBDA roots, r : IF \E k \in DOMAIN roots : roots[k] = r THEN roots ELSE Append(roots, r),
           <<>>, SelectSeq(AllRoots(kind), LAMBDA r : \E d \in definitions : d.root = r))

(* load_skills_from_roots: a root's definitions by name, the first of a    *)
(* name, whatever its case, is the active one.                             *)
Earlier(a, b) == Rank[a.name] < Rank[b.name] \/ (a.name = b.name /\ Rank[a.entry] <= Rank[b.entry])
Loaded(kind) ==
  FlattenSeq([k \in DOMAIN PushUnique(kind) |->
                SetToSortSeq({d \in definitions : d.root = PushUnique(kind)[k]}, Earlier)])
Shadowed(list, k) == \E j \in 1 .. k - 1 : Names[list[j].name] = Names[list[k].name]

(* resolve_skill_path goes by the names of directories; two more places    *)
(* that it alone looks at are left out.                                    *)
Candidates ==
  (IF codexHome THEN <<Root(CustomHome, "codex/skills")>> ELSE <<>>)
    \o <<Root(Home, "agents/skills"), Root(Home, "codex/skills")>>
Matching(root, requested) ==
  LET exact == {d \in definitions : d.root = root /\ d.entry = requested}
  IN  IF exact # {} THEN exact
      ELSE {d \in definitions : d.root = root /\ Names[d.entry] = Names[requested]}
ResolveSkillPath(requested) ==
  LET hits == SelectSeq(Candidates, LAMBDA r : Matching(r, requested) # {})
  IN  IF hits = <<>> THEN {} ELSE Matching(hits[1], requested)

DefinitionsNext == Define \/ Discard
DefinitionsSpec == DefinitionsInit /\ [][DefinitionsNext]_definitionVars

-----------------------------------------------------------------------------
(* Every definition that applies is listed once, also when the working     *)
(* directory is in the user's, and each name has one active definition:    *)
(* none of its name is nearer the working directory.                       *)
Distance(place) == CHOOSE k \in DOMAIN Ancestors(cwd) : Ancestors(cwd)[k] = place
InProject(d) == d.root[1] # CustomHome /\ \E k \in DOMAIN Ancestors(cwd) : Ancestors(cwd)[k] = d.root[1]
ListedOnce ==
  \A kind \in {"skills", "agents"} :
    LET list == Loaded(kind)
    IN  /\ \A j, k \in DOMAIN list : list[j] = list[k] => j = k
        /\ \A d \in definitions :
             (\E k \in DOMAIN AllRoots(kind) : AllRoots(kind)[k] = d.root) <=> (\E k \in DOMAIN list : list[k] = d)
        /\ \A j, k \in DOMAIN list :
             /\ ~Shadowed(list, j) /\ Names[list[j].name] = Names[list[k].name] /\ InProject(list[k])
             => InProject(list[j]) /\ Distance(list[j].root[1]) <= Distance(list[k].root[1])

(* What the Skill tool takes of a name is the active skill of that name    *)
(* when no entry is named for another skill, the project has no            *)
(* definitions of its own, and nothing is where only the tool looks.       *)
ToolTakesTheActive ==
  (/\ \A d \in definitions : d.entry = d.name /\ d.root[2] = "codex/skills" /\ ~InProject(d)) =>
    LET list == Loaded("skills")
    IN  \A k \in DOMAIN list :
          ~Shadowed(list, k) => ResolveSkillPath(list[k].name) = {list[k]}

DefinitionsInv == ListedOnce /\ ToolTakesTheActive

=============================================================================
