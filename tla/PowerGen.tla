------------------------------ MODULE PowerGen ------------------------------
(***************************************************************************)
(* The presentation generator (powergen): a project moves from a plan to   *)
(* an approved spec to a rendered file.  A session, the interactive loop   *)
(* or one command, loads project.json when it starts, keeps it in memory,  *)
(* and writes all of it back after each step that changes it.              *)
(***************************************************************************)
EXTENDS Integers, Sequences

CONSTANTS
  Sessions,  \* sessions that may run at a time
  MaxPlans   \* bound: plans the model is asked for

ASSUME PowerGenAssumption == MaxPlans \in Nat

VARIABLES
  saved,     \* project.json: a project, or Garbled
  project,   \* [session -> its ProjectState]
  doing,     \* [session -> "off", "idle", "rendering", "saving", "writing"]
  slides,    \* the rendered file: the plan its spec was built from
  plans,     \* [plan version -> it has slides], a sequence of those drawn so far
  approved,  \* history: plans a spec was approved for
  mishap     \* history: a session was killed, a write failed, or two sessions ran at a time

genVars == <<saved, project, doing, slides, plans, approved, mishap>>

Order == [INIT |-> 0, PLANNED |-> 1, APPROVED |-> 2, RENDERED |-> 3]
New == [stage |-> "INIT", plan |-> 0, spec |-> 0, output |-> FALSE, revised |-> FALSE]
Garbled == [New EXCEPT !.stage = "torn"]

GenInit ==
  /\ saved = New /\ project = [s \in Sessions |-> New] /\ doing = [s \in Sessions |-> "off"]
  /\ slides = 0 /\ plans = <<>> /\ approved = {} /\ mishap = FALSE

(* ProjectState.load, before any command: a file that does not parse ends  *)
(* the session, whatever the command was.                                  *)
Load(s) ==
  /\ doing[s] = "off" /\ saved # Garbled
  /\ doing' = [doing EXCEPT ![s] = "idle"]
  /\ project' = [project EXCEPT ![s] = saved]
  /\ mishap' = (mishap \/ \E t \in Sessions : doing[t] # "off")
  /\ UNCHANGED <<saved, slides, plans, approved>>

Becomes(s, p) == project' = [project EXCEPT ![s] = p] /\ doing' = [doing EXCEPT ![s] = "saving"]

(* A plan comes from the model, with slides or without.                    *)
Draws(hasSlides) == Len(plans) < MaxPlans /\ plans' = Append(plans, hasSlides)

(* Slip: what was planned anew is approved still. *)
CreateKeepsStage(s) ==
  /\ doing[s] = "idle"
  /\ Draws(TRUE)
  /\ Becomes(s, [project[s] EXCEPT !.plan = Len(plans'), !.revised = FALSE,
                                   !.stage = IF @ = "INIT" THEN "PLANNED" ELSE @])
  /\ UNCHANGED <<saved, slides, approved, mishap>>

(* generate_plan, advance_to_planned: the spec of an earlier plan is kept. *)
Create(s) ==
  /\ doing[s] = "idle"
  /\ \/ /\ Draws(TRUE)
        /\ Becomes(s, [project[s] EXCEPT !.plan = Len(plans'), !.stage = "PLANNED", !.revised = FALSE])
     \/ Draws(FALSE) /\ UNCHANGED <<project, doing>>
  /\ UNCHANGED <<saved, slides, approved, mishap>>

(* revise_plan: another plan, with slides or without, at the same stage.   *)
Revise(s) ==
  /\ doing[s] = "idle" /\ project[s].plan # 0
  /\ \E hasSlides \in BOOLEAN : Draws(hasSlides)
  /\ Becomes(s, [project[s] EXCEPT !.plan = Len(plans'), !.revised = TRUE])
  /\ UNCHANGED <<saved, slides, approved, mishap>>

(* build_spec, advance_to_approved; without slides, or an answer that does *)
(* not parse, nothing changes.                                             *)
Approve(s) ==
  /\ doing[s] = "idle" /\ project[s].plan # 0
  /\ Order[project[s].stage] >= Order["PLANNED"]
  /\ approved' = approved \cup {project[s].plan}
  /\ Becomes(s, [project[s] EXCEPT !.spec = project[s].plan, !.stage = "APPROVED", !.revised = FALSE])
  /\ UNCHANGED <<saved, slides, plans, mishap>>

(* render_presentation writes the file of whatever spec there is;          *)
(* advance_to_rendered then asks for the stage.                            *)
Render(s) ==
  /\ doing[s] = "idle" /\ project[s].spec # 0
  /\ slides' = project[s].spec
  /\ doing' = [doing EXCEPT ![s] = "rendering"]
  /\ UNCHANGED <<saved, project, plans, approved, mishap>>

Rendered(s) ==
  /\ doing[s] = "rendering"
  /\ IF Order[project[s].stage] >= Order["APPROVED"]
     THEN Becomes(s, [project[s] EXCEPT !.stage = "RENDERED", !.output = TRUE])
     ELSE UNCHANGED project /\ doing' = [doing EXCEPT ![s] = "idle"]
  /\ UNCHANGED <<saved, slides, plans, approved, mishap>>

Reset(s) ==
  /\ doing[s] = "idle"
  /\ Becomes(s, New)
  /\ UNCHANGED <<saved, slides, plans, approved, mishap>>

-----------------------------------------------------------------------------
(* save: write_text truncates, then writes.                                *)
BeginSave(s) ==
  /\ doing[s] = "saving"
  /\ doing' = [doing EXCEPT ![s] = "writing"] /\ saved' = Garbled
  /\ UNCHANGED <<project, slides, plans, approved, mishap>>

Write(s) ==
  /\ doing[s] = "writing"
  /\ doing' = [doing EXCEPT ![s] = "idle"] /\ saved' = project[s]
  /\ UNCHANGED <<project, slides, plans, approved, mishap>>

SaveFails(s) ==
  /\ doing[s] \in {"saving", "writing"}
  /\ doing' = [doing EXCEPT ![s] = "idle"] /\ mishap' = TRUE
  /\ UNCHANGED <<saved, project, slides, plans, approved>>

Quit(s) ==
  /\ doing[s] # "off"
  /\ doing' = [doing EXCEPT ![s] = "off"]
  /\ project' = [project EXCEPT ![s] = New]
  /\ mishap' = (mishap \/ doing[s] # "idle")
  /\ UNCHANGED <<saved, slides, plans, approved>>

GenNext ==
  \E s \in Sessions :
    \/ Load(s) \/ Create(s) \/ Revise(s) \/ Approve(s) \/ Render(s) \/ Rendered(s) \/ Reset(s)
    \/ BeginSave(s) \/ Write(s) \/ SaveFails(s) \/ Quit(s)

GenSpec == GenInit /\ [][GenNext]_genVars

-----------------------------------------------------------------------------
GenTypeOK ==
  /\ doing \in [Sessions -> {"off", "idle", "rendering", "saving", "writing"}]
  /\ slides \in 0 .. MaxPlans
  /\ approved \subseteq 1 .. MaxPlans

(* What a stage says has been done: there is a plan, the spec of a plan    *)
(* that was approved, a file.  A spec at a stage that may be rendered is   *)
(* that of the plan, unless the plan was revised after it was approved.    *)
Coherent(p) ==
  /\ Order[p.stage] >= Order["PLANNED"] => p.plan # 0
  /\ Order[p.stage] >= Order["APPROVED"] => p.spec \in approved /\ (p.spec = p.plan \/ p.revised)
  /\ p.stage = "RENDERED" => p.output /\ slides # 0
StagesTellTheTruth ==
  /\ \A s \in Sessions : Coherent(project[s])
  /\ saved # Garbled => Coherent(saved)

(* No file is rendered of a spec that nobody approved, not even by the     *)
(* render that is refused after it wrote.                                  *)
OnlyApprovedIsRendered == slides # 0 => slides \in approved

(* Without a mishap, a session that waits has saved what it knows, and a   *)
(* project can be loaded.                                                  *)
SavedIsKnown ==
  ~mishap =>
    /\ \A s \in Sessions : doing[s] \in {"idle", "rendering"} => saved = project[s]
    /\ (\A s \in Sessions : doing[s] # "writing") => saved # Garbled

PowerGenInv == GenTypeOK /\ StagesTellTheTruth /\ OnlyApprovedIsRendered /\ SavedIsKnown

=============================================================================
