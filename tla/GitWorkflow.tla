----------------------------- MODULE GitWorkflow -----------------------------
(***************************************************************************)
(* The git commands: /branch, /worktree and /commit-push-pr of the         *)
(* commands crate, and /commit of the terminal.  Every one is a series of  *)
(* processes, any of which may fail and end the command where it stands,   *)
(* while the user goes on editing.                                         *)
(***************************************************************************)
EXTENDS Naturals, FiniteSets

CONSTANTS
  Trunks,       \* names the default branch of the remote may have
  Names,        \* names other branches are given
  LastSegment,  \* what is left of a trunk's name after its last "/"
  Tags,         \* names of tags, all at the first commit
  Slugs,        \* those build_branch_name may come to
  MaxEdits      \* bound: edits made in all

ASSUME GitWorkflowAssumption ==
  /\ Slugs \subseteq Names /\ "none" \notin Names \cup Trunks
  /\ DOMAIN LastSegment = Trunks /\ MaxEdits \in Nat

VARIABLES
  origin,     \* the default branch of the remote, and the one refs/remotes/origin/HEAD says it is
  edits,      \* the edits made so far, numbered
  work,       \* those that are not staged
  staged,     \* those in the index
  head,       \* the branch checked out here
  elsewhere,  \* branches checked out in other worktrees
  branches,   \* local branches: branch -> edits committed
  remote,     \* pushed branches: branch -> edits
  prs,        \* pull requests: branch -> "open", "closed"
  command,    \* what runs: its step and what it remembers
  result      \* how the last command ended

gitVars == <<origin, edits, work, staged, head, elsewhere, branches, remote, prs, command, result>>
repository == <<origin, edits, work, staged, head, elsewhere, branches, remote, prs>>

Idle == [step |-> "idle"]
Put(f, key, value) == [k \in DOMAIN f \cup {key} |-> IF k = key THEN value ELSE f[k]]
Dirty == work \cup staged # {}

(* What is recorded was so when the repository was cloned, if it was.      *)
GitInit ==
  /\ origin \in [trunk : Trunks, recorded : Trunks \cup {"none"}]
  /\ edits = 0 /\ work = {} /\ staged = {}
  /\ head = origin.trunk /\ elsewhere = {}
  /\ branches = [b \in {origin.trunk} |-> {}] /\ remote = branches /\ prs = [b \in {} |-> "open"]
  /\ command = Idle /\ result = "none"

-----------------------------------------------------------------------------
(* The user, and the people who merge.                                     *)
Edit ==
  /\ edits < MaxEdits
  /\ edits' = edits + 1 /\ work' = work \cup {edits + 1}
  /\ UNCHANGED <<origin, staged, head, elsewhere, branches, remote, prs, command, result>>

Close(b) ==
  /\ b \in DOMAIN prs /\ prs' = [prs EXCEPT ![b] = "closed"]
  /\ UNCHANGED <<origin, edits, work, staged, head, elsewhere, branches, remote, command, result>>

-----------------------------------------------------------------------------
(* detect_default_branch: the last part of what is recorded, or a branch   *)
(* main or master, or the one that is checked out.                         *)
Recorded == origin.recorded # "none"
ByName ==
  IF "main" \in DOMAIN branches THEN "main"
  ELSE IF "master" \in DOMAIN branches THEN "master" ELSE head
(* Slip: what is recorded counts only where neither name is taken. *)
NamesBeforeRecord ==
  IF Recorded /\ {"main", "master"} \cap DOMAIN branches = {} THEN LastSegment[origin.recorded] ELSE ByName
DefaultBranch == IF Recorded THEN LastSegment[origin.recorded] ELSE ByName

(* History: whether that is the trunk.  A record has to be up to date and  *)
(* its name without a "/"; a name has to be the one the trunk has.         *)
TrunkIsTold ==
  IF Recorded THEN origin.recorded = origin.trunk /\ LastSegment[origin.trunk] = origin.trunk
  ELSE \/ origin.trunk = "main"
       \/ "main" \notin DOMAIN branches /\ (origin.trunk = "master" \/ ("master" \notin DOMAIN branches /\ head = origin.trunk))

(* Steps.  Asks is the snapshot a command is judged by.                    *)
Asks == [asked |-> edits, trunk |-> branches[origin.trunk], mine |-> branches[head], told |-> TrunkIsTold]
Begin(step, name, message) ==
  /\ command = Idle
  /\ command' = [step |-> step, name |-> name, message |-> message, base |-> "none", at |-> Asks, summary |-> {}]
  /\ result' = "running"
  /\ UNCHANGED repository
At(step) == command.step = step
Go(step) == command' = [command EXCEPT !.step = step] /\ UNCHANGED result
Ends(how) == command' = [command EXCEPT !.step = "idle"] /\ result' = how

(* A command that is over is forgotten when the next begins.               *)
Forget == At("idle") /\ command # Idle /\ command' = Idle /\ result' = "none" /\ UNCHANGED repository

(* Any process may fail: its error ends the command.                       *)
Fails == ~At("idle") /\ Ends("error") /\ UNCHANGED repository

(* git switch -c and git switch; uncommitted work comes along.             *)
Creates(b) == b \notin DOMAIN branches /\ branches' = Put(branches, b, branches[head]) /\ head' = b
Switches(b) == b \in DOMAIN branches /\ b \notin elsewhere /\ head' = b /\ UNCHANGED branches

BranchCommand(b) ==
  /\ command = Idle
  /\ \/ Creates(b)
     \/ Switches(b)
  /\ UNCHANGED <<origin, edits, work, staged, elsewhere, remote, prs, command, result>>

WorktreeAdd(b) ==
  /\ command = Idle /\ b \notin elsewhere \cup {head}
  /\ branches' = IF b \in DOMAIN branches THEN branches ELSE Put(branches, b, branches[head])
  /\ elsewhere' = elsewhere \cup {b}
  /\ UNCHANGED <<origin, edits, work, staged, head, remote, prs, command, result>>

WorktreeRemove ==
  /\ command = Idle /\ \E b \in elsewhere : elsewhere' = elsewhere \ {b}
  /\ UNCHANGED <<origin, edits, work, staged, head, branches, remote, prs, command, result>>

(* git add -A, git commit.                                                 *)
AddAll == staged' = staged \cup work /\ work' = {}
CommitIndex == branches' = [branches EXCEPT ![head] = @ \cup staged] /\ staged' = {}

-----------------------------------------------------------------------------
(* /commit of the terminal: the message is written from what is staged.    *)
StartCommit == Begin("commit.status", "none", "none")

CommitStatus ==
  /\ At("commit.status")
  /\ IF Dirty THEN Go("commit.add") ELSE Ends("skipped")
  /\ UNCHANGED repository

CommitAdd ==
  /\ At("commit.add") /\ AddAll
  /\ command' = [command EXCEPT !.step = "commit.message", !.summary = staged \cup work] /\ UNCHANGED result
  /\ UNCHANGED <<origin, edits, head, elsewhere, branches, remote, prs>>

(* run_internal_prompt_text: an empty message is refused (Fails).          *)
CommitMessage == At("commit.message") /\ Go("commit.commit") /\ UNCHANGED repository

CommitCommit ==
  /\ At("commit.commit") /\ CommitIndex /\ Ends("committed")
  /\ UNCHANGED <<origin, edits, work, head, elsewhere, remote, prs>>

-----------------------------------------------------------------------------
(* /commit-push-pr.                                                        *)
StartPublish(name, message) == Begin("publish.branch", name, message)

(* Slip: the branch is switched only when the name is new.                 *)
StaysOnTrunk ==
  /\ At("publish.branch")
  /\ IF head = DefaultBranch /\ command.name \notin DOMAIN branches THEN Creates(command.name) ELSE UNCHANGED <<branches, head>>
  /\ command' = [command EXCEPT !.step = "publish.status", !.base = DefaultBranch] /\ UNCHANGED result
  /\ UNCHANGED <<origin, edits, work, staged, elsewhere, remote, prs>>
PublishBranch ==
  /\ At("publish.branch")
  /\ IF head = DefaultBranch THEN Creates(command.name) ELSE UNCHANGED <<branches, head>>
  /\ command' = [command EXCEPT !.step = "publish.status", !.base = DefaultBranch] /\ UNCHANGED result
  /\ UNCHANGED <<origin, edits, work, staged, elsewhere, remote, prs>>

PublishStatus ==
  /\ At("publish.status")
  /\ IF ~Dirty THEN Go("publish.diff")
     ELSE IF command.message = "none" THEN Ends("error") ELSE Go("publish.add")
  /\ UNCHANGED repository

PublishAdd ==
  /\ At("publish.add") /\ AddAll /\ Go("publish.commit")
  /\ UNCHANGED <<origin, edits, head, elsewhere, branches, remote, prs>>

PublishCommit ==
  /\ At("publish.commit") /\ CommitIndex /\ Go("publish.diff")
  /\ UNCHANGED <<origin, edits, work, head, elsewhere, remote, prs>>

(* git diff <base>...HEAD: a tag goes before a branch of its name, and a   *)
(* base that is neither is an error.                                       *)
Resolves(b) == b \in Tags \cup DOMAIN branches
EditsOf(b) == IF b \in Tags THEN {} ELSE branches[b]
PublishDiff ==
  /\ At("publish.diff")
  /\ IF ~Resolves(command.base) THEN Ends("error")
     ELSE IF branches[head] \subseteq EditsOf(command.base) THEN Ends("skipped") ELSE Go("publish.push")
  /\ UNCHANGED repository

PublishPush ==
  /\ At("publish.push") /\ remote' = Put(remote, head, branches[head]) /\ Go("publish.create")
  /\ UNCHANGED <<origin, edits, work, staged, head, elsewhere, branches, prs>>

(* gh pr create fails when a request is open, or the remote has no branch  *)
(* of the base's name; then gh pr view looks for one, whatever its state.  *)
PublishCreate ==
  /\ At("publish.create") /\ command.base \in DOMAIN remote \ {head} /\ ~(head \in DOMAIN prs /\ prs[head] = "open")
  /\ prs' = Put(prs, head, "open") /\ Ends("created")
  /\ UNCHANGED <<origin, edits, work, staged, head, elsewhere, branches, remote>>
PublishCreateFails == At("publish.create") /\ Go("publish.view") /\ UNCHANGED repository
PublishView ==
  /\ At("publish.view")
  /\ Ends(IF head \in DOMAIN prs THEN "existing" ELSE "error")
  /\ UNCHANGED repository

GitNext ==
  \/ Edit \/ (\E b \in Names : Close(b)) \/ Forget \/ Fails
  \/ (\E b \in Names \cup {origin.trunk} : BranchCommand(b) \/ WorktreeAdd(b)) \/ WorktreeRemove
  \/ StartCommit \/ CommitStatus \/ CommitAdd \/ CommitMessage \/ CommitCommit
  \/ (\E b \in Slugs, message \in {"none", "some"} : StartPublish(b, message))
  \/ PublishBranch \/ PublishStatus \/ PublishAdd \/ PublishCommit \/ PublishDiff
  \/ PublishPush \/ PublishCreate \/ PublishCreateFails \/ PublishView

GitSpec == GitInit /\ [][GitNext]_gitVars

-----------------------------------------------------------------------------
(* The edits that were there when the command that is over began.          *)
Asked == 1 .. command.at.asked

(* A request that is reported shows everything the user had when asking:   *)
(* committed, pushed, and under a request of the branch; one reported as   *)
(* created is open.  An earlier failure at any step changes nothing of it. *)
ReportedMeansPublished ==
  command # Idle /\ result \in {"created", "existing"} =>
    /\ (branches[head] \cup work \cup staged) \cap Asked \subseteq remote[head]
    /\ head \in DOMAIN prs
    /\ work \cap Asked = {} /\ staged = {}

(* A skip means there was nothing to commit, and the branch has nothing    *)
(* that what is taken for the default branch has not.                      *)
SkippedMeansNothing ==
  command # Idle /\ result = "skipped" /\ command.base # "none" =>
    branches[head] \subseteq EditsOf(command.base) /\ (work \cup staged) \cap Asked = {}

(* Publishing never commits to the branch it means to merge into, and that *)
(* one is the trunk, which keeps what it has, wherever the repository says *)
(* which one the trunk is.                                                 *)
TrunkIsLeftAlone ==
  command # Idle /\ command.base # "none" =>
    /\ head # command.base
    /\ command.at.told =>
         command.base = origin.trunk /\ head # origin.trunk /\ branches[origin.trunk] = command.at.trunk

(* What the test of the command shows of main, for any trunk a clone has   *)
(* recorded: publishing commits to a branch of its own, and the trunk stays*)
(* as it was.  Broken for a trunk with a "/" in its name, where nobody is  *)
(* taken off the trunk (detect_default_branch).                            *)
PublishingLeavesTheTrunk ==
  command # Idle /\ command.base # "none" /\ origin.recorded = origin.trunk =>
    branches[origin.trunk] = command.at.trunk

(* A commit adds the edits its message was written about, and no others.   *)
CommitIsSummarised ==
  command # Idle /\ result = "committed" =>
    branches[head] = command.at.mine \cup command.summary /\ Asked \cap (work \cup staged) = {}

(* No edit is ever lost, whatever failed.                                  *)
NothingIsLost == 1 .. edits = work \cup staged \cup UNION {branches[b] : b \in DOMAIN branches}

GitInv ==
  /\ head \in DOMAIN branches /\ head \notin elsewhere /\ elsewhere \subseteq DOMAIN branches
  /\ DOMAIN prs \subseteq DOMAIN remote /\ \A b \in DOMAIN remote : remote[b] \subseteq branches[b]
  /\ ReportedMeansPublished /\ SkippedMeansNothing /\ TrunkIsLeftAlone /\ CommitIsSummarised /\ NothingIsLost

=============================================================================
