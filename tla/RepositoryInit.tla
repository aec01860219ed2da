---------------------------- MODULE RepositoryInit ----------------------------
(***************************************************************************)
(* claw init and /init (claw-cli/src/init.rs): .claw.json, .gitignore and  *)
(* CLAW.md are made in the working directory, or left as they are.  Each   *)
(* file is looked at and then written, and a write truncates it first; the *)
(* process may end in between, and the user may edit what it works on.     *)
(***************************************************************************)
EXTENDS Naturals, SequencesExt

CONSTANTS
  MaxUserEdits,  \* bound: edits of the user
  Markers        \* bound: the markers of a stack the repository may have

ASSUME RepositoryAssumption == MaxUserEdits \in Nat

VARIABLES
  working,    \* where an init is: "rest", "look" or "write", and of which file
  made,       \* [file -> "absent", "torn", "ours", "user"]
  lines,      \* lines of .gitignore, when it is there
  toWrite,    \* what is about to be written to it
  guidance,   \* what CLAW.md says, when it is ours
  userEdits,  \* edits of the user so far
  cut,        \* history: files an init was writing when it ended
  theirs,     \* history: files the user wrote
  raced,      \* history: of these, those an init was about to write
  edited      \* history: files the user wrote since an init last saw to them

repoVars == <<working, made, lines, toWrite, guidance, userEdits, cut, theirs, raced, edited>>

(* GITIGNORE_COMMENT, GITIGNORE_ENTRIES.                                   *)
Entries == <<"comment", "settings.local.json", "sessions">>
FileOrder == <<".claw.json", ".gitignore", "CLAW.md">>
InitFiles == ToSet(FileOrder)
NotRunning == [at |-> "rest", file |-> 0]

RepositoryInit ==
  /\ working = NotRunning
  /\ made = [f \in InitFiles |-> "absent"] /\ lines = <<>> /\ toWrite = <<>>
  /\ guidance = {}
  /\ userEdits = 0 /\ cut = {} /\ theirs = {} /\ raced = {} /\ edited = {}

WorkedOn == FileOrder[working.file]
Look(k) == IF k > Len(FileOrder) THEN [at |-> "done", file |-> 0] ELSE [at |-> "look", file |-> k]

(* initialize_repo; ensure_dir has nothing to lose.                        *)
Begin ==
  /\ working.at \in {"rest", "done"} /\ working' = Look(1)
  /\ UNCHANGED <<made, lines, toWrite, guidance, userEdits, cut, theirs, raced, edited>>

-----------------------------------------------------------------------------
(* render_init_claw_md: the languages and what is said of each.            *)
Languages(m) ==
  {l \in {"Rust", "Python", "TypeScript", "JavaScript"} :
     CASE l = "Rust"       -> {"Cargo.toml", "rust/Cargo.toml"} \cap m # {}
       [] l = "Python"     -> {"pyproject.toml", "requirements.txt", "setup.py"} \cap m # {}
       [] l = "TypeScript" -> {"tsconfig.json", "typescript"} \cap m # {}
       [] OTHER            -> "package.json" \in m /\ {"tsconfig.json", "typescript"} \cap m = {}}
Checks(m) ==
  {c \in {"cargo in rust", "cargo", "pyproject", "python", "npm"} :
     CASE c = "cargo in rust" -> "rust/Cargo.toml" \in m
       [] c = "cargo"         -> "Cargo.toml" \in m /\ "rust/Cargo.toml" \notin m
       [] c = "pyproject"     -> "pyproject.toml" \in m
       [] c = "python"        -> "Python" \in Languages(m) /\ "pyproject.toml" \notin m
       [] OTHER               -> "package.json" \in m}
Frameworks == {"Next.js", "React", "Vite", "NestJS"}
Notes(m) == {n \in Frameworks : n \in m /\ (n = "React" => "Next.js" \notin m)}
RenderInitClawMd(m) == Languages(m) \cup Checks(m) \cup Notes(m)

(* What package.json says counts while it is there.                        *)
DetectRepo(m) == IF "package.json" \in m THEN m ELSE m \ (Frameworks \cup {"typescript"})

(* Slip: the file is written over what it holds. *)
MergedAnew == Entries

(* ensure_gitignore_entries: what is missing is appended in order.         *)
With(ls, e) == IF e \in ToSet(ls) THEN ls ELSE Append(ls, e)
Merged ==
  With(With(With(IF made[".gitignore"] = "absent" THEN <<>> ELSE lines, Entries[1]), Entries[2]), Entries[3])

(* Slip: what is there is written as if it were not. *)
LookCarelessly ==
  /\ working.at = "look"
  /\ working' = [working EXCEPT !.at = "write"] /\ toWrite' = Merged /\ edited' = edited \ {WorkedOn}
  /\ UNCHANGED <<made, lines, guidance, userEdits, cut, theirs, raced>>

(* Slip: a .gitignore that is there is left as it is. *)
LookForNone ==
  /\ working.at = "look"
  /\ IF made[WorkedOn] = "absent"
     THEN working' = [working EXCEPT !.at = "write"] /\ toWrite' = Merged
     ELSE working' = Look(working.file + 1) /\ UNCHANGED toWrite
  /\ edited' = edited \ {WorkedOn}
  /\ UNCHANGED <<made, lines, guidance, userEdits, cut, theirs, raced>>

(* write_file_if_missing, and the same of .gitignore when it has it all.   *)
LookAtFile ==
  /\ working.at = "look"
  /\ IF made[WorkedOn] = "absent" \/ (WorkedOn = ".gitignore" /\ Merged # lines)
     THEN /\ working' = [working EXCEPT !.at = "write"]
          /\ toWrite' = IF WorkedOn = ".gitignore" THEN Merged ELSE toWrite
     ELSE working' = Look(working.file + 1) /\ UNCHANGED toWrite
  /\ edited' = edited \ {WorkedOn}
  /\ UNCHANGED <<made, lines, guidance, userEdits, cut, theirs, raced>>

(* fs::write, which truncates and then writes.                             *)
TruncateFile ==
  /\ working.at = "write"
  /\ working' = [working EXCEPT !.at = "writing"]
  /\ made' = [made EXCEPT ![WorkedOn] = "torn"]
  /\ lines' = IF WorkedOn = ".gitignore" THEN <<>> ELSE lines
  /\ UNCHANGED <<toWrite, guidance, userEdits, cut, theirs, raced, edited>>

WriteFile ==
  /\ working.at = "writing"
  /\ made' = [made EXCEPT ![WorkedOn] = "ours"]
  /\ lines' = IF WorkedOn = ".gitignore" THEN toWrite ELSE lines
  /\ IF WorkedOn = "CLAW.md"
     THEN \E markers \in SUBSET Markers : guidance' = RenderInitClawMd(DetectRepo(markers))
     ELSE UNCHANGED guidance
  /\ working' = Look(working.file + 1) /\ edited' = edited \ {WorkedOn}
  /\ UNCHANGED <<toWrite, userEdits, cut, theirs, raced>>

(* An error of the disk, or the end of the process.                        *)
InitEnds ==
  /\ working.at \in {"look", "write", "writing"}
  /\ working' = NotRunning
  /\ cut' = IF working.at = "writing" THEN cut \cup {WorkedOn} ELSE cut
  /\ UNCHANGED <<made, lines, toWrite, guidance, userEdits, theirs, raced, edited>>

-----------------------------------------------------------------------------
(* External: the user writes a file of their own, or a .gitignore with a   *)
(* line of theirs after any of the entries.                                *)
Arrangements ==
  UNION {{s \in [1 .. n -> ToSet(Entries)] : IsInjective(s)} : n \in 0 .. Len(Entries)}

UserWrites ==
  /\ userEdits < MaxUserEdits /\ userEdits' = userEdits + 1
  /\ \E f \in InitFiles :
       /\ made' = [made EXCEPT ![f] = "user"]
       /\ IF f = ".gitignore"
          THEN lines' \in {Append(kept, "user") : kept \in Arrangements}
          ELSE UNCHANGED lines
       /\ cut' = cut \ {f} /\ theirs' = theirs \cup {f} /\ edited' = edited \cup {f}
       /\ raced' = IF working.at \in {"write", "writing"} /\ f = WorkedOn THEN raced \cup {f} ELSE raced \ {f}
  /\ UNCHANGED <<working, toWrite, guidance>>

RepositoryNext ==
  Begin \/ LookAtFile \/ TruncateFile \/ WriteFile \/ InitEnds \/ UserWrites

RepositorySpec == RepositoryInit /\ [][RepositoryNext]_repoVars

-----------------------------------------------------------------------------
(* What the user wrote is never overwritten, however often an init runs or *)
(* dies, unless they edited the very file it was about to write; a line of *)
(* theirs in .gitignore is lost only by an init that ends as it writes.    *)
WhatIsTheirsStays ==
  \A f \in theirs \ raced :
    IF f # ".gitignore" THEN made[f] = "user"
    ELSE "user" \in ToSet(lines) \/ f \in cut \/ (working.at = "writing" /\ WorkedOn = f)

(* An init that is done has made each file or found it; only a file that   *)
(* an init was writing when it ended is torn and found all the same.       *)
DoneMeansReady ==
  working.at = "done" => \A f \in InitFiles : made[f] # "absent" /\ (made[f] = "torn" => f \in cut)

(* Once an init is done git ignores what claw keeps for itself, whatever   *)
(* .gitignore was before, torn by an earlier init or the user's own, until *)
(* the user writes another; however often init runs, no line is doubled.   *)
WhatIsOursIsIgnored ==
  /\ working.at = "done" => ".gitignore" \in edited \/ ToSet(Entries) \subseteq ToSet(lines)
  /\ \A j, k \in DOMAIN lines : lines[j] = lines[k] => j = k

(* A CLAW.md of ours has for each language a way to check it, but for a    *)
(* TypeScript that only its own configuration tells of.                    *)
EveryLanguageIsChecked ==
  /\ "Rust" \in guidance => {"cargo", "cargo in rust"} \cap guidance # {}
  /\ "Python" \in guidance => {"python", "pyproject"} \cap guidance # {}
  /\ (Frameworks \cup {"JavaScript"}) \cap guidance # {} => "npm" \in guidance

(* However often claw init runs or is cut short: it loses nothing of the   *)
(* user, what it calls done is there, and what it advises can be followed. *)
RepositoryInv == WhatIsTheirsStays /\ DoneMeansReady /\ WhatIsOursIsIgnored /\ EveryLanguageIsChecked

=============================================================================
