---------------------------- MODULE SessionFiles ----------------------------
(***************************************************************************)
(* Session files of the interactive CLI (claw-cli/src/main.rs, LiveCli):   *)
(* every process keeps one session in memory and rewrites its file after   *)
(* each turn and each command that changes it.  save_to_path is fs::write: *)
(* it truncates, then writes.  Files are shared by all processes of a      *)
(* directory, without locks.  What a session says is abstracted to the     *)
(* turns it still covers and whether it was compacted.                     *)
(***************************************************************************)
EXTENDS Naturals, FiniteSets

CONSTANTS
  Procs,      \* processes that may run in one directory
  MaxTurns,   \* bound: turns ever taken
  MaxClock    \* bound: milliseconds, which are the ids of new sessions

ASSUME SessionFilesAssumption == Procs # {} /\ MaxTurns \in Nat /\ MaxClock \in Nat

VARIABLES
  clock,      \* milliseconds since the epoch
  turns,      \* turns taken so far, by anybody
  files,      \* [session id -> content of its file], partial
  at,         \* [process -> "off", "prompt", "save" (about to), "write" (truncated)]
  memory,     \* [process -> content of runtime.session()]
  active,     \* [process -> id of self.session]
  leaving,    \* [process -> it exits once saved]
  acked,      \* history: [id -> turns after which the prompt came back, since it was cleared]
  shared,     \* history: ids that two running processes had open at once
  damaged,    \* history: ids whose write was cut short
  writer      \* history: [id -> process that wrote it last]

vars == <<clock, turns, files, at, memory, active, leaving, acked, shared, damaged, writer>>

Ids == 0 .. MaxClock
Turns == 1 .. MaxTurns
Empty == [covered |-> {}, compacted |-> FALSE]
Torn == [torn |-> TRUE]               \* truncated: it does not parse
Contents == [covered : SUBSET Turns, compacted : BOOLEAN]
Running(p) == at[p] # "off"
Readable(i) == i \in DOMAIN files /\ files[i] # Torn

Init ==
  /\ clock = 0
  /\ turns = 0
  /\ files = <<>>
  /\ at = [p \in Procs |-> "off"]
  /\ memory = [p \in Procs |-> Empty]
  /\ active = [p \in Procs |-> 0]
  /\ leaving = [p \in Procs |-> FALSE]
  /\ acked = [i \in Ids |-> {}]
  /\ shared = {}
  /\ damaged = {}
  /\ writer = [i \in Ids |-> CHOOSE p \in Procs : TRUE]

-----------------------------------------------------------------------------
(* The process has session i with this content and goes on to save it.     *)
Hold(p, i, content, exits) ==
  /\ memory' = [memory EXCEPT ![p] = content]
  /\ active' = [active EXCEPT ![p] = i]
  /\ leaving' = [leaving EXCEPT ![p] = exits]
  /\ at' = [at EXCEPT ![p] = "save"]
  /\ shared' = IF \E q \in Procs \ {p} : Running(q) /\ active[q] = i
               THEN shared \cup {i} ELSE shared

(* Commands take longer than a millisecond: an id is drawn twice only by   *)
(* processes that run side by side.                                        *)
FreshId(p) ==
  clock \in DOMAIN files => \E q \in Procs \ {p} : Running(q) /\ active[q] = clock

Gone(p) ==
  /\ at' = [at EXCEPT ![p] = "off"]
  /\ memory' = [memory EXCEPT ![p] = Empty]

Start(p) ==
  /\ at[p] = "off"
  /\ FreshId(p)
  /\ Hold(p, clock, Empty, FALSE)
  /\ UNCHANGED <<clock, turns, files, acked, damaged, writer>>

Turn(p) ==
  /\ at[p] = "prompt" /\ turns < MaxTurns
  /\ turns' = turns + 1
  /\ Hold(p, active[p], [memory[p] EXCEPT !.covered = @ \cup {turns + 1}], FALSE)
  /\ UNCHANGED <<clock, files, acked, damaged, writer>>

(* run_turn returns the error, the loop passes it on, the process ends.    *)
TurnFails(p) ==
  /\ at[p] = "prompt"
  /\ Gone(p)
  /\ UNCHANGED <<clock, turns, files, active, leaving, acked, shared, damaged, writer>>

(* /model, /permissions, /plugins: a runtime of the same session, saved.   *)
Rebuild(p) ==
  /\ at[p] = "prompt"
  /\ Hold(p, active[p], memory[p], FALSE)
  /\ UNCHANGED <<clock, turns, files, acked, damaged, writer>>

Compact(p) ==
  /\ at[p] = "prompt"
  /\ Hold(p, active[p], [memory[p] EXCEPT !.compacted = TRUE], FALSE)
  /\ UNCHANGED <<clock, turns, files, acked, damaged, writer>>

(* /clear --confirm: a new session with a file of its own.                 *)
Clear(p) ==
  /\ at[p] = "prompt"
  /\ clock # active[p] /\ FreshId(p)
  /\ Hold(p, clock, Empty, FALSE)
  /\ UNCHANGED <<clock, turns, files, acked, damaged, writer>>

(* Slip: the handle is switched and the runtime kept. *)
SwitchHandleOnly(p, i) ==
  /\ at[p] = "prompt" /\ Readable(i)
  /\ Hold(p, i, memory[p], FALSE)
  /\ UNCHANGED <<clock, turns, files, acked, damaged, writer>>

(* /resume and /session switch: load first, and only then change both.     *)
Switch(p, i) ==
  /\ at[p] = "prompt" /\ Readable(i)
  /\ Hold(p, i, files[i], FALSE)
  /\ UNCHANGED <<clock, turns, files, acked, damaged, writer>>

(* A file that does not parse is an error, and errors end the loop.        *)
SwitchFails(p) ==
  /\ at[p] = "prompt"
  /\ \E i \in DOMAIN files : ~Readable(i)
  /\ Gone(p)
  /\ UNCHANGED <<clock, turns, files, active, leaving, acked, shared, damaged, writer>>

Exit(p) ==
  /\ at[p] = "prompt"
  /\ Hold(p, active[p], memory[p], TRUE)
  /\ UNCHANGED <<clock, turns, files, acked, damaged, writer>>

(* claw --resume FILE /compact, or /clear --confirm: load, rewrite, end.   *)
ResumeCompact(p, i) ==
  /\ at[p] = "off" /\ Readable(i)
  /\ Hold(p, i, [files[i] EXCEPT !.compacted = TRUE], TRUE)
  /\ UNCHANGED <<clock, turns, files, acked, damaged, writer>>

ResumeClear(p, i) ==
  /\ at[p] = "off" /\ Readable(i)
  /\ Hold(p, i, Empty, TRUE)
  /\ acked' = [acked EXCEPT ![i] = {}]
  /\ UNCHANGED <<clock, turns, files, damaged, writer>>

-----------------------------------------------------------------------------
(* persist_session: truncate, write, and back to the prompt.               *)
SetFile(i, content) ==
  files' = [j \in DOMAIN files \cup {i} |-> IF j = i THEN content ELSE files[j]]

(* Slip: the first session is written, whichever is active. *)
TruncateFirst(p) ==
  /\ at[p] = "save"
  /\ SetFile(0, Torn)
  /\ at' = [at EXCEPT ![p] = "write"]
  /\ writer' = [writer EXCEPT ![0] = p]
  /\ UNCHANGED <<clock, turns, memory, active, leaving, acked, shared, damaged>>

Truncate(p) ==
  /\ at[p] = "save"
  /\ SetFile(active[p], Torn)
  /\ at' = [at EXCEPT ![p] = "write"]
  /\ writer' = [writer EXCEPT ![active[p]] = p]
  /\ UNCHANGED <<clock, turns, memory, active, leaving, acked, shared, damaged>>

Write(p) ==
  /\ at[p] = "write"
  /\ SetFile(active[p], memory[p])
  /\ writer' = [writer EXCEPT ![active[p]] = p]
  /\ IF leaving[p]
     THEN Gone(p) /\ UNCHANGED acked
     ELSE /\ at' = [at EXCEPT ![p] = "prompt"]
          /\ acked' = [acked EXCEPT ![active[p]] = @ \cup memory[p].covered]
          /\ UNCHANGED memory
  /\ UNCHANGED <<clock, turns, active, leaving, shared, damaged>>

WriteFails(p) ==
  /\ at[p] = "write"
  /\ Gone(p)
  /\ damaged' = damaged \cup {active[p]}
  /\ UNCHANGED <<clock, turns, files, active, leaving, acked, shared, writer>>

(* The process is killed, in the middle of whatever it does.               *)
Crash(p) ==
  /\ Running(p)
  /\ Gone(p)
  /\ damaged' = IF at[p] = "write" THEN damaged \cup {active[p]} ELSE damaged
  /\ UNCHANGED <<clock, turns, files, active, leaving, acked, shared, writer>>

Tick ==
  /\ clock < MaxClock
  /\ clock' = clock + 1
  /\ UNCHANGED <<turns, files, at, memory, active, leaving, acked, shared, damaged, writer>>

-----------------------------------------------------------------------------
Command(p) ==
  \/ Start(p) \/ Turn(p) \/ TurnFails(p) \/ Rebuild(p) \/ Compact(p) \/ Clear(p)
  \/ SwitchFails(p) \/ Exit(p)
  \/ \E i \in Ids : Switch(p, i) \/ ResumeCompact(p, i) \/ ResumeClear(p, i)
Save(p) == Truncate(p) \/ Write(p) \/ WriteFails(p)

Next == Tick \/ \E p \in Procs : Command(p) \/ Save(p) \/ Crash(p)

Spec == Init /\ [][Next]_vars

-----------------------------------------------------------------------------
TypeOK ==
  /\ clock \in Ids
  /\ turns \in 0 .. MaxTurns
  /\ DOMAIN files \subseteq Ids
  /\ \A i \in DOMAIN files : files[i] \in Contents \cup {Torn}
  /\ at \in [Procs -> {"off", "prompt", "save", "write"}]
  /\ memory \in [Procs -> Contents]
  /\ active \in [Procs -> Ids]
  /\ leaving \in [Procs -> BOOLEAN]
  /\ acked \in [Ids -> SUBSET Turns]
  /\ shared \subseteq Ids
  /\ damaged \subseteq Ids
  /\ writer \in [Ids -> Procs]

(* Whenever the prompt is there, the file holds the session in memory,     *)
(* unless another process wrote that file: a crash at the prompt loses     *)
(* nothing, and no command leaves the file behind the memory.              *)
PromptInSync ==
  \A p \in Procs :
    at[p] = "prompt" =>
      active[p] \in DOMAIN files
        /\ (writer[active[p]] = p => files[active[p]] = memory[p])

(* A turn after which the prompt came back stays in the file of its        *)
(* session, through switches, clears, resumes and restarts, unless a write *)
(* of it was cut short or two processes had the session open at once.      *)
AckedTurnsSurvive ==
  \A i \in DOMAIN files :
    i \notin shared /\ Readable(i) => acked[i] \subseteq files[i].covered

(* An unreadable file is being written, or its write was cut short: no     *)
(* command leaves one behind.                                              *)
TornMeansCutShort ==
  \A i \in DOMAIN files :
    files[i] = Torn => i \in damaged \/ \E p \in Procs : at[p] = "write" /\ active[p] = i

(* A session that was closed stays what it is until a process opens it:    *)
(* working in one session never changes the file of another.               *)
OnlyOpenSessionsChange ==
  [][\A i \in DOMAIN files :
       (\A p \in Procs : ~(Running(p) /\ active[p] = i)) => files'[i] = files[i]]_vars

(* Turns that were saved survive every command, crash and torn write, and  *)
(* the prompt speaks of the session that is open.                          *)
SessionFilesInv == TypeOK /\ PromptInSync /\ AckedTurnsSurvive /\ TornMeansCutShort

=============================================================================
