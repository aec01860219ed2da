--------------------------- MODULE TerminalProofs ---------------------------
(***************************************************************************)
(* Theorems about what a user has at the terminal: SessionFiles, for any   *)
(* processes and any number of turns and sessions, ProgressReporter, for   *)
(* turns of any length, GitWorkflow, for any names and edits, LineEditor,  *)
(* for texts of any length and any keys, and the commands of CommandLine,  *)
(* for any command line.                                                   *)
(***************************************************************************)
EXTENDS SessionFiles, ProgressReporter, GitWorkflow, LineEditor, CommandLine, FiniteSetTheorems, SequenceTheorems,
        WellFoundedInduction, TLAPS

(* Two processes that have one session open are known to share it.         *)
SharingIsKnown ==
  \A p, q \in Procs :
    p # q /\ Running(p) /\ Running(q) /\ active[p] = active[q] => active[p] \in shared

(* A process that has a session to itself holds every turn of it that was  *)
(* acknowledged, whatever becomes of the file; without a file there is     *)
(* none.                                                                   *)
MemoryHasAcked ==
  \A p \in Procs : Running(p) /\ active[p] \notin shared => acked[active[p]] \subseteq memory[p].covered
NoFileNothingAcked ==
  \A i \in Ids : i \notin DOMAIN files => acked[i] = {}

IInv ==
  /\ TypeOK
  /\ PromptInSync
  /\ SharingIsKnown /\ MemoryHasAcked /\ NoFileNothingAcked /\ AckedTurnsSurvive
  /\ TornMeansCutShort

-----------------------------------------------------------------------------
(* A file that was truncated is no session.                                *)
LEMMA TornIsNoContent == Torn \notin Contents
<1>1. DOMAIN Torn = {"torn"}
  BY DEF Torn
<1>2. \A c \in Contents : "covered" \in DOMAIN c
  BY DEF Contents
<1> QED
  BY <1>1, <1>2

LEMMA ContentsAreTyped ==
  /\ Empty \in Contents /\ Empty.covered = {}
  /\ \A c \in Contents : /\ [c EXCEPT !.compacted = TRUE] \in Contents
                         /\ [c EXCEPT !.compacted = TRUE].covered = c.covered
BY DEF Contents, Empty

LEMMA ReadableIsTyped ==
  ASSUME TypeOK, NEW i, Readable(i)
  PROVE  i \in DOMAIN files /\ files[i] \in Contents /\ files[i].covered \in SUBSET Turns
BY DEF TypeOK, Readable, Contents

LEMMA IInvInit == Init => IInv
<1> SUFFICES ASSUME Init
             PROVE  IInv
  OBVIOUS
<1>1. DOMAIN files = {} /\ \A p \in Procs : ~Running(p)
  BY DEF Init, Running
<1>2. (CHOOSE p \in Procs : TRUE) \in Procs
  BY SessionFilesAssumption
<1>3. TypeOK
  BY <1>1, <1>2, ContentsAreTyped, SessionFilesAssumption DEF Init, TypeOK, Ids
<1> QED
  BY <1>1, <1>3 DEF Init, IInv, PromptInSync, SharingIsKnown, MemoryHasAcked, NoFileNothingAcked,
                    AckedTurnsSurvive, TornMeansCutShort, Running

-----------------------------------------------------------------------------
(* The commands leave the files alone: they put a session into the memory  *)
(* of the process, which has every turn of it that was acknowledged.       *)
LEMMA HoldStep ==
  ASSUME IInv, NEW p \in Procs, at[p] \in {"off", "prompt"},
         NEW i \in Ids, NEW content \in Contents, NEW exits \in BOOLEAN, Hold(p, i, content, exits),
         UNCHANGED <<clock, files, damaged, writer>>, turns' \in 0 .. MaxTurns,
         acked' \in {acked, [acked EXCEPT ![i] = {}]},
         i \notin shared' => acked'[i] \subseteq content.covered
  PROVE  IInv'
<1>1. /\ at' = [at EXCEPT ![p] = "save"] /\ memory' = [memory EXCEPT ![p] = content]
      /\ active' = [active EXCEPT ![p] = i] /\ leaving' = [leaving EXCEPT ![p] = exits]
      /\ shared' \in {shared, shared \cup {i}}
      /\ \A q \in Procs \ {p} : Running(q) /\ active[q] = i => i \in shared'
  BY DEF Hold
<1>2. /\ at \in [Procs -> {"off", "prompt", "save", "write"}] /\ memory \in [Procs -> Contents]
      /\ active \in [Procs -> Ids] /\ acked \in [Ids -> SUBSET Turns] /\ shared \subseteq Ids
  BY DEF IInv, TypeOK
<1>3. /\ at'[p] = "save" /\ memory'[p] = content /\ active'[p] = i
      /\ \A q \in Procs \ {p} : at'[q] = at[q] /\ memory'[q] = memory[q] /\ active'[q] = active[q]
  BY <1>1, <1>2
<1>4. shared \subseteq shared' /\ acked' \in [Ids -> SUBSET Turns] /\ \A j \in Ids : acked'[j] \subseteq acked[j]
  BY <1>1, <1>2
<1>5. TypeOK'
  BY <1>1, <1>2, <1>4 DEF IInv, TypeOK
<1>6. PromptInSync'
  BY <1>3 DEF IInv, PromptInSync
<1>7. SharingIsKnown'
  BY <1>1, <1>3, <1>4 DEF IInv, SharingIsKnown, Running
<1>8. MemoryHasAcked'
  <2> SUFFICES ASSUME NEW q \in Procs, q # p, Running(q)', active'[q] \notin shared'
               PROVE  acked'[active[q]] \subseteq memory[q].covered
    BY <1>3 DEF MemoryHasAcked
  <2>1. acked[active[q]] \subseteq memory[q].covered
    BY <1>3, <1>4 DEF IInv, MemoryHasAcked, Running
  <2>2. active[q] \in Ids
    BY <1>2
  <2> QED
    BY <1>4, <2>1, <2>2
<1>9. NoFileNothingAcked'
  BY <1>4 DEF IInv, NoFileNothingAcked
<1>10. AckedTurnsSurvive'
  <2> SUFFICES ASSUME NEW j \in DOMAIN files, j \notin shared', Readable(j)'
               PROVE  acked'[j] \subseteq files[j].covered
    BY DEF AckedTurnsSurvive
  <2>1. acked[j] \subseteq files[j].covered
    BY <1>4 DEF IInv, AckedTurnsSurvive, Readable
  <2>2. j \in Ids
    BY DEF IInv, TypeOK
  <2> QED
    BY <1>4, <2>1, <2>2
<1>11. TornMeansCutShort'
  BY <1>3 DEF IInv, TornMeansCutShort
<1> QED
  BY <1>5, <1>6, <1>7, <1>8, <1>9, <1>10, <1>11 DEF IInv

(* A process that ends leaves the files as they are; a write that it cuts  *)
(* short is known.                                                         *)
LEMMA LeaveStep ==
  ASSUME IInv, NEW p \in Procs, Gone(p),
         UNCHANGED <<clock, turns, files, active, leaving, acked, shared, writer>>,
         damaged \subseteq damaged', damaged' \subseteq Ids, at[p] = "write" => active[p] \in damaged'
  PROVE  IInv'
<1>1. at' = [at EXCEPT ![p] = "off"] /\ memory' = [memory EXCEPT ![p] = Empty]
  BY DEF Gone
<1>2. at \in [Procs -> {"off", "prompt", "save", "write"}] /\ memory \in [Procs -> Contents]
  BY DEF IInv, TypeOK
<1>3. /\ at'[p] = "off"
      /\ \A q \in Procs \ {p} : at'[q] = at[q] /\ memory'[q] = memory[q]
  BY <1>1, <1>2
<1>4. TypeOK'
  BY <1>1, <1>2, ContentsAreTyped DEF IInv, TypeOK
<1>5. PromptInSync'
  BY <1>3 DEF IInv, PromptInSync
<1>6. SharingIsKnown' /\ MemoryHasAcked'
  BY <1>3 DEF IInv, SharingIsKnown, MemoryHasAcked, Running
<1>7. NoFileNothingAcked' /\ AckedTurnsSurvive'
  BY DEF IInv, NoFileNothingAcked, AckedTurnsSurvive, Readable
<1>8. TornMeansCutShort'
  BY <1>3 DEF IInv, TornMeansCutShort
<1> QED
  BY <1>4, <1>5, <1>6, <1>7, <1>8 DEF IInv

-----------------------------------------------------------------------------
(* What a step of a save does to the files.                                *)
LEMMA SettingAFile ==
  ASSUME TypeOK, NEW i \in Ids, NEW content \in Contents \cup {Torn}, SetFile(i, content)
  PROVE  /\ DOMAIN files' = DOMAIN files \cup {i} /\ DOMAIN files' \subseteq Ids
         /\ files'[i] = content
         /\ \A j \in DOMAIN files \ {i} : files'[j] = files[j]
         /\ \A j \in DOMAIN files' : files'[j] \in Contents \cup {Torn}
BY DEF TypeOK, SetFile

LEMMA TruncateStep ==
  ASSUME IInv, NEW p \in Procs, Truncate(p)
  PROVE  IInv'
<1>1. /\ at[p] = "save" /\ SetFile(active[p], Torn) /\ at' = [at EXCEPT ![p] = "write"]
      /\ writer' = [writer EXCEPT ![active[p]] = p]
      /\ UNCHANGED <<clock, turns, memory, active, leaving, acked, shared, damaged>>
  BY DEF Truncate
<1>2. /\ at \in [Procs -> {"off", "prompt", "save", "write"}] /\ active \in [Procs -> Ids]
      /\ writer \in [Ids -> Procs]
  BY DEF IInv, TypeOK
<1>3. /\ at'[p] = "write" /\ \A q \in Procs \ {p} : at'[q] = at[q]
      /\ active[p] \in Ids /\ writer'[active[p]] = p
      /\ \A j \in Ids \ {active[p]} : writer'[j] = writer[j]
  BY <1>1, <1>2
<1>4. /\ DOMAIN files' = DOMAIN files \cup {active[p]} /\ DOMAIN files' \subseteq Ids
      /\ files'[active[p]] = Torn
      /\ \A j \in DOMAIN files \ {active[p]} : files'[j] = files[j]
      /\ \A j \in DOMAIN files' : files'[j] \in Contents \cup {Torn}
  BY <1>1, <1>3, SettingAFile DEF IInv
<1>5. TypeOK'
  BY <1>1, <1>2, <1>4 DEF IInv, TypeOK
<1>6. PromptInSync'
  <2> SUFFICES ASSUME NEW q \in Procs \ {p}, at[q] = "prompt"
               PROVE  /\ active[q] \in DOMAIN files'
                      /\ writer'[active[q]] = q => files'[active[q]] = memory[q]
    BY <1>1, <1>3 DEF PromptInSync
  <2>1. active[q] \in DOMAIN files /\ (writer[active[q]] = q => files[active[q]] = memory[q])
    BY DEF IInv, PromptInSync
  <2>2. active[q] \in Ids
    BY <1>2
  <2> QED
    BY <1>3, <1>4, <2>1, <2>2
<1>7. SharingIsKnown' /\ MemoryHasAcked'
  BY <1>1, <1>3 DEF IInv, SharingIsKnown, MemoryHasAcked, Running
<1>8. NoFileNothingAcked'
  BY <1>1, <1>4 DEF IInv, NoFileNothingAcked
<1>9. AckedTurnsSurvive'
  <2> SUFFICES ASSUME NEW j \in DOMAIN files', j \notin shared, Readable(j)'
               PROVE  acked[j] \subseteq files'[j].covered
    BY <1>1 DEF AckedTurnsSurvive
  <2>1. j \in DOMAIN files /\ files'[j] = files[j] /\ Readable(j)
    BY <1>4 DEF Readable
  <2> QED
    BY <2>1 DEF IInv, AckedTurnsSurvive
<1>10. TornMeansCutShort'
  <2> SUFFICES ASSUME NEW j \in DOMAIN files', files'[j] = Torn
               PROVE  j \in damaged \/ \E q \in Procs : at'[q] = "write" /\ active[q] = j
    BY <1>1 DEF TornMeansCutShort
  <2>1. CASE j = active[p]
    BY <1>3, <2>1
  <2>2. CASE j # active[p]
    <3>1. j \in DOMAIN files /\ files[j] = Torn
      BY <1>4, <2>2
    <3>2. j \in damaged \/ \E q \in Procs : at[q] = "write" /\ active[q] = j
      BY <3>1 DEF IInv, TornMeansCutShort
    <3> QED
      BY <1>1, <1>3, <3>2
  <2> QED
    BY <2>1, <2>2
<1> QED
  BY <1>5, <1>6, <1>7, <1>8, <1>9, <1>10 DEF IInv

(* The file gets what is in memory, and of a session that is not shared    *)
(* that is all there is to lose.                                           *)
LEMMA WriteStep ==
  ASSUME IInv, NEW p \in Procs, Write(p)
  PROVE  IInv'
<1> DEFINE i == active[p]
<1>1. /\ at[p] = "write" /\ SetFile(i, memory[p]) /\ writer' = [writer EXCEPT ![i] = p]
      /\ UNCHANGED <<clock, turns, active, leaving, shared, damaged>>
  BY DEF Write
<1>2. /\ at \in [Procs -> {"off", "prompt", "save", "write"}] /\ memory \in [Procs -> Contents]
      /\ active \in [Procs -> Ids] /\ acked \in [Ids -> SUBSET Turns] /\ writer \in [Ids -> Procs]
  BY DEF IInv, TypeOK
<1>3. i \in Ids /\ memory[p] \in Contents /\ memory[p].covered \in SUBSET Turns
  BY <1>2 DEF Contents
<1>4. /\ DOMAIN files' = DOMAIN files \cup {i} /\ DOMAIN files' \subseteq Ids
      /\ files'[i] = memory[p]
      /\ \A j \in DOMAIN files \ {i} : files'[j] = files[j]
      /\ \A j \in DOMAIN files' : files'[j] \in Contents \cup {Torn}
  BY <1>1, <1>3, SettingAFile DEF IInv
<1>5. writer'[i] = p /\ \A j \in Ids \ {i} : writer'[j] = writer[j]
  BY <1>1, <1>2, <1>3
<1>6. i \notin shared => acked[i] \subseteq memory[p].covered
  BY <1>1 DEF IInv, MemoryHasAcked, Running
<1>7. \/ /\ at' = [at EXCEPT ![p] = "off"] /\ memory' = [memory EXCEPT ![p] = Empty]
         /\ acked' = acked
      \/ /\ at' = [at EXCEPT ![p] = "prompt"] /\ memory' = memory
         /\ acked' = [acked EXCEPT ![i] = @ \cup memory[p].covered]
  BY DEF Write, Gone
<1>8. /\ at'[p] = "off" \/ (at'[p] = "prompt" /\ memory'[p] = memory[p])
      /\ \A q \in Procs \ {p} : at'[q] = at[q] /\ memory'[q] = memory[q]
      /\ at' \in [Procs -> {"off", "prompt", "save", "write"}] /\ memory' \in [Procs -> Contents]
  BY <1>2, <1>7, ContentsAreTyped
<1>9. /\ acked' \in [Ids -> SUBSET Turns] /\ \A j \in Ids \ {i} : acked'[j] = acked[j]
      /\ i \notin shared => acked'[i] \subseteq memory[p].covered
  BY <1>2, <1>3, <1>6, <1>7
<1> HIDE DEF i
<1>10. TypeOK'
  BY <1>1, <1>2, <1>3, <1>4, <1>8, <1>9 DEF IInv, TypeOK
<1>11. PromptInSync'
  <2>1. at'[p] = "prompt" => i \in DOMAIN files' /\ files'[i] = memory'[p]
    BY <1>4, <1>8
  <2>2. ASSUME NEW q \in Procs \ {p}, at[q] = "prompt"
        PROVE  /\ active[q] \in DOMAIN files'
               /\ writer'[active[q]] = q => files'[active[q]] = memory[q]
    <3>1. active[q] \in DOMAIN files /\ (writer[active[q]] = q => files[active[q]] = memory[q])
      BY <2>2 DEF IInv, PromptInSync
    <3>2. active[q] \in Ids
      BY <1>2
    <3> QED
      BY <1>4, <1>5, <3>1, <3>2
  <2> QED
    BY <1>1, <1>8, <2>1, <2>2 DEF PromptInSync, i
<1>12. SharingIsKnown'
  BY <1>1, <1>8 DEF IInv, SharingIsKnown, Running
<1>13. MemoryHasAcked'
  <2>1. at'[p] = "prompt" /\ i \notin shared => acked'[i] \subseteq memory'[p].covered
    BY <1>8, <1>9
  <2>2. ASSUME NEW q \in Procs \ {p}, Running(q), active[q] \notin shared
        PROVE  acked'[active[q]] \subseteq memory[q].covered
    <3>1. active[q] # i
      BY <1>1, <2>2 DEF IInv, SharingIsKnown, Running, i
    <3>2. active[q] \in Ids /\ acked[active[q]] \subseteq memory[q].covered
      BY <1>2, <2>2 DEF IInv, MemoryHasAcked
    <3> QED
      BY <1>9, <3>1, <3>2
  <2> QED
    BY <1>1, <1>8, <2>1, <2>2 DEF MemoryHasAcked, Running, i
<1>14. NoFileNothingAcked'
  BY <1>4, <1>9 DEF IInv, NoFileNothingAcked
<1>15. AckedTurnsSurvive'
  <2> SUFFICES ASSUME NEW j \in DOMAIN files', j \notin shared, Readable(j)'
               PROVE  acked'[j] \subseteq files'[j].covered
    BY <1>1 DEF AckedTurnsSurvive
  <2>1. CASE j = i
    BY <1>4, <1>9, <2>1
  <2>2. CASE j # i
    <3>1. j \in DOMAIN files /\ j \in Ids /\ files'[j] = files[j]
      BY <1>4, <2>2
    <3>2. acked[j] \subseteq files[j].covered
      BY <3>1 DEF IInv, AckedTurnsSurvive, Readable
    <3> QED
      BY <1>9, <2>2, <3>1, <3>2
  <2> QED
    BY <2>1, <2>2
<1>16. TornMeansCutShort'
  <2> SUFFICES ASSUME NEW j \in DOMAIN files', files'[j] = Torn
               PROVE  j \in damaged \/ \E q \in Procs : at'[q] = "write" /\ active[q] = j
    BY <1>1 DEF TornMeansCutShort
  <2>1. j # i
    BY <1>3, <1>4, TornIsNoContent
  <2>2. j \in DOMAIN files /\ files[j] = Torn
    BY <1>4, <2>1
  <2>3. j \in damaged \/ \E q \in Procs : at[q] = "write" /\ active[q] = j
    BY <2>2 DEF IInv, TornMeansCutShort
  <2> QED
    BY <1>8, <2>1, <2>3 DEF i
<1> QED
  BY <1>10, <1>11, <1>12, <1>13, <1>14, <1>15, <1>16 DEF IInv

-----------------------------------------------------------------------------
LEMMA IInvStep == IInv /\ [Next]_vars => IInv'
<1> SUFFICES ASSUME IInv, [Next]_vars
             PROVE  IInv'
  OBVIOUS
<1>0. /\ clock \in Ids /\ turns \in 0 .. MaxTurns /\ memory \in [Procs -> Contents]
      /\ active \in [Procs -> Ids] /\ acked \in [Ids -> SUBSET Turns] /\ damaged \subseteq Ids
  BY DEF IInv, TypeOK
<1>1. ASSUME NEW p \in Procs, Start(p) \/ Clear(p)
      PROVE  IInv'
  <2>1. /\ at[p] \in {"off", "prompt"} /\ Hold(p, clock, Empty, FALSE) /\ FreshId(p)
        /\ UNCHANGED <<clock, turns, files, acked, damaged, writer>>
    BY <1>1 DEF Start, Clear
  <2>2. clock \notin shared' => acked[clock] = {}
    BY <1>0, <2>1 DEF FreshId, Hold, IInv, NoFileNothingAcked
  <2> QED
    BY <1>0, <2>1, <2>2, HoldStep, ContentsAreTyped
<1>2. ASSUME NEW p \in Procs, Turn(p) \/ Rebuild(p) \/ Compact(p) \/ Exit(p)
      PROVE  IInv'
  <2>1. at[p] = "prompt" /\ UNCHANGED <<clock, files, acked, damaged, writer>>
    BY <1>2 DEF Turn, Rebuild, Compact, Exit
  <2>2. PICK content \in Contents, exits \in BOOLEAN :
          /\ Hold(p, active[p], content, exits) /\ memory[p].covered \subseteq content.covered
          /\ turns' \in 0 .. MaxTurns
    <3>1. memory[p] \in Contents
      BY <1>0
    <3>2. CASE Turn(p)
      <4> DEFINE content == [memory[p] EXCEPT !.covered = @ \cup {turns + 1}]
      <4>1. turns < MaxTurns /\ turns' = turns + 1 /\ Hold(p, active[p], content, FALSE)
        BY <3>2, Zenon DEF Turn
      <4>2. turns + 1 \in Turns
        BY <1>0, <4>1, SessionFilesAssumption DEF Turns
      <4>3. memory[p].covered \subseteq Turns /\ content.covered = memory[p].covered \cup {turns + 1}
        BY <3>1 DEF Contents
      <4>4. content \in Contents
        BY <3>1, <4>2, <4>3 DEF Contents
      <4>5. turns' \in 0 .. MaxTurns
        BY <4>2, <4>1 DEF Turns
      <4> QED
        BY <4>1, <4>3, <4>4, <4>5
    <3>3. CASE Rebuild(p) \/ Exit(p)
      BY <1>0, <3>1, <3>3 DEF Rebuild, Exit
    <3>4. CASE Compact(p)
      BY <1>0, <3>1, <3>4, ContentsAreTyped DEF Compact
    <3> QED
      BY <1>2, <3>2, <3>3, <3>4
  <2>3. active[p] \notin shared' => acked[active[p]] \subseteq content.covered
    BY <2>1, <2>2 DEF Hold, IInv, MemoryHasAcked, Running
  <2>4. active[p] \in Ids
    BY <1>0
  <2> QED
    BY <2>1, <2>2, <2>3, <2>4, HoldStep
<1>3. ASSUME NEW p \in Procs, NEW i \in Ids, Switch(p, i) \/ ResumeCompact(p, i)
      PROVE  IInv'
  <2>1. /\ at[p] \in {"off", "prompt"} /\ Readable(i)
        /\ UNCHANGED <<clock, turns, files, acked, damaged, writer>>
    BY <1>3 DEF Switch, ResumeCompact
  <2>2. files[i] \in Contents /\ (i \notin shared => acked[i] \subseteq files[i].covered)
    BY <2>1, ReadableIsTyped DEF IInv, AckedTurnsSurvive
  <2>3. PICK content \in Contents, exits \in BOOLEAN :
          Hold(p, i, content, exits) /\ content.covered = files[i].covered
    BY <1>3, <2>2, ContentsAreTyped DEF Switch, ResumeCompact
  <2>4. i \notin shared' => acked[i] \subseteq content.covered
    BY <2>2, <2>3 DEF Hold
  <2> QED
    BY <1>0, <2>1, <2>3, <2>4, HoldStep
<1>4. ASSUME NEW p \in Procs, NEW i \in Ids, ResumeClear(p, i)
      PROVE  IInv'
  <2>1. /\ at[p] \in {"off", "prompt"} /\ Hold(p, i, Empty, TRUE) /\ acked' = [acked EXCEPT ![i] = {}]
        /\ UNCHANGED <<clock, turns, files, damaged, writer>>
    BY <1>4 DEF ResumeClear
  <2>2. acked'[i] = {}
    BY <1>0, <2>1
  <2> QED
    BY <1>0, <2>1, <2>2, HoldStep, ContentsAreTyped
<1>5. ASSUME NEW p \in Procs, TurnFails(p) \/ SwitchFails(p) \/ WriteFails(p) \/ Crash(p)
      PROVE  IInv'
  <2>1. /\ Gone(p) /\ UNCHANGED <<clock, turns, files, active, leaving, acked, shared, writer>>
        /\ damaged' \in {damaged, damaged \cup {active[p]}}
        /\ at[p] = "write" => active[p] \in damaged'
    BY <1>5 DEF TurnFails, SwitchFails, WriteFails, Crash
  <2>2. active[p] \in Ids
    BY <1>0
  <2>3. damaged \subseteq damaged' /\ damaged' \subseteq Ids
    BY <1>0, <2>1, <2>2
  <2> QED
    BY <2>1, <2>3, LeaveStep
<1>6. ASSUME NEW p \in Procs, Save(p) \/ Crash(p)
      PROVE  IInv'
  BY <1>5, <1>6, TruncateStep, WriteStep DEF Save
<1>7. CASE Tick \/ UNCHANGED vars
  <2>1. clock' \in Ids /\ UNCHANGED <<turns, files, at, memory, active, leaving, acked, shared, damaged, writer>>
    BY <1>0, <1>7, SessionFilesAssumption DEF Tick, Ids, vars
  <2> QED
    BY <2>1 DEF IInv, TypeOK, PromptInSync, SharingIsKnown, MemoryHasAcked, NoFileNothingAcked,
                AckedTurnsSurvive, TornMeansCutShort, Running, Readable
<1>8. ASSUME NEW p \in Procs, Command(p)
      PROVE  IInv'
  BY <1>1, <1>2, <1>3, <1>4, <1>5, <1>8 DEF Command
<1> QED
  BY <1>6, <1>7, <1>8 DEF Next

LEMMA IInvHolds == Spec => []IInv
BY IInvInit, IInvStep, PTL DEF Spec

-----------------------------------------------------------------------------
(* A turn after which the prompt came back is in the file of its session,  *)
(* whatever was switched, cleared, resumed, started again or killed since, *)
(* unless two processes had the session open or a write was cut short.     *)
THEOREM AckedTurnsAreKept == Spec => []AckedTurnsSurvive
<1>1. IInv => AckedTurnsSurvive
  BY DEF IInv
<1> QED
  BY <1>1, IInvHolds, PTL

(* All that the run checks of the states: turns survive, the prompt speaks *)
(* of the session that is open, and no command leaves a torn file behind.  *)
THEOREM SessionsAreSound == Spec => []SessionFilesInv
<1>1. IInv => SessionFilesInv
  BY DEF IInv, SessionFilesInv
<1> QED
  BY <1>1, IInvHolds, PTL

(* No step changes the file of a session that no process has open: work in *)
(* one session, its clearing and compaction included, stays in its file.   *)
THEOREM ClosedSessionsStay == Spec => OnlyOpenSessionsChange
<1> DEFINE ClosedStay ==
      \A i \in DOMAIN files : (\A p \in Procs : ~(Running(p) /\ active[p] = i)) => files'[i] = files[i]
<1>1. IInv /\ [Next]_vars => [ClosedStay]_vars
  <2> SUFFICES ASSUME IInv, Next
               PROVE  ClosedStay
    OBVIOUS
  <2>1. ASSUME NEW p \in Procs, Truncate(p) \/ Write(p)
        PROVE  ClosedStay
    <3>1. Running(p) /\ \E content \in Contents \cup {Torn} : SetFile(active[p], content)
      BY <2>1 DEF Truncate, Write, Running, IInv, TypeOK
    <3>2. active[p] \in Ids
      BY DEF IInv, TypeOK
    <3>3. \A j \in DOMAIN files \ {active[p]} : files'[j] = files[j]
      BY <3>1, <3>2, SettingAFile DEF IInv
    <3> QED
      BY <3>1, <3>3
  <2>2. ASSUME UNCHANGED files
        PROVE  ClosedStay
    BY <2>2
  <2> HIDE DEF ClosedStay
  <2>3. ASSUME NEW p \in Procs, Command(p) \/ WriteFails(p) \/ Crash(p)
        PROVE  ClosedStay
    BY <2>2, <2>3 DEF Command, Start, Turn, TurnFails, Rebuild, Compact, Clear, SwitchFails, Exit,
                      Switch, ResumeCompact, ResumeClear, WriteFails, Crash
  <2>4. CASE Tick
    BY <2>2, <2>4 DEF Tick
  <2> QED
    BY <2>1, <2>3, <2>4 DEF Next, Save
<1> QED
  BY <1>1, IInvHolds, PTL DEF Spec, OnlyOpenSessionsChange

-----------------------------------------------------------------------------
(* The progress report.  A snapshot is of the past, and no heartbeat that  *)
(* was written is newer than the last snapshot; ...                        *)
TerminalLines == [event : {"none", "started", "update", "heartbeat", "complete", "failed"}, step : Nat]
Snapshots == [step : Nat, final : BOOLEAN]
ProgressTyped ==
  /\ progress \in Snapshots /\ snapshot \in Snapshots /\ unwritten \in TerminalLines
  /\ turn \in {"starting", "running", "writing", "completing", "failing", "unwinding", "over"}
  /\ heart \in {"none", "waiting", "holding", "ended"}
  /\ lines \in Seq(TerminalLines)

SnapshotsAreOld ==
  /\ snapshot.step <= progress.step
  /\ \A k \in DOMAIN lines : lines[k].event = "heartbeat" => lines[k].step <= snapshot.step

(* ... the threads meet at the beginning and at the end, and the last line *)
(* of the turn is written when both are over.                              *)
ThreadsMeet ==
  /\ turn = "starting" <=> heart = "none"
  /\ turn = "starting" <=> lines = <<>>
  /\ turn = "writing" => unwritten = [event |-> "update", step |-> progress.step]
  /\ turn = "over" => heart = "ended"
  /\ \A k \in DOMAIN lines : lines[k].event \in {"complete", "failed"} => turn = "over"

ProgressIInv ==
  ProgressTyped /\ SnapshotsAreOld /\ ThreadsMeet /\ EveryPhaseIsShown /\ HeartbeatsLagOnly

(* The updates among the first lines, and how many there are.              *)
LEMMA UpdatesAreFinite ==
  ASSUME NEW ls, NEW n \in Nat
  PROVE  IsFiniteSet(Updates(ls, n)) /\ Cardinality(Updates(ls, n)) \in Nat
<1>1. IsFiniteSet(1 .. n)
  BY FS_Interval
<1>2. IsFiniteSet(Updates(ls, n))
  BY <1>1, FS_Subset DEF Updates
<1> QED
  BY <1>2, FS_CardinalityType

(* A line that is written counts if it is an update and changes nothing    *)
(* about the lines before it.                                              *)
LEMMA AppendLine ==
  ASSUME NEW ls \in Seq(TerminalLines), NEW l \in TerminalLines
  PROVE  /\ \A k \in 0 .. Len(ls) : Cardinality(Updates(Append(ls, l), k)) = Cardinality(Updates(ls, k))
         /\ Cardinality(Updates(Append(ls, l), Len(ls) + 1)) =
              Cardinality(Updates(ls, Len(ls))) + (IF l.event = "update" THEN 1 ELSE 0)
<1> DEFINE new == Append(ls, l)
<1>1. /\ Len(new) = Len(ls) + 1 /\ Len(ls) \in Nat
      /\ new[Len(ls) + 1] = l /\ \A k \in 1 .. Len(ls) : new[k] = ls[k]
  BY AppendProperties, LenProperties
<1> HIDE DEF new
<1>2. \A k \in 0 .. Len(ls) : Updates(new, k) = Updates(ls, k)
  BY <1>1 DEF Updates
<1>3. Cardinality(Updates(new, Len(ls) + 1)) =
        Cardinality(Updates(ls, Len(ls))) + (IF l.event = "update" THEN 1 ELSE 0)
  <2>1. CASE l.event = "update"
    <3>1. /\ Updates(new, Len(ls) + 1) = Updates(ls, Len(ls)) \cup {Len(ls) + 1}
          /\ Len(ls) + 1 \notin Updates(ls, Len(ls))
      BY <1>1, <2>1 DEF Updates
    <3>2. IsFiniteSet(Updates(ls, Len(ls)))
      BY <1>1, UpdatesAreFinite
    <3> QED
      BY <2>1, <3>1, <3>2, FS_AddElement
  <2>2. CASE l.event # "update"
    <3>1. Updates(new, Len(ls) + 1) = Updates(ls, Len(ls))
      BY <1>1, <2>2 DEF Updates
    <3>2. Cardinality(Updates(ls, Len(ls))) \in Nat
      BY <1>1, UpdatesAreFinite
    <3> QED
      BY <2>2, <3>1, <3>2
  <2> QED
    BY <2>1, <2>2
<1>4. \A k \in 0 .. Len(ls) : Cardinality(Updates(new, k)) = Cardinality(Updates(ls, k))
  BY <1>2
<1> QED
  BY <1>3, <1>4, Zenon DEF new

LEMMA ProgressIInvInit == ProgressInit => ProgressIInv
<1> SUFFICES ASSUME ProgressInit PROVE ProgressIInv
  OBVIOUS
<1>1. /\ lines = <<>> /\ progress = [step |-> 0, final |-> FALSE] /\ snapshot = progress
      /\ unwritten = [event |-> "none", step |-> 0] /\ turn = "starting" /\ heart = "none"
  BY DEF ProgressInit, NoLine
<1>2. ProgressTyped
  BY <1>1 DEF ProgressTyped, Snapshots, TerminalLines
<1>3. Len(lines) = 0 /\ DOMAIN lines = {} /\ Updates(lines, 0) = {}
  BY <1>1 DEF Updates
<1>4. Shown(0) = 0
  BY <1>3, FS_EmptySet DEF Shown
<1> QED
  BY <1>1, <1>2, <1>3, <1>4
     DEF ProgressIInv, SnapshotsAreOld, ThreadsMeet, EveryPhaseIsShown, HeartbeatsLagOnly

(* What is written does not disturb what is on the terminal.               *)
LEMMA WritingKeeps ==
  ASSUME ProgressIInv, NEW l \in TerminalLines, lines' = Append(lines, l), turn # "over",
         progress' = progress, snapshot' = snapshot,
         lines = <<>> <=> l.event = "started",
         l.event = "update" => turn = "writing" /\ l.step = progress.step,
         turn' = "writing" <=> turn = "writing" /\ l.event # "update",
         l.event = "heartbeat" => l.step = snapshot.step,
         l.event \in {"complete", "failed"} => l.step = progress.step /\ turn # "writing"
  PROVE  /\ EveryPhaseIsShown' /\ HeartbeatsLagOnly' /\ SnapshotsAreOld'
         /\ lines' \in Seq(TerminalLines) /\ lines' # <<>>
         /\ \A k \in DOMAIN lines' : lines'[k].event \in {"complete", "failed"} =>
              l.event \in {"complete", "failed"}
<1> DEFINE n == Len(lines)
<1>1. lines \in Seq(TerminalLines) /\ progress.step \in Nat /\ snapshot.step \in Nat /\ l.step \in Nat
      /\ n \in Nat
  BY LenProperties DEF ProgressIInv, ProgressTyped, Snapshots, TerminalLines
<1>2. /\ lines' \in Seq(TerminalLines) /\ Len(lines') = n + 1 /\ lines' # <<>>
      /\ DOMAIN lines' = 1 .. (n + 1) /\ DOMAIN lines = 1 .. n
      /\ lines'[n + 1] = l /\ \A k \in 1 .. n : lines'[k] = lines[k]
      /\ \A k \in 0 .. n : Cardinality(Updates(lines', k)) = Shown(k)
      /\ Cardinality(Updates(lines', n + 1)) = Shown(n) + (IF l.event = "update" THEN 1 ELSE 0)
  <2>1. /\ lines' \in Seq(TerminalLines) /\ Len(lines') = Len(lines) + 1 /\ lines' # <<>>
        /\ lines'[Len(lines) + 1] = l /\ \A k \in 1 .. Len(lines) : lines'[k] = lines[k]
        /\ \A k \in 0 .. Len(lines) : Cardinality(Updates(lines', k)) = Cardinality(Updates(lines, k))
        /\ Cardinality(Updates(lines', Len(lines) + 1)) =
             Cardinality(Updates(lines, Len(lines))) + (IF l.event = "update" THEN 1 ELSE 0)
    <3> DEFINE new == Append(lines, l)
    <3>1. new = lines'
      OBVIOUS
    <3>2. /\ new \in Seq(TerminalLines) /\ Len(new) = Len(lines) + 1 /\ new # <<>>
          /\ new[Len(lines) + 1] = l /\ \A k \in 1 .. Len(lines) : new[k] = lines[k]
          /\ \A k \in 0 .. Len(lines) : Cardinality(Updates(new, k)) = Cardinality(Updates(lines, k))
          /\ Cardinality(Updates(new, Len(lines) + 1)) =
               Cardinality(Updates(lines, Len(lines))) + (IF l.event = "update" THEN 1 ELSE 0)
      <4>1. lines \in Seq(TerminalLines) /\ l \in TerminalLines
        BY <1>1
      <4>2. /\ new \in Seq(TerminalLines) /\ Len(new) = Len(lines) + 1 /\ new # <<>>
            /\ new[Len(lines) + 1] = l /\ \A k \in 1 .. Len(lines) : new[k] = lines[k]
        BY <4>1, AppendProperties
      <4>3. /\ \A k \in 0 .. Len(lines) : Cardinality(Updates(new, k)) = Cardinality(Updates(lines, k))
            /\ Cardinality(Updates(new, Len(lines) + 1)) =
                 Cardinality(Updates(lines, Len(lines))) + (IF l.event = "update" THEN 1 ELSE 0)
        BY <4>1, AppendLine, Zenon
      <4> QED
        BY <4>2, <4>3
    <3> HIDE DEF new
    <3> QED
      BY <3>1, <3>2
  <2>2. DOMAIN lines' = 1 .. Len(lines') /\ DOMAIN lines = 1 .. Len(lines)
    BY <1>1, <2>1, LenProperties
  <2> QED
    BY <2>1, <2>2 DEF Shown
<1>3. \A k \in 1 .. n : lines[k] \in TerminalLines /\ lines[k].step \in Nat
  <2>1. \A k \in 1 .. Len(lines) : lines[k] \in TerminalLines
    BY <1>1, ElementOfSeq
  <2> QED
    BY <2>1 DEF TerminalLines
<1>4. Shown(n) \in Nat
  BY <1>1, UpdatesAreFinite DEF Shown
<1>5. \A k \in 1 .. n : lines[k].event \notin {"complete", "failed"}
  BY <1>2 DEF ProgressIInv, ThreadsMeet
<1>6. /\ \A k \in 1 .. n : lines[k].event = "update" => lines[k].step = Shown(k)
      /\ progress.step = Shown(n) + (IF turn = "writing" THEN 1 ELSE 0)
      /\ lines # <<>> => lines[1].event = "started"
  BY <1>2 DEF ProgressIInv, EveryPhaseIsShown, Updates
<1>7. /\ snapshot.step <= progress.step
      /\ \A k \in 1 .. n : lines[k].event = "heartbeat" =>
           /\ lines[k].step <= snapshot.step
           /\ \A j \in 1 .. k : lines[j].event = "heartbeat" => lines[j].step <= lines[k].step
           /\ lines[k].step <= 1 + Shown(k)
  BY <1>2 DEF ProgressIInv, SnapshotsAreOld, HeartbeatsLagOnly
<1>8. lines = <<>> <=> n = 0
  BY <1>1, EmptySeq
<1> HIDE DEF n
<1>9. EveryPhaseIsShown'
  <2>1. \A k \in Updates(lines', n + 1) : lines'[k].step = Cardinality(Updates(lines', k))
    <3> SUFFICES ASSUME NEW k \in 1 .. (n + 1), lines'[k].event = "update"
                 PROVE  lines'[k].step = Cardinality(Updates(lines', k))
      BY DEF Updates
    <3>1. CASE k = n + 1
      BY <1>2, <1>6, <1>4, <3>1
    <3>2. CASE k # n + 1
      <4>1. k \in 1 .. n /\ k \in 0 .. n
        BY <1>1, <3>2
      <4> QED
        BY <1>2, <1>6, <4>1
    <3> QED
      BY <3>1, <3>2
  <2>2. progress'.step = Cardinality(Updates(lines', n + 1)) + (IF turn' = "writing" THEN 1 ELSE 0)
    BY <1>2, <1>4, <1>6
  <2>3. lines'[1].event = "started"
    <3>1. CASE n = 0
      BY <1>2, <1>8, <3>1
    <3>2. CASE n # 0
      <4>1. 1 \in 1 .. n
        BY <1>1, <3>2
      <4> QED
        BY <1>2, <1>6, <1>8, <3>2, <4>1
    <3> QED
      BY <3>1, <3>2
  <2>4. \A k \in 1 .. (n + 1) : lines'[k].event \in {"complete", "failed"} =>
          k = n + 1 /\ lines'[k].step = Cardinality(Updates(lines', k))
    <3> SUFFICES ASSUME NEW k \in 1 .. (n + 1), lines'[k].event \in {"complete", "failed"}
                 PROVE  k = n + 1 /\ lines'[k].step = Cardinality(Updates(lines', k))
      OBVIOUS
    <3>1. k = n + 1
      <4>1. k \in 1 .. n \/ k = n + 1
        BY <1>1
      <4> QED
        BY <1>2, <1>5, <4>1
    <3> QED
      BY <1>2, <1>4, <1>6, <3>1
  <2> QED
    BY <1>2, <2>1, <2>2, <2>3, <2>4 DEF EveryPhaseIsShown, Shown
<1>10. HeartbeatsLagOnly'
  <2> SUFFICES ASSUME NEW k \in 1 .. (n + 1), lines'[k].event = "heartbeat"
               PROVE  /\ \A j \in 1 .. k : lines'[j].event = "heartbeat" => lines'[j].step <= lines'[k].step
                      /\ lines'[k].step <= 1 + Cardinality(Updates(lines', k))
    BY <1>2 DEF HeartbeatsLagOnly, Shown
  <2>1. CASE k = n + 1
    <3>1. lines'[k].step = snapshot.step /\ l.event = "heartbeat"
      BY <1>2, <2>1
    <3>2. ASSUME NEW j \in 1 .. k, lines'[j].event = "heartbeat" PROVE lines'[j].step <= snapshot.step
      <4>1. CASE j = n + 1
        <5>1. lines'[j].step = snapshot.step
          BY <2>1, <3>1, <4>1
        <5> QED
          BY <1>1, <5>1
      <4>2. CASE j # n + 1
        <5>1. j \in 1 .. n
          BY <1>1, <2>1, <4>2
        <5> QED
          BY <1>2, <1>7, <3>2, <5>1
      <4> QED
        BY <4>1, <4>2
    <3>3. snapshot.step <= 1 + Cardinality(Updates(lines', k))
      BY <1>1, <1>2, <1>4, <1>6, <1>7, <2>1, <3>1
    <3> QED
      BY <3>1, <3>2, <3>3
  <2>2. CASE k # n + 1
    <3>1. k \in 1 .. n /\ k \in 0 .. n /\ \A j \in 1 .. k : j \in 1 .. n
      BY <1>1, <2>2
    <3> QED
      BY <1>2, <1>7, <3>1
  <2> QED
    BY <2>1, <2>2
<1>11. SnapshotsAreOld'
  <2> SUFFICES ASSUME NEW k \in 1 .. (n + 1), lines'[k].event = "heartbeat"
               PROVE  lines'[k].step <= snapshot.step
    BY <1>2, <1>7 DEF SnapshotsAreOld
  <2>1. k \in 1 .. n \/ k = n + 1
    BY <1>1
  <2> QED
    BY <1>1, <1>2, <1>7, <2>1
<1>12. \A k \in DOMAIN lines' : lines'[k].event \in {"complete", "failed"} =>
         l.event \in {"complete", "failed"}
  <2>1. \A k \in 1 .. (n + 1) : k \in 1 .. n \/ k = n + 1
    BY <1>1
  <2> QED
    BY <1>2, <1>5, <2>1
<1> QED
  BY <1>2, <1>9, <1>10, <1>11, <1>12

(* Nothing is written: a thread moves, or a phase begins.                  *)
LEMMA LinesStay ==
  ASSUME ProgressIInv, lines' = lines, turn # "over", turn # "starting",
         snapshot'.step \in Nat, progress'.step \in Nat,
         \/ progress' = progress /\ turn' # "writing" /\ turn # "writing"
         \/ progress' = progress /\ turn' = turn
         \/ turn # "writing" /\ turn' = "writing" /\ progress'.step = progress.step + 1,
         snapshot'.step = snapshot.step \/ snapshot'.step = progress.step,
         snapshot'.step <= progress'.step
  PROVE  EveryPhaseIsShown' /\ HeartbeatsLagOnly' /\ SnapshotsAreOld'
<1>1. /\ progress.step \in Nat /\ snapshot.step \in Nat /\ snapshot.step <= progress.step
      /\ \A k \in DOMAIN lines : lines[k].step \in Nat
  <2>1. \A k \in DOMAIN lines : lines[k] \in TerminalLines
    BY ElementOfSeq, LenProperties DEF ProgressIInv, ProgressTyped
  <2> QED
    BY <2>1 DEF ProgressIInv, ProgressTyped, SnapshotsAreOld, Snapshots, TerminalLines
<1>2. HeartbeatsLagOnly'
  BY DEF ProgressIInv, HeartbeatsLagOnly, Shown
<1>3. SnapshotsAreOld'
  BY <1>1 DEF ProgressIInv, SnapshotsAreOld
<1>4. Shown(Len(lines)) \in Nat
  BY UpdatesAreFinite, LenProperties DEF ProgressIInv, ProgressTyped, Shown
<1>5. progress'.step = Shown(Len(lines)) + (IF turn' = "writing" THEN 1 ELSE 0)
  BY <1>1, <1>4 DEF ProgressIInv, EveryPhaseIsShown
<1>6. EveryPhaseIsShown'
  BY <1>5 DEF ProgressIInv, EveryPhaseIsShown, Shown
<1> QED
  BY <1>2, <1>3, <1>6

LEMMA ProgressIInvStep == ProgressIInv /\ [ProgressNext]_progressVars => ProgressIInv'
<1> SUFFICES ASSUME ProgressIInv, [ProgressNext]_progressVars PROVE ProgressIInv'
  OBVIOUS
<1>1. /\ progress \in Snapshots /\ snapshot \in Snapshots /\ unwritten \in TerminalLines
      /\ progress.step \in Nat /\ snapshot.step \in Nat /\ snapshot.step <= progress.step
      /\ lines \in Seq(TerminalLines)
  BY DEF ProgressIInv, ProgressTyped, Snapshots, SnapshotsAreOld
<1>2. CASE StartRun
  <2>1. Line("started", progress) \in TerminalLines /\ Line("started", progress).event = "started"
    BY <1>1 DEF Line, TerminalLines
  <2> DEFINE l == Line("started", progress)
  <2>2. /\ lines' = Append(lines, l) /\ lines = <<>> /\ turn = "starting" /\ turn' = "running"
        /\ heart' = "waiting" /\ progress' = progress /\ snapshot' = snapshot /\ unwritten' = unwritten
    BY <1>2 DEF StartRun, ProgressIInv, ThreadsMeet
  <2> HIDE DEF l
  <2>3. /\ EveryPhaseIsShown' /\ HeartbeatsLagOnly' /\ SnapshotsAreOld'
        /\ lines' \in Seq(TerminalLines) /\ lines' # <<>>
        /\ \A k \in DOMAIN lines' : lines'[k].event \notin {"complete", "failed"}
    BY <2>1, <2>2, WritingKeeps DEF l
  <2> QED
    BY <1>1, <2>2, <2>3 DEF ProgressIInv, ProgressTyped, ThreadsMeet
<1>3. CASE Mark \/ MarkText
  <2>1. /\ lines' = lines /\ turn = "running" /\ turn' = "writing" /\ progress'.step = progress.step + 1
        /\ progress' \in Snapshots /\ heart' = heart /\ snapshot' = snapshot
        /\ unwritten' = [event |-> "update", step |-> progress'.step]
    <3>1. CASE Mark
      <4>1. /\ progress' = [progress EXCEPT !.step = @ + 1] /\ unwritten' = Line("update", progress')
            /\ lines' = lines /\ turn = "running" /\ turn' = "writing" /\ heart' = heart
            /\ snapshot' = snapshot
        BY <3>1 DEF Mark
      <4>2. progress'.step = progress.step + 1 /\ progress' \in Snapshots
        BY <1>1, <4>1 DEF Snapshots
      <4> QED
        BY <4>1, <4>2 DEF Line
    <3>2. CASE MarkText
      <4>1. /\ progress' = [step |-> progress.step + 1, final |-> TRUE]
            /\ unwritten' = Line("update", progress')
            /\ lines' = lines /\ turn = "running" /\ turn' = "writing" /\ heart' = heart
            /\ snapshot' = snapshot
        BY <3>2 DEF MarkText
      <4>2. progress'.step = progress.step + 1 /\ progress' \in Snapshots
        BY <1>1, <4>1 DEF Snapshots
      <4> QED
        BY <4>1, <4>2 DEF Line
    <3> QED
      BY <1>3, <3>1, <3>2
  <2>2. unwritten' \in TerminalLines /\ progress'.step \in Nat
    BY <1>1, <2>1 DEF TerminalLines
  <2>3. EveryPhaseIsShown' /\ HeartbeatsLagOnly' /\ SnapshotsAreOld'
    BY <1>1, <2>1, <2>2, LinesStay
  <2> QED
    BY <1>1, <2>1, <2>2, <2>3 DEF ProgressIInv, ProgressTyped, ThreadsMeet
<1>4. CASE WriteUpdate
  <2>1. /\ unwritten.event = "update" /\ unwritten.step = progress.step /\ turn = "writing"
        /\ turn' = "running" /\ lines' = Append(lines, unwritten) /\ lines # <<>>
        /\ progress' = progress /\ heart' = heart /\ snapshot' = snapshot
        /\ unwritten' = [event |-> "none", step |-> 0]
    BY <1>4 DEF WriteUpdate, NoLine, ProgressIInv, ThreadsMeet
  <2>2. /\ EveryPhaseIsShown' /\ HeartbeatsLagOnly' /\ SnapshotsAreOld'
        /\ lines' \in Seq(TerminalLines) /\ lines' # <<>>
        /\ \A k \in DOMAIN lines' : lines'[k].event \notin {"complete", "failed"}
    BY <1>1, <2>1, WritingKeeps
  <2>3. unwritten' \in TerminalLines
    BY <2>1 DEF TerminalLines
  <2> QED
    BY <1>1, <2>1, <2>2, <2>3 DEF ProgressIInv, ProgressTyped, ThreadsMeet
<1>5. CASE StopHeartbeat \/ Unwound
  <2>1. /\ lines' = lines /\ turn \in {"running", "unwinding"}
        /\ turn' \in {"completing", "failing", "unwinding", "over"}
        /\ turn' = "over" => heart = "ended"
        /\ progress' = progress /\ heart' = heart /\ snapshot' = snapshot /\ unwritten' = unwritten
    BY <1>5 DEF StopHeartbeat, Unwound
  <2>2. EveryPhaseIsShown' /\ HeartbeatsLagOnly' /\ SnapshotsAreOld'
    BY <1>1, <2>1, LinesStay
  <2> QED
    BY <1>1, <2>1, <2>2 DEF ProgressIInv, ProgressTyped, ThreadsMeet
<1>6. CASE Finish
  <2> DEFINE l == Line(Outcome, progress)
  <2>1. l \in TerminalLines /\ l.event \in {"complete", "failed"} /\ l.step = progress.step
    BY <1>1 DEF Line, Outcome, TerminalLines
  <2>2. /\ lines' = Append(lines, l) /\ turn \in {"completing", "failing"} /\ turn' = "over"
        /\ heart = "ended" /\ heart' = heart /\ progress' = progress /\ snapshot' = snapshot
        /\ unwritten' = unwritten /\ lines # <<>>
    BY <1>6 DEF Finish, ProgressIInv, ThreadsMeet
  <2> HIDE DEF l
  <2>3. /\ EveryPhaseIsShown' /\ HeartbeatsLagOnly' /\ SnapshotsAreOld'
        /\ lines' \in Seq(TerminalLines) /\ lines' # <<>>
    BY <2>1, <2>2, WritingKeeps
  <2> QED
    BY <1>1, <2>2, <2>3 DEF ProgressIInv, ProgressTyped, ThreadsMeet
<1>7. CASE Beat \/ HeartStops
  <2>1. /\ lines' = lines /\ heart = "waiting" /\ heart' \in {"holding", "ended"} /\ turn' = turn
        /\ progress' = progress /\ snapshot' \in {snapshot, progress} /\ unwritten' = unwritten
        /\ turn # "starting" /\ turn # "over"
    BY <1>7 DEF Beat, HeartStops, ProgressIInv, ThreadsMeet
  <2>2. EveryPhaseIsShown' /\ HeartbeatsLagOnly' /\ SnapshotsAreOld'
    BY <1>1, <2>1, LinesStay
  <2> QED
    BY <1>1, <2>1, <2>2 DEF ProgressIInv, ProgressTyped, ThreadsMeet
<1>8. CASE WriteHeartbeat
  <2> DEFINE l == Line("heartbeat", snapshot)
  <2>1. l \in TerminalLines /\ l.event = "heartbeat" /\ l.step = snapshot.step
    BY <1>1 DEF Line, TerminalLines
  <2>2. /\ lines' = Append(lines, l) /\ heart = "holding" /\ heart' = "waiting" /\ turn' = turn
        /\ progress' = progress /\ snapshot' = snapshot /\ unwritten' = unwritten
        /\ turn # "starting" /\ turn # "over" /\ lines # <<>>
    BY <1>8 DEF WriteHeartbeat, ProgressIInv, ThreadsMeet
  <2> HIDE DEF l
  <2>3. /\ EveryPhaseIsShown' /\ HeartbeatsLagOnly' /\ SnapshotsAreOld'
        /\ lines' \in Seq(TerminalLines) /\ lines' # <<>>
        /\ \A k \in DOMAIN lines' : lines'[k].event \notin {"complete", "failed"}
    BY <2>1, <2>2, WritingKeeps
  <2> QED
    BY <1>1, <2>2, <2>3 DEF ProgressIInv, ProgressTyped, ThreadsMeet
<1>9. CASE UNCHANGED progressVars
  BY <1>9 DEF progressVars, ProgressIInv, ProgressTyped, SnapshotsAreOld, ThreadsMeet,
     EveryPhaseIsShown, HeartbeatsLagOnly, Shown
<1> QED
  BY <1>2, <1>3, <1>4, <1>5, <1>6, <1>7, <1>8, <1>9 DEF ProgressNext

(* What the run checks of the progress report, for turns of any number of  *)
(* phases and heartbeats: every phase is shown once and in order, the      *)
(* outcome is the last line, and a heartbeat is never of the future.       *)
THEOREM ProgressIsTrue == ProgressSpec => []ProgressInv
<1>1. ProgressIInv => ProgressInv
  BY DEF ProgressIInv, ThreadsMeet, ProgressInv
<1>2. ProgressIInv /\ [ProgressNext]_progressVars => ProgressIInv'
  BY ProgressIInvStep
<1>3. QED
  BY <1>1, <1>2, ProgressIInvInit, PTL DEF ProgressSpec

-----------------------------------------------------------------------------
(* The git commands.  What the steps of a command remember, and what the   *)
(* repository is like while there is no command: ...                       *)
Made == 1 .. edits
CommitSteps == {"commit.status", "commit.add", "commit.message", "commit.commit"}
PublishSteps ==
  {"publish.status", "publish.add", "publish.commit", "publish.diff",
   "publish.push", "publish.create", "publish.view"}
Commands ==
  [step : CommitSteps \cup PublishSteps \cup {"publish.branch", "idle"}, name : Names \cup {"none"},
   message : {"none", "some"}, base : Names \cup Trunks \cup {"none"} \cup {LastSegment[t] : t \in Trunks},
   at : [asked : Nat, trunk : SUBSET Nat, mine : SUBSET Nat, told : BOOLEAN], summary : SUBSET Nat]

EveryEditIsKept ==
  \A e \in Made : e \in work \/ e \in staged \/ \E b \in DOMAIN branches : e \in branches[b]
RepositoryIsSound ==
  /\ edits \in Nat /\ work \subseteq Made /\ staged \subseteq Made
  /\ origin.trunk \in Trunks /\ origin.recorded \in Trunks \cup {"none"}
  /\ DOMAIN branches \subseteq Names \cup Trunks /\ origin.trunk \in DOMAIN branches
  /\ \A b \in DOMAIN branches : branches[b] \subseteq Made
  /\ head \in DOMAIN branches /\ head \notin elsewhere /\ elsewhere \subseteq DOMAIN branches
  /\ DOMAIN remote \subseteq DOMAIN branches /\ DOMAIN prs \subseteq DOMAIN remote
  /\ \A b \in DOMAIN remote : remote[b] \subseteq branches[b]
  /\ EveryEditIsKept

CommandTyped ==
  command = Idle \/ (command \in Commands /\ command.at.asked <= edits)

(* ... a command has not ended while it runs and keeps what it knows of    *)
(* the branches, ...                                                       *)
RunningKnows ==
  /\ command.step # "idle" => result = "running"
  /\ command.step \in CommitSteps => command.base = "none" /\ branches[head] = command.at.mine
  /\ command.step = "publish.branch" =>
       /\ command.base = "none" /\ command.name \in Names /\ branches[origin.trunk] = command.at.trunk
       /\ command.at.told = TrunkIsTold

(* ... from git add on nothing that was there when it began is unstaged,   *)
(* from git commit on nothing is staged, and from git push on the branch   *)
(* of the remote is this one, ...                                          *)
StepsAreDone ==
  /\ command.step \in {"commit.message", "commit.commit", "publish.commit", "publish.diff",
                       "publish.push", "publish.create", "publish.view"} => work \cap Asked = {}
  /\ command.step \in {"commit.message", "commit.commit"} => staged = command.summary
  /\ command.step \in {"publish.diff", "publish.push", "publish.create", "publish.view"} => staged = {}
  /\ command.step \in {"publish.create", "publish.view"} =>
       head \in DOMAIN remote /\ remote[head] = branches[head]

(* ... and the report of a command that is over is about this repository.  *)
GitIInv ==
  /\ RepositoryIsSound /\ CommandTyped /\ RunningKnows /\ StepsAreDone
  /\ ReportedMeansPublished /\ SkippedMeansNothing /\ TrunkIsLeftAlone /\ CommitIsSummarised

Steps == CommitSteps \cup PublishSteps \cup {"publish.branch", "idle"}

LEMMA PutIs ==
  ASSUME NEW f, NEW key, NEW value
  PROVE  /\ DOMAIN Put(f, key, value) = DOMAIN f \cup {key}
         /\ Put(f, key, value)[key] = value
         /\ \A k \in DOMAIN f : k # key => Put(f, key, value)[k] = f[k]
BY DEF Put

(* A command goes to its next step, or ends, and remembers the rest.       *)
LEMMA CommandGoes ==
  ASSUME NEW s \in Steps, command \in Commands, command' = [command EXCEPT !.step = s]
  PROVE  /\ command' \in Commands /\ command'.step = s
         /\ command'.name = command.name /\ command'.message = command.message
         /\ command'.base = command.base /\ command'.at = command.at
         /\ command'.summary = command.summary
BY DEF Commands, Steps

(* Whether the trunk is told is a matter of the remote and the branches.   *)
LEMMA TellingTheTrunk ==
  /\ TrunkIsTold \in BOOLEAN
  /\ UNCHANGED <<origin, branches, head>> => (TrunkIsTold' = TrunkIsTold)
BY DEF TrunkIsTold, Recorded

LEMMA IdleIsIdle == Idle.step = "idle"
BY DEF Idle

LEMMA RunningIsCommand ==
  ASSUME GitIInv, command.step # "idle"
  PROVE  command \in Commands /\ command.at.asked <= edits /\ result = "running"
BY IdleIsIdle DEF GitIInv, CommandTyped, RunningKnows

LEMMA GitIInvInit == GitInit => GitIInv
<1> SUFFICES ASSUME GitInit PROVE GitIInv
  OBVIOUS
<1>1. RepositoryIsSound
  <2>1. /\ origin.trunk \in Trunks /\ origin.recorded \in Trunks \cup {"none"}
        /\ edits = 0 /\ work = {} /\ staged = {} /\ head = origin.trunk /\ elsewhere = {}
        /\ DOMAIN branches = {origin.trunk} /\ branches[origin.trunk] = {} /\ DOMAIN remote = {origin.trunk}
        /\ remote[origin.trunk] = {} /\ DOMAIN prs = {} /\ Made = {}
    BY DEF GitInit, Made
  <2> QED
    BY <2>1 DEF RepositoryIsSound, EveryEditIsKept, Made
<1>2. command = Idle /\ result = "none"
  BY DEF GitInit
<1> QED
  BY <1>1, <1>2, IdleIsIdle
     DEF GitIInv, CommandTyped, RunningKnows, StepsAreDone, CommitSteps, ReportedMeansPublished,
         SkippedMeansNothing, EditsOf, TrunkIsLeftAlone, CommitIsSummarised

(* While the repository is left alone, it stays sound.                     *)
LEMMA RepositoryStays == RepositoryIsSound /\ UNCHANGED repository => RepositoryIsSound'
BY DEF repository, RepositoryIsSound, EveryEditIsKept, Made

(* The user edits, and others close requests, whatever runs.               *)
LEMMA EditKeeps == GitIInv /\ Edit => GitIInv'
<1> SUFFICES ASSUME GitIInv, Edit PROVE GitIInv'
  OBVIOUS
<1>1. /\ edits \in Nat /\ edits' = edits + 1 /\ work' = work \cup {edits + 1} /\ staged' = staged
      /\ head' = head /\ elsewhere' = elsewhere /\ branches' = branches /\ remote' = remote /\ origin' = origin
      /\ prs' = prs /\ command' = command /\ result' = result
  BY DEF Edit, GitIInv, RepositoryIsSound
<1>2. RepositoryIsSound'
  <2>1. Made' = Made \cup {edits + 1} /\ edits + 1 \in Made'
    BY <1>1 DEF Made
  <2>2. /\ work' \subseteq Made' /\ staged' \subseteq Made'
        /\ \A b \in DOMAIN branches' : branches'[b] \subseteq Made'
    BY <1>1, <2>1 DEF GitIInv, RepositoryIsSound
  <2>3. EveryEditIsKept'
    BY <1>1, <2>1 DEF GitIInv, RepositoryIsSound, EveryEditIsKept
  <2> QED
    BY <1>1, <2>2, <2>3 DEF GitIInv, RepositoryIsSound
<1>3. CommandTyped'
  BY <1>1 DEF GitIInv, CommandTyped, Commands
<1>4. command # Idle => edits + 1 \notin Asked /\ Asked' = Asked
  BY <1>1 DEF GitIInv, CommandTyped, Commands, Asked
<1>5. command.step # "idle" => command # Idle
  BY IdleIsIdle
<1> QED
  BY TellingTheTrunk, <1>1, <1>2, <1>3, <1>4, <1>5, IdleIsIdle
     DEF GitIInv, RunningKnows, StepsAreDone, ReportedMeansPublished,
         SkippedMeansNothing, EditsOf, TrunkIsLeftAlone, CommitIsSummarised

LEMMA CloseKeeps ==
  ASSUME GitIInv, NEW b, Close(b)
  PROVE  GitIInv'
<1>1. /\ edits' = edits /\ work' = work /\ staged' = staged
      /\ head' = head /\ elsewhere' = elsewhere /\ branches' = branches /\ remote' = remote /\ origin' = origin
      /\ DOMAIN prs' = DOMAIN prs /\ command' = command /\ result' = result
  BY DEF Close
<1> QED
  BY TellingTheTrunk, <1>1 DEF GitIInv, RepositoryIsSound, EveryEditIsKept, Made, CommandTyped, RunningKnows, StepsAreDone,
     ReportedMeansPublished, SkippedMeansNothing, EditsOf, TrunkIsLeftAlone, CommitIsSummarised, Asked

(* Branches and worktrees change between commands only.                    *)
LEMMA BetweenCommands ==
  ASSUME GitIInv, command = Idle, command' = command, RepositoryIsSound'
  PROVE  GitIInv'
BY IdleIsIdle DEF GitIInv, CommandTyped, RunningKnows, StepsAreDone, CommitSteps,
   ReportedMeansPublished, SkippedMeansNothing, EditsOf, TrunkIsLeftAlone, CommitIsSummarised

(* A new branch has what the one it was made from has.                     *)
LEMMA NewBranch ==
  ASSUME RepositoryIsSound, NEW b \in Names \cup {origin.trunk}, b \notin DOMAIN branches,
         branches' = Put(branches, b, branches[head]),
         UNCHANGED <<origin, edits, work, staged, remote, prs>>
  PROVE  /\ DOMAIN branches' = DOMAIN branches \cup {b} /\ branches'[b] = branches[head]
         /\ \A c \in DOMAIN branches : branches'[c] = branches[c]
         /\ EveryEditIsKept' /\ \A c \in DOMAIN branches' : branches'[c] \subseteq Made'
         /\ \A c \in DOMAIN remote' : remote'[c] \subseteq branches'[c]
<1>1. /\ DOMAIN branches' = DOMAIN branches \cup {b} /\ branches'[b] = branches[head]
      /\ \A c \in DOMAIN branches : branches'[c] = branches[c]
  <2> DEFINE p == Put(branches, b, branches[head])
  <2>1. /\ DOMAIN p = DOMAIN branches \cup {b} /\ p[b] = branches[head]
        /\ \A c \in DOMAIN branches : c # b => p[c] = branches[c]
    BY DEF Put
  <2>2. branches' = p
    OBVIOUS
  <2> HIDE DEF p
  <2> QED
    BY <2>1, <2>2
<1>2. Made' = Made /\ \A c \in DOMAIN branches' : branches'[c] \subseteq Made'
  BY <1>1 DEF RepositoryIsSound, Made
<1>3. EveryEditIsKept'
  BY <1>1, <1>2 DEF RepositoryIsSound, EveryEditIsKept
<1> QED
  BY <1>1, <1>2, <1>3 DEF RepositoryIsSound

LEMMA BranchesKeep ==
  ASSUME GitIInv, NEW b \in Names \cup {origin.trunk}, BranchCommand(b) \/ WorktreeAdd(b) \/ WorktreeRemove
  PROVE  GitIInv'
<1>1. command = Idle /\ command' = command /\ UNCHANGED <<origin, edits, work, staged, remote, prs>>
  BY DEF BranchCommand, WorktreeAdd, WorktreeRemove
<1>2. RepositoryIsSound
  BY DEF GitIInv
<1>3. CASE b \notin DOMAIN branches /\ branches' = Put(branches, b, branches[head])
  <2>1. /\ DOMAIN branches' = DOMAIN branches \cup {b} /\ Made' = Made
        /\ EveryEditIsKept' /\ \A c \in DOMAIN branches' : branches'[c] \subseteq Made'
        /\ \A c \in DOMAIN remote' : remote'[c] \subseteq branches'[c]
    BY <1>1, <1>2, <1>3, NewBranch DEF Made
  <2>2. /\ head' \in {head, b} /\ elsewhere' \subseteq elsewhere \cup {b}
        /\ head' \notin elsewhere'
    BY <1>2, <1>3 DEF BranchCommand, Creates, Switches, WorktreeAdd, WorktreeRemove, RepositoryIsSound
  <2>3. RepositoryIsSound'
    BY <1>1, <1>2, <2>1, <2>2 DEF RepositoryIsSound
  <2> QED
    BY <1>1, <2>3, BetweenCommands
<1>4. CASE branches' = branches
  <2>1. /\ head' \in DOMAIN branches /\ elsewhere' \subseteq DOMAIN branches
        /\ head' \notin elsewhere'
    <3>1. CASE BranchCommand(b)
      <4>1. CASE Creates(b)
        <5>1. DOMAIN Put(branches, b, branches[head]) = DOMAIN branches \cup {b}
          BY PutIs, Zenon
        <5> QED
          BY <1>4, <4>1, <5>1 DEF Creates
      <4>2. CASE Switches(b)
        BY <1>2, <3>1, <4>2 DEF BranchCommand, Switches, RepositoryIsSound
      <4> QED
        BY <3>1, <4>1, <4>2 DEF BranchCommand
    <3>2. CASE WorktreeAdd(b)
      <4>1. b \in DOMAIN branches
        <5>1. DOMAIN Put(branches, b, branches[head]) = DOMAIN branches \cup {b}
          BY PutIs, Zenon
        <5> QED
          BY <1>4, <3>2, <5>1 DEF WorktreeAdd
      <4> QED
        BY <1>2, <3>2, <4>1 DEF WorktreeAdd, RepositoryIsSound
    <3>3. CASE WorktreeRemove
      BY <1>2, <3>3 DEF WorktreeRemove, RepositoryIsSound
    <3> QED
      BY <3>1, <3>2, <3>3
  <2>2. EveryEditIsKept' /\ Made' = Made
    BY <1>1, <1>2, <1>4 DEF RepositoryIsSound, EveryEditIsKept, Made
  <2>3. RepositoryIsSound'
    BY <1>1, <1>2, <1>4, <2>1, <2>2 DEF RepositoryIsSound
  <2> QED
    BY <1>1, <2>3, BetweenCommands
<1> QED
  BY <1>3, <1>4 DEF BranchCommand, Creates, Switches, WorktreeAdd, WorktreeRemove

(* A command begins: what it remembers is what there is.                   *)
LEMMA BeginKeeps ==
  ASSUME GitIInv, NEW step \in {"commit.status", "publish.branch"},
         NEW name \in Names \cup {"none"}, NEW message \in {"none", "some"},
         step = "publish.branch" => name \in Names, Begin(step, name, message)
  PROVE  GitIInv'
<1>1. /\ command'.step = step /\ command'.name = name /\ command'.base = "none"
      /\ command'.at = [asked |-> edits, trunk |-> branches[origin.trunk], mine |-> branches[head], told |-> TrunkIsTold]
      /\ result' = "running" /\ UNCHANGED repository
  BY DEF Begin, Asks
<1>2. RepositoryIsSound'
  BY RepositoryStays DEF Begin, GitIInv
<1>3. command' \in Commands
  <2>1. /\ edits \in Nat /\ branches[origin.trunk] \in SUBSET Nat /\ branches[head] \in SUBSET Nat
        /\ {} \in SUBSET Nat /\ TrunkIsTold \in BOOLEAN
    BY TellingTheTrunk DEF GitIInv, RepositoryIsSound, Made
  <2>2. step \in Steps
    BY DEF Steps, CommitSteps
  <2> QED
    BY <2>1, <2>2 DEF Begin, Asks, Commands, Steps
<1>4. /\ branches'[head'] = command'.at.mine /\ branches'[origin'.trunk] = command'.at.trunk
      /\ command'.at.asked = edits' /\ edits' \in Nat
  BY <1>1 DEF repository, GitIInv, RepositoryIsSound
<1>5. command'.at.told = TrunkIsTold'
  BY <1>1, TellingTheTrunk DEF repository
<1> QED
  BY <1>1, <1>2, <1>3, <1>4, <1>5
     DEF GitIInv, CommandTyped, RunningKnows, StepsAreDone, CommitSteps, PublishSteps,
         ReportedMeansPublished, SkippedMeansNothing, EditsOf, TrunkIsLeftAlone, CommitIsSummarised

(* A command goes on or ends and leaves the repository alone.              *)
LEMMA StatusKeeps == GitIInv /\ (CommitStatus \/ PublishStatus) => GitIInv'
<1> SUFFICES ASSUME GitIInv, CommitStatus \/ PublishStatus PROVE GitIInv'
  OBVIOUS
<1>1. command \in Commands /\ command.at.asked <= edits
  BY RunningIsCommand DEF CommitStatus, PublishStatus, At
<1>2. RepositoryIsSound' /\ UNCHANGED repository
  BY RepositoryStays DEF CommitStatus, PublishStatus, GitIInv
<1>3. PICK s \in Steps : command' = [command EXCEPT !.step = s]
  BY DEF CommitStatus, PublishStatus, Go, Ends, Steps, CommitSteps, PublishSteps
<1>4. /\ command' \in Commands /\ command'.step = s
      /\ command'.name = command.name /\ command'.base = command.base /\ command'.at = command.at
  BY <1>1, <1>3, CommandGoes
<1>5. \/ command.step = "commit.status" /\ s = "commit.add" /\ result' = result
      \/ command.step = "commit.status" /\ s = "idle" /\ result' = "skipped"
      \/ command.step = "publish.status" /\ s = "publish.diff" /\ result' = result /\ work = {} /\ staged = {}
      \/ command.step = "publish.status" /\ s = "idle" /\ result' = "error"
      \/ command.step = "publish.status" /\ s = "publish.add" /\ result' = result
  <2>1. \A t : [command EXCEPT !.step = t].step = t
    BY <1>1 DEF Commands
  <2> QED
    BY <1>3, <1>4, <2>1 DEF CommitStatus, PublishStatus, At, Go, Ends, Dirty
<1>6. command.step # "idle" /\ command # Idle
  BY <1>5, IdleIsIdle
<1>7. /\ edits' = edits /\ work' = work /\ staged' = staged /\ head' = head /\ branches' = branches
      /\ remote' = remote /\ prs' = prs /\ origin' = origin
  BY <1>2 DEF repository
<1> QED
  BY TellingTheTrunk, <1>1, <1>2, <1>4, <1>5, <1>6, <1>7
     DEF GitIInv, CommandTyped, RunningKnows, StepsAreDone, CommitSteps, PublishSteps,
         ReportedMeansPublished, SkippedMeansNothing, EditsOf, TrunkIsLeftAlone, CommitIsSummarised, Asked

LEMMA QuietStepsKeep ==
  GitIInv /\ (Fails \/ CommitMessage \/ PublishDiff \/ PublishCreateFails \/ PublishView) => GitIInv'
<1> SUFFICES ASSUME GitIInv, Fails \/ CommitMessage \/ PublishDiff \/ PublishCreateFails \/ PublishView
             PROVE  GitIInv'
  OBVIOUS
<1>1. command \in Commands /\ command.at.asked <= edits /\ command.step # "idle" /\ command # Idle
  BY RunningIsCommand, IdleIsIdle DEF Fails, CommitMessage, PublishDiff, PublishCreateFails, PublishView, At
<1>2. RepositoryIsSound' /\ UNCHANGED repository
  BY RepositoryStays DEF Fails, CommitMessage, PublishDiff, PublishCreateFails, PublishView, GitIInv
<1>3. PICK s \in Steps : command' = [command EXCEPT !.step = s]
  BY DEF Fails, CommitMessage, PublishDiff, PublishCreateFails, PublishView, Go, Ends, Steps,
         CommitSteps, PublishSteps
<1>4. /\ command' \in Commands /\ command'.step = s
      /\ command'.name = command.name /\ command'.base = command.base /\ command'.at = command.at
      /\ command'.summary = command.summary
  BY <1>1, <1>3, CommandGoes
<1>5. \/ s = "idle" /\ result' = "error"
      \/ command.step = "commit.message" /\ s = "commit.commit" /\ result' = result
      \/ command.step = "publish.diff" /\ s = "publish.push" /\ result' = result
      \/ /\ command.step = "publish.diff" /\ s = "idle" /\ result' = "skipped"
         /\ branches[head] \subseteq EditsOf(command.base)
      \/ command.step = "publish.create" /\ s = "publish.view" /\ result' = result
      \/ command.step = "publish.view" /\ s = "idle" /\ result' = "existing" /\ head \in DOMAIN prs
  <2>1. \A t : [command EXCEPT !.step = t].step = t
    BY <1>1 DEF Commands
  <2> QED
    BY <1>3, <1>4, <2>1 DEF Fails, CommitMessage, PublishDiff, PublishCreateFails, PublishView, At, Go, Ends
<1>7. /\ edits' = edits /\ work' = work /\ staged' = staged /\ head' = head /\ branches' = branches
      /\ remote' = remote /\ prs' = prs /\ origin' = origin
  BY <1>2 DEF repository
<1> QED
  BY TellingTheTrunk, <1>1, <1>2, <1>4, <1>5, <1>7
     DEF GitIInv, CommandTyped, RunningKnows, StepsAreDone, CommitSteps, PublishSteps,
         ReportedMeansPublished, SkippedMeansNothing, EditsOf, TrunkIsLeftAlone, CommitIsSummarised, Asked

LEMMA ForgetKeeps == GitIInv /\ Forget => GitIInv'
<1> SUFFICES ASSUME GitIInv, Forget PROVE GitIInv'
  OBVIOUS
<1>1. command' = Idle /\ RepositoryIsSound'
  BY RepositoryStays DEF Forget, GitIInv
<1> QED
  BY <1>1, IdleIsIdle DEF GitIInv, CommandTyped, RunningKnows, StepsAreDone, CommitSteps,
     ReportedMeansPublished, SkippedMeansNothing, EditsOf, TrunkIsLeftAlone, CommitIsSummarised

(* git add takes all that is there, git commit all that is staged.         *)
LEMMA AddKeeps == GitIInv /\ (CommitAdd \/ PublishAdd) => GitIInv'
<1> SUFFICES ASSUME GitIInv, CommitAdd \/ PublishAdd PROVE GitIInv'
  OBVIOUS
<1>1. command \in Commands /\ command.at.asked <= edits /\ command.step # "idle" /\ command # Idle
      /\ result = "running"
  BY RunningIsCommand, IdleIsIdle DEF CommitAdd, PublishAdd, At
<1>2. /\ edits' = edits /\ work' = {} /\ staged' = staged \cup work /\ head' = head /\ branches' = branches
      /\ remote' = remote /\ prs' = prs /\ origin' = origin /\ elsewhere' = elsewhere /\ result' = result
  BY DEF CommitAdd, PublishAdd, AddAll, Go
<1>3. /\ command' \in Commands /\ command'.base = command.base /\ command'.at = command.at
      /\ \/ command.step = "commit.add" /\ command'.step = "commit.message" /\ command'.summary = staged'
         \/ command.step = "publish.add" /\ command'.step = "publish.commit"
  <2>1. CASE CommitAdd
    <3>1. staged \cup work \in SUBSET Nat
      BY DEF GitIInv, RepositoryIsSound, Made
    <3>2. command' = [command EXCEPT !.step = "commit.message", !.summary = staged \cup work]
      BY <2>1 DEF CommitAdd
    <3> QED
      BY <1>1, <1>2, <2>1, <3>1, <3>2 DEF CommitAdd, At, Commands, CommitSteps
  <2>2. CASE PublishAdd
    <3>1. "publish.commit" \in Steps
      BY DEF Steps, PublishSteps
    <3> QED
      BY <1>1, <2>2, <3>1, CommandGoes DEF PublishAdd, At, Go
  <2> QED
    BY <2>1, <2>2
<1>4. RepositoryIsSound'
  <2>1. Made' = Made /\ RepositoryIsSound /\ work' \subseteq Made /\ staged' \subseteq Made
    BY <1>2 DEF Made, GitIInv, RepositoryIsSound
  <2>2. EveryEditIsKept'
    BY <1>2, <2>1 DEF RepositoryIsSound, EveryEditIsKept
  <2> QED
    BY <1>2, <2>1, <2>2 DEF RepositoryIsSound
<1> QED
  BY <1>1, <1>2, <1>3, <1>4
     DEF GitIInv, CommandTyped, RunningKnows, StepsAreDone, CommitSteps, PublishSteps,
         ReportedMeansPublished, SkippedMeansNothing, EditsOf, TrunkIsLeftAlone, CommitIsSummarised, Asked

LEMMA CommitKeeps == GitIInv /\ (CommitCommit \/ PublishCommit) => GitIInv'
<1> SUFFICES ASSUME GitIInv, CommitCommit \/ PublishCommit PROVE GitIInv'
  OBVIOUS
<1>1. command \in Commands /\ command.at.asked <= edits /\ command.step # "idle" /\ command # Idle
      /\ result = "running"
  BY RunningIsCommand, IdleIsIdle DEF CommitCommit, PublishCommit, At
<1>2. /\ edits' = edits /\ work' = work /\ staged' = {} /\ head' = head
      /\ remote' = remote /\ prs' = prs /\ origin' = origin /\ elsewhere' = elsewhere
      /\ branches' = [branches EXCEPT ![head] = @ \cup staged]
  BY DEF CommitCommit, PublishCommit, CommitIndex
<1>3. /\ command' \in Commands /\ command'.base = command.base /\ command'.at = command.at
      /\ command'.summary = command.summary
      /\ \/ command.step = "commit.commit" /\ command'.step = "idle" /\ result' = "committed"
         \/ command.step = "publish.commit" /\ command'.step = "publish.diff" /\ result' = result
  <2>1. "publish.diff" \in Steps /\ "idle" \in Steps
    BY DEF Steps, PublishSteps
  <2>2. CASE CommitCommit
    BY <1>1, <2>1, <2>2, CommandGoes DEF CommitCommit, At, Ends
  <2>3. CASE PublishCommit
    BY <1>1, <2>1, <2>3, CommandGoes DEF PublishCommit, At, Go
  <2> QED
    BY <2>2, <2>3
<1>4. RepositoryIsSound
  BY DEF GitIInv
<1>5. /\ DOMAIN branches' = DOMAIN branches /\ branches'[head] = branches[head] \cup staged
      /\ \A b \in DOMAIN branches : b # head => branches'[b] = branches[b]
  BY <1>2, <1>4 DEF RepositoryIsSound
<1>6. RepositoryIsSound'
  <2>1. Made' = Made /\ \A b \in DOMAIN branches' : branches'[b] \subseteq Made
    BY <1>2, <1>4, <1>5 DEF RepositoryIsSound, Made
  <2>2. \A b \in DOMAIN remote' : remote'[b] \subseteq branches'[b]
    BY <1>2, <1>4, <1>5 DEF RepositoryIsSound
  <2>3. EveryEditIsKept'
    BY <1>2, <1>4, <1>5, <2>1 DEF RepositoryIsSound, EveryEditIsKept
  <2> QED
    BY <1>2, <1>4, <1>5, <2>1, <2>2, <2>3 DEF RepositoryIsSound
<1>7. TrunkIsLeftAlone'
  BY <1>2, <1>3, <1>4, <1>5, <1>1 DEF GitIInv, TrunkIsLeftAlone, RepositoryIsSound
<1>8. command.step = "commit.commit" => branches[head] = command.at.mine /\ staged = command.summary
                                         /\ work \cap Asked = {} /\ command.base = "none"
  BY DEF GitIInv, RunningKnows, StepsAreDone, CommitSteps
<1>9. Asked' = Asked
  BY <1>3 DEF Asked
<1> QED
  BY <1>1, <1>2, <1>3, <1>5, <1>6, <1>7, <1>8, <1>9
     DEF GitIInv, CommandTyped, RunningKnows, StepsAreDone, CommitSteps, PublishSteps,
         ReportedMeansPublished, SkippedMeansNothing, EditsOf, CommitIsSummarised

(* The branch is not the base from here on, nor the trunk if that is told. *)
LEMMA PublishBranchKeeps == GitIInv /\ PublishBranch => GitIInv'
<1> SUFFICES ASSUME GitIInv, PublishBranch PROVE GitIInv'
  OBVIOUS
<1>1. command \in Commands /\ command.at.asked <= edits /\ command.step = "publish.branch" /\ command # Idle
      /\ result = "running" /\ command.name \in Names /\ branches[origin.trunk] = command.at.trunk
      /\ command.at.told = TrunkIsTold
  BY RunningIsCommand, IdleIsIdle DEF PublishBranch, At, GitIInv, RunningKnows
<1>2. /\ command' \in Commands /\ command'.step = "publish.status" /\ command'.base = DefaultBranch
      /\ command'.at = command.at /\ result' = result
  <2>1. DefaultBranch \in Names \cup Trunks \cup {LastSegment[t] : t \in Trunks}
    BY DEF DefaultBranch, Recorded, ByName, GitIInv, RepositoryIsSound
  <2> QED
    BY <1>1, <2>1 DEF PublishBranch, Commands, PublishSteps
<1>3. UNCHANGED <<origin, edits, work, staged, elsewhere, remote, prs>>
  BY DEF PublishBranch
<1>4. RepositoryIsSound
  BY DEF GitIInv
<1>5. /\ RepositoryIsSound'
      /\ head' # DefaultBranch /\ branches'[origin.trunk] = branches[origin.trunk]
  <2>1. CASE head = DefaultBranch
    <3>1. /\ command.name \notin DOMAIN branches /\ head' = command.name
          /\ branches' = Put(branches, command.name, branches[head])
      BY <2>1 DEF PublishBranch, Creates
    <3>2. /\ DOMAIN branches' = DOMAIN branches \cup {command.name} /\ Made' = Made
          /\ \A c \in DOMAIN branches : branches'[c] = branches[c]
          /\ EveryEditIsKept' /\ \A c \in DOMAIN branches' : branches'[c] \subseteq Made'
          /\ \A c \in DOMAIN remote' : remote'[c] \subseteq branches'[c]
      BY <1>1, <1>3, <1>4, <3>1, NewBranch DEF Made
    <3>3. head' # DefaultBranch /\ branches'[origin.trunk] = branches[origin.trunk]
      BY <1>4, <2>1, <3>1, <3>2 DEF RepositoryIsSound
    <3>4. RepositoryIsSound'
      BY <1>1, <1>3, <1>4, <3>1, <3>2 DEF RepositoryIsSound
    <3> QED
      BY <3>3, <3>4
  <2>2. CASE head # DefaultBranch
    <3>1. UNCHANGED repository
      BY <2>2 DEF PublishBranch, repository
    <3> QED
      BY <1>4, <2>2, <3>1, RepositoryStays DEF repository
  <2> QED
    BY <2>1, <2>2
<1>6. command.at.told => DefaultBranch = origin.trunk
  BY <1>1, <1>4 DEF DefaultBranch, Recorded, ByName, TrunkIsTold, RepositoryIsSound
<1>7. TrunkIsLeftAlone'
  BY <1>1, <1>2, <1>3, <1>5, <1>6 DEF TrunkIsLeftAlone
<1> QED
  BY <1>1, <1>2, <1>3, <1>5, <1>7
     DEF GitIInv, CommandTyped, RunningKnows, StepsAreDone, CommitSteps, PublishSteps,
         ReportedMeansPublished, SkippedMeansNothing, EditsOf, CommitIsSummarised, Asked

LEMMA PublishPushKeeps == GitIInv /\ PublishPush => GitIInv'
<1> SUFFICES ASSUME GitIInv, PublishPush PROVE GitIInv'
  OBVIOUS
<1>1. command \in Commands /\ command.at.asked <= edits /\ command.step = "publish.push" /\ command # Idle
      /\ result = "running"
  BY RunningIsCommand, IdleIsIdle DEF PublishPush, At
<1>2. /\ command' \in Commands /\ command'.step = "publish.create" /\ command'.base = command.base
      /\ command'.at = command.at /\ result' = result
  <2>1. "publish.create" \in Steps
    BY DEF Steps, PublishSteps
  <2> QED
    BY <1>1, <2>1, CommandGoes DEF PublishPush, Go
<1>3. UNCHANGED <<origin, edits, work, staged, head, elsewhere, branches, prs>>
  BY DEF PublishPush
<1>4. /\ DOMAIN remote' = DOMAIN remote \cup {head} /\ remote'[head] = branches[head]
      /\ \A c \in DOMAIN remote : c # head => remote'[c] = remote[c]
  <2> DEFINE p == Put(remote, head, branches[head])
  <2>1. /\ DOMAIN p = DOMAIN remote \cup {head} /\ p[head] = branches[head]
        /\ \A c \in DOMAIN remote : c # head => p[c] = remote[c]
    BY DEF Put
  <2>2. remote' = p
    BY DEF PublishPush
  <2> HIDE DEF p
  <2> QED
    BY <2>1, <2>2
<1>5. RepositoryIsSound'
  BY <1>3, <1>4 DEF GitIInv, RepositoryIsSound, EveryEditIsKept, Made
<1> QED
  BY <1>1, <1>2, <1>3, <1>4, <1>5
     DEF GitIInv, CommandTyped, RunningKnows, StepsAreDone, CommitSteps, PublishSteps,
         ReportedMeansPublished, SkippedMeansNothing, EditsOf, TrunkIsLeftAlone, CommitIsSummarised, Asked

LEMMA PublishCreateKeeps == GitIInv /\ PublishCreate => GitIInv'
<1> SUFFICES ASSUME GitIInv, PublishCreate PROVE GitIInv'
  OBVIOUS
<1>1. command \in Commands /\ command.at.asked <= edits /\ command.step = "publish.create" /\ command # Idle
      /\ result = "running"
  BY RunningIsCommand, IdleIsIdle DEF PublishCreate, At
<1>2. /\ command' \in Commands /\ command'.step = "idle" /\ command'.base = command.base
      /\ command'.at = command.at /\ result' = "created"
  <2>1. "idle" \in Steps
    BY DEF Steps
  <2> QED
    BY <1>1, <2>1, CommandGoes DEF PublishCreate, Ends
<1>3. UNCHANGED <<origin, edits, work, staged, head, elsewhere, branches, remote>>
  BY DEF PublishCreate
<1>4. DOMAIN prs' = DOMAIN prs \cup {head}
  BY DEF PublishCreate, Put
<1>5. head \in DOMAIN remote
  BY <1>1 DEF GitIInv, StepsAreDone
<1>6. RepositoryIsSound'
  BY <1>3, <1>4, <1>5 DEF GitIInv, RepositoryIsSound, EveryEditIsKept, Made
<1> QED
  BY <1>1, <1>2, <1>3, <1>4, <1>5, <1>6
     DEF GitIInv, CommandTyped, RunningKnows, StepsAreDone, CommitSteps, PublishSteps,
         ReportedMeansPublished, SkippedMeansNothing, EditsOf, TrunkIsLeftAlone, CommitIsSummarised, Asked

LEMMA GitIInvStep == GitIInv /\ [GitNext]_gitVars => GitIInv'
<1> SUFFICES ASSUME GitIInv, [GitNext]_gitVars PROVE GitIInv'
  OBVIOUS
<1>1. CASE Edit \/ (\E b \in Names : Close(b)) \/ Forget \/ Fails
  BY <1>1, EditKeeps, CloseKeeps, ForgetKeeps, QuietStepsKeep
<1>2. CASE (\E b \in Names \cup {origin.trunk} : BranchCommand(b) \/ WorktreeAdd(b)) \/ WorktreeRemove
  BY <1>2, BranchesKeep
<1>3. CASE StartCommit \/ (\E b \in Slugs, message \in {"none", "some"} : StartPublish(b, message))
  BY <1>3, BeginKeeps, GitWorkflowAssumption DEF StartCommit, StartPublish
<1>4. CASE CommitStatus \/ CommitAdd \/ CommitMessage \/ CommitCommit
  BY <1>4, StatusKeeps, AddKeeps, QuietStepsKeep, CommitKeeps
<1>5. CASE \/ PublishBranch \/ PublishStatus \/ PublishAdd \/ PublishCommit \/ PublishDiff
           \/ PublishPush \/ PublishCreate \/ PublishCreateFails \/ PublishView
  BY <1>5, PublishBranchKeeps, StatusKeeps, AddKeeps, CommitKeeps, QuietStepsKeep,
     PublishPushKeeps, PublishCreateKeeps
<1>6. CASE UNCHANGED gitVars
  BY <1>6, TellingTheTrunk DEF gitVars, GitIInv, RepositoryIsSound, EveryEditIsKept, Made, CommandTyped, RunningKnows,
     StepsAreDone, ReportedMeansPublished, SkippedMeansNothing, EditsOf, TrunkIsLeftAlone, CommitIsSummarised, Asked
<1> QED
  BY <1>1, <1>2, <1>3, <1>4, <1>5, <1>6 DEF GitNext

(* What the run checks of the git commands, for any names and any number   *)
(* of edits: a request that is reported shows all the user had, a skip     *)
(* means there was nothing to do, a commit is what its message was written *)
(* about, and no edit is lost, whichever process fails and whatever the    *)
(* user edits in between.  The branch merged into is never committed to,   *)
(* and it is the trunk where a record that is up to date and without a "/",*)
(* or else its name, tells which one that is (detect_default_branch).      *)
THEOREM GitCommandsTellTheTruth == GitSpec => []GitInv
<1>1. GitIInv => GitInv
  <2> SUFFICES ASSUME GitIInv PROVE GitInv
    OBVIOUS
  <2>1. NothingIsLost
    BY DEF GitIInv, RepositoryIsSound, EveryEditIsKept, Made, NothingIsLost
  <2> QED
    BY <2>1 DEF GitIInv, RepositoryIsSound, GitInv
<1>2. GitIInv /\ [GitNext]_gitVars => GitIInv'
  BY GitIInvStep
<1>3. QED
  BY <1>1, <1>2, GitIInvInit, PTL DEF GitSpec

-----------------------------------------------------------------------------
(* The line editor.                                                        *)
LEMMA LeastExists ==
  ASSUME NEW T, T \subseteq Nat, T # {}
  PROVE  \E x \in T : \A y \in T : x <= y
<1> DEFINE R == OpToRel(<, Nat)
<1>1. IsWellFoundedOn(R, Nat)
  BY NatLessThanWellFounded
<1>2. \A x, y \in Nat : y < x => <<y, x>> \in R
  BY DEF OpToRel
<1> HIDE DEF R
<1>3. PICK x \in T : \A y \in T : <<y, x>> \notin R
  BY <1>1, WFMin
<1>4. \A y \in T : x \in Nat /\ y \in Nat /\ ~(y < x)
  BY <1>2, <1>3, Zenon
<1> QED
  BY <1>4

(* A set of places in a text has a first and a last.                       *)
LEMMA FirstAndLast ==
  ASSUME NEW n \in Nat, NEW S \in SUBSET (0 .. n), S # {}
  PROVE  /\ Max(S) \in S /\ Min(S) \in S
         /\ \A k \in S : Min(S) <= k /\ k <= Max(S)
<1>0. S \subseteq Nat
  OBVIOUS
<1>1. PICK a \in S : \A y \in S : a <= y
  BY <1>0, LeastExists
<1> DEFINE U == {n - k : k \in S}
<1>2. U \subseteq Nat /\ U # {}
  OBVIOUS
<1> HIDE DEF U
<1>3. PICK u \in U : \A v \in U : u <= v
  BY <1>2, LeastExists
<1>4. PICK z \in S : u = n - z
  BY <1>3 DEF U
<1>5. \A y \in S : z >= y
  <2> TAKE y \in S
  <2>1. u <= n - y
    BY <1>3 DEF U
  <2> QED
    BY <1>4, <2>1
<1>6. Max(S) \in S /\ \A y \in S : Max(S) >= y
  <2>1. \E w \in S : \A y \in S : w >= y
    BY <1>5
  <2> QED
    BY <2>1 DEF Max
<1>7. Min(S) \in S /\ \A y \in S : Min(S) <= y
  BY <1>1 DEF Min
<1> QED
  BY <1>6, <1>7

LEMMA TextBounds ==
  ASSUME NEW t, IsText(t)
  PROVE  /\ Len(t) \in Nat /\ 0 \in Boundaries(t) /\ Len(t) \in Boundaries(t)
         /\ Boundaries(t) \subseteq 0 .. Len(t)
         /\ \A k \in 1 .. Len(t) : t[k] # "lead" => k \in Boundaries(t)
         /\ \A k \in 1 .. Len(t) : t[k] # "trail" => k - 1 \in Boundaries(t)
BY DEF IsText, Boundaries

LEMMA BoundariesAround ==
  ASSUME NEW t, IsText(t), NEW p \in 0 .. Len(t)
  PROVE  /\ PreviousBoundary(t, p) \in Boundaries(t)
         /\ PreviousBoundary(t, p) <= p /\ (p > 0 => PreviousBoundary(t, p) < p)
         /\ \A b \in Boundaries(t) : b < p => b <= PreviousBoundary(t, p)
         /\ NextBoundary(t, p) \in Boundaries(t)
         /\ p <= NextBoundary(t, p) /\ (p < Len(t) => p < NextBoundary(t, p))
<1> DEFINE before == {0} \cup {b \in Boundaries(t) : b < p}
           after == {b \in Boundaries(t) : b > p}
<1>1. before \in SUBSET (0 .. Len(t)) /\ before # {} /\ after \in SUBSET (0 .. Len(t))
  BY TextBounds
<1>2. Max(before) \in before /\ \A k \in before : k <= Max(before)
  BY <1>1, TextBounds, FirstAndLast
<1>3. /\ PreviousBoundary(t, p) \in Boundaries(t)
      /\ PreviousBoundary(t, p) <= p /\ (p > 0 => PreviousBoundary(t, p) < p)
      /\ \A b \in Boundaries(t) : b < p => b <= PreviousBoundary(t, p)
  BY <1>1, <1>2, TextBounds DEF PreviousBoundary
<1>4. CASE p < Len(t)
  <2>1. Len(t) \in after
    BY <1>4, TextBounds
  <2>2. Min(after) \in after
    BY <1>1, <2>1, TextBounds, FirstAndLast
  <2> QED
    BY <1>3, <1>4, <2>2, TextBounds DEF NextBoundary
<1>5. CASE p >= Len(t)
  BY <1>3, <1>5, TextBounds DEF NextBoundary
<1> QED
  BY <1>4, <1>5, TextBounds

LEMMA LinesAreBounded ==
  ASSUME NEW t, IsText(t), NEW p \in 0 .. Len(t)
  PROVE  /\ LineStart(t, p) \in Boundaries(t) /\ LineStart(t, p) \in 0 .. p
         /\ LineStart(t, p) = 0 \/ t[LineStart(t, p)] = NL
         /\ LineEnd(t, p) \in Boundaries(t) /\ LineEnd(t, p) \in p .. Len(t)
         /\ LineEnd(t, p) = Len(t) \/ t[LineEnd(t, p) + 1] = NL
<1> DEFINE starts == {0} \cup {k \in 1 .. p : t[k] = NL}
           ends == {Len(t)} \cup {k \in p .. Len(t) - 1 : t[k + 1] = NL}
<1>1. starts \in SUBSET (0 .. Len(t)) /\ ends \in SUBSET (0 .. Len(t)) /\ starts # {} /\ ends # {}
  BY TextBounds
<1>2. Max(starts) \in starts /\ Min(ends) \in ends
  BY <1>1, TextBounds, FirstAndLast
<1>3. LineStart(t, p) \in starts /\ LineEnd(t, p) \in ends
  BY <1>2 DEF LineStart, LineEnd
<1>4. NL # "lead" /\ NL # "trail"
  BY DEF NL
<1>5. /\ LineStart(t, p) \in Boundaries(t) /\ LineStart(t, p) \in 0 .. p
      /\ LineStart(t, p) = 0 \/ t[LineStart(t, p)] = NL
  BY <1>3, <1>4, TextBounds
<1>6. /\ LineEnd(t, p) \in p .. Len(t)
      /\ LineEnd(t, p) = Len(t) \/ (LineEnd(t, p) < Len(t) /\ t[LineEnd(t, p) + 1] = NL)
  BY <1>3, TextBounds
<1>7. LineEnd(t, p) \in Boundaries(t)
  <2>1. CASE LineEnd(t, p) = Len(t)
    BY <2>1, TextBounds
  <2>2. CASE LineEnd(t, p) < Len(t) /\ t[LineEnd(t, p) + 1] = NL
    <3>1. LineEnd(t, p) + 1 \in 1 .. Len(t) /\ (LineEnd(t, p) + 1) - 1 = LineEnd(t, p)
      BY <1>6, <2>2, TextBounds
    <3> QED
      BY <1>4, <2>2, <3>1, TextBounds
  <2> QED
    BY <1>6, <2>1, <2>2
<1> QED
  BY <1>5, <1>6, <1>7

(* A set of places has a member for each column it is long enough for.     *)
LEMMA ColumnsAreTaken ==
  ASSUME NEW n \in Nat, NEW S \in SUBSET (0 .. n), NEW column \in Nat, column < Cardinality(S)
  PROVE  \E b \in S : Cardinality({a \in S : a < b}) = column
<1> DEFINE Before(b) == {a \in S : a < b}
           low == {b \in S : Cardinality(Before(b)) <= column}
<1>0. \A k \in S : k \in Nat
  OBVIOUS
<1>1. IsFiniteSet(S) /\ Cardinality(S) \in Nat
  <2>1. IsFiniteSet(0 .. n)
    BY FS_Interval
  <2> QED
    BY <2>1, FS_Subset, FS_CardinalityType
<1>2. \A b : IsFiniteSet(Before(b)) /\ Cardinality(Before(b)) \in Nat
  <2> SUFFICES ASSUME NEW b
               PROVE  IsFiniteSet(Before(b)) /\ Cardinality(Before(b)) \in Nat
    OBVIOUS
  <2>1. Before(b) \in SUBSET S
    OBVIOUS
  <2> HIDE DEF Before
  <2> QED
    BY <1>1, <2>1, FS_Subset, FS_CardinalityType
<1>3. S # {}
  BY FS_EmptySet
<1>4. low # {}
  <2>1. PICK first \in S : \A k \in S : first <= k
    BY <1>3, FirstAndLast
  <2>2. Before(first) = {}
    <3>1. \A a \in S : ~(a < first)
      BY <1>0, <2>1
    <3> QED
      BY <3>1, Zenon
  <2>3. Cardinality(Before(first)) = 0
    BY <2>2, FS_EmptySet
  <2> QED
    BY <2>1, <2>3
<1>5. low \in SUBSET (0 .. n)
  OBVIOUS
<1>6. Max(low) \in low /\ \A k \in low : k <= Max(low)
  <2> HIDE DEF low
  <2> QED
    BY <1>4, <1>5, FirstAndLast
<1>7. PICK m : m = Max(low)
  OBVIOUS
<1>8. m \in S /\ m \in Nat /\ Cardinality(Before(m)) <= column /\ \A k \in low : k <= m
  BY <1>0, <1>6, <1>7
<1>9. CASE Cardinality(Before(m)) < column
  <2> DEFINE above == {b \in S : b > m}
             upTo == Before(m) \cup {m}
  <2>1. m \notin Before(m)
    BY <1>8
  <2>2. Cardinality(upTo) = Cardinality(Before(m)) + 1 /\ IsFiniteSet(upTo)
    <3> HIDE DEF Before
    <3> QED
      BY <1>2, <2>1, FS_AddElement
  <2>3. upTo = {b \in S : b <= m}
    <3>1. \A b \in S : b <= m <=> b < m \/ b = m
      BY <1>0, <1>8
    <3> QED
      BY <1>8, <3>1, Zenon
  <2>4. above # {}
    <3>1. SUFFICES ASSUME above = {}
                   PROVE  FALSE
      OBVIOUS
    <3>2. S = upTo
      <4>1. \A k \in S : k > m \/ k <= m
        BY <1>0, <1>8
      <4> QED
        BY <2>3, <3>1, <4>1, Zenon
    <3>3. Cardinality(S) = Cardinality(Before(m)) + 1
      BY <2>2, <3>2
    <3> QED
      BY <1>1, <1>2, <1>9, <3>3
  <2>5. Min(above) \in above /\ \A k \in above : Min(above) <= k
    <3>1. above \in SUBSET (0 .. n)
      OBVIOUS
    <3> HIDE DEF above
    <3> QED
      BY <2>4, <3>1, FirstAndLast
  <2>6. PICK next : next = Min(above)
    OBVIOUS
  <2>7. next \in S /\ next \in Nat /\ next > m /\ \A k \in S : k > m => next <= k
    BY <1>0, <2>5, <2>6
  <2>8. Before(next) = upTo
    <3>1. \A k \in S : k < next <=> k <= m
      BY <1>0, <1>8, <2>7
    <3> QED
      BY <2>3, <3>1, Zenon
  <2>9. Cardinality(Before(next)) <= column
    <3>1. Cardinality(Before(next)) = Cardinality(Before(m)) + 1
      BY <2>2, <2>8
    <3> HIDE DEF Before
    <3> QED
      BY <1>2, <1>9, <3>1
  <2>10. next \in low
    BY <2>7, <2>9
  <2>11. next <= m
    BY <1>8, <2>10
  <2> QED
    BY <1>8, <2>7, <2>11
<1>10. CASE ~(Cardinality(Before(m)) < column)
  <2>1. \A k \in Nat : k <= column => k < column \/ k = column
    OBVIOUS
  <2> QED
    BY <1>2, <1>8, <1>10, <2>1, Zenon
<1> QED
  BY <1>9, <1>10, Zenon

LEMMA CountsAreNatural ==
  ASSUME NEW n \in Nat, NEW S \in SUBSET (0 .. n)
  PROVE  Cardinality(S) \in Nat
<1>1. IsFiniteSet(0 .. n)
  BY FS_Interval
<1> QED
  BY <1>1, FS_Subset, FS_CardinalityType

LEMMA ColumnsAreBoundaries ==
  ASSUME NEW t, IsText(t), NEW start, NEW end \in Boundaries(t), NEW column \in Nat
  PROVE  AtColumn(t, start, end, column) \in Boundaries(t)
<1> DEFINE inLine == {b \in Boundaries(t) : b \in start .. end}
<1>1. inLine \in SUBSET (0 .. Len(t)) /\ Len(t) \in Nat
  BY TextBounds
<1>2. Cardinality(inLine) \in Nat
  <2> HIDE DEF inLine
  <2> QED
    BY <1>1, CountsAreNatural
<1>3. CASE column >= Cardinality(inLine)
  BY <1>3 DEF AtColumn
<1>4. CASE column < Cardinality(inLine)
  <2>1. \E b \in inLine : Cardinality({a \in inLine : a < b}) = column
    <3> HIDE DEF inLine
    <3> QED
      BY <1>1, <1>4, ColumnsAreTaken
  <2>2. (CHOOSE b \in inLine : Cardinality({a \in inLine : a < b}) = column) \in inLine
    <3> HIDE DEF inLine
    <3> QED
      BY <2>1
  <2>3. AtColumn(t, start, end, column) = CHOOSE b \in inLine : Cardinality({a \in inLine : a < b}) = column
    <3>1. ~(column >= Cardinality(inLine))
      BY <1>2, <1>4
    <3> QED
      BY <3>1, Zenon DEF AtColumn
  <2> QED
    BY <2>2, <2>3
<1> QED
  BY <1>2, <1>3, <1>4

LEMMA LinesUpAndDown ==
  ASSUME NEW t, IsText(t), NEW p \in Boundaries(t), NEW down \in BOOLEAN
  PROVE  Vertical(t, p, down) \in Boundaries(t)
<1>1. p \in 0 .. Len(t) /\ Len(t) \in Nat
  BY TextBounds
<1> DEFINE start == LineStart(t, p)
           below == LineEnd(t, p) + 1
           column == Cardinality({b \in Boundaries(t) : b \in start .. p - 1})
<1>2. start \in 0 .. p /\ (start = 0 \/ t[start] = NL) /\ LineEnd(t, p) \in p .. Len(t)
  BY <1>1, LinesAreBounded
<1>3. column \in Nat
  <2>1. {b \in Boundaries(t) : b \in start .. p - 1} \in SUBSET (0 .. Len(t))
    BY TextBounds
  <2> QED
    BY <1>1, <2>1, CountsAreNatural
<1>4. CASE down
  <2>1. CASE LineEnd(t, p) = Len(t)
    BY <1>4, <2>1 DEF Vertical
  <2>2. CASE LineEnd(t, p) # Len(t)
    <3>1. below \in 0 .. Len(t)
      BY <1>1, <1>2, <2>2
    <3>2. LineEnd(t, below) \in Boundaries(t)
      BY <3>1, LinesAreBounded
    <3>3. AtColumn(t, below, LineEnd(t, below), column) \in Boundaries(t)
      <4> HIDE DEF below, column
      <4> QED
        BY <1>3, <3>2, ColumnsAreBoundaries
    <3>4. Vertical(t, p, down) = AtColumn(t, below, LineEnd(t, below), column)
      BY <1>4, <2>2, Zenon DEF Vertical
    <3> QED
      BY <3>3, <3>4
  <2> QED
    BY <2>1, <2>2
<1>5. CASE ~down
  <2>1. CASE start = 0
    BY <1>5, <2>1 DEF Vertical
  <2>2. CASE start # 0
    <3>1. t[start] # "trail" /\ start \in 1 .. Len(t)
      BY <1>1, <1>2, <2>2 DEF NL
    <3>2. start - 1 \in Boundaries(t)
      BY <3>1, TextBounds
    <3>3. AtColumn(t, LineStart(t, start - 1), start - 1, column) \in Boundaries(t)
      <4> HIDE DEF start, column
      <4> QED
        BY <1>3, <3>2, ColumnsAreBoundaries
    <3>4. Vertical(t, p, down) = AtColumn(t, LineStart(t, start - 1), start - 1, column)
      BY <1>5, <2>2, Zenon DEF Vertical
    <3> QED
      BY <3>3, <3>4
  <2> QED
    BY <2>1, <2>2
<1> QED
  BY <1>4, <1>5

(* What is put between two places of a text leaves it a text.              *)
LEMMA SpliceIsText ==
  ASSUME NEW t, IsText(t), NEW x, IsText(x),
         NEW from \in Boundaries(t), NEW to \in Boundaries(t), from <= to
  PROVE  /\ IsText(Splice(t, from, to, x))
         /\ Len(Splice(t, from, to, x)) = Len(t) - (to - from) + Len(x)
         /\ \A k \in 1 .. from : Splice(t, from, to, x)[k] = t[k]
         /\ \A k \in 1 .. Len(x) : Splice(t, from, to, x)[from + k] = x[k]
         /\ from \in Boundaries(Splice(t, from, to, x))
         /\ from + Len(x) \in Boundaries(Splice(t, from, to, x))
<1>1. from \in 0 .. Len(t) /\ to \in 0 .. Len(t) /\ Len(t) \in Nat /\ Len(x) \in Nat
  BY TextBounds
<1> DEFINE left == SubSeq(t, 1, from)
           right == SubSeq(t, to + 1, Len(t))
           z == Splice(t, from, to, x)
<1>2. t \in Seq(Bytes) /\ x \in Seq(Bytes)
  BY DEF IsText
<1>3. /\ left \in Seq(Bytes) /\ Len(left) = from
      /\ \A k \in 1 .. from : left[k] = t[k]
  BY <1>1, <1>2
<1>4. /\ right \in Seq(Bytes) /\ Len(right) = Len(t) - to
      /\ \A k \in 1 .. Len(t) - to : right[k] = t[to + k]
  BY <1>1, <1>2
<1>5. z = left \o x \o right
  BY DEF Splice
<1> HIDE DEF left, right, z
<1>6. z \in Seq(Bytes) /\ Len(z) = from + Len(x) + (Len(t) - to)
  <2>1. left \o x \in Seq(Bytes) /\ Len(left \o x) = from + Len(x)
    BY <1>1, <1>2, <1>3, ConcatProperties
  <2>2. z \in Seq(Bytes) /\ Len(z) = Len(left \o x) + Len(right)
    BY <1>4, <1>5, <2>1, ConcatProperties
  <2> QED
    BY <1>4, <2>1, <2>2
<1>7. /\ \A k \in 1 .. from : z[k] = t[k]
      /\ \A k \in 1 .. Len(x) : z[from + k] = x[k]
      /\ \A k \in 1 .. Len(t) - to : z[from + Len(x) + k] = t[to + k]
  BY <1>1, <1>2, <1>3, <1>4, <1>5
<1>8. IsText(z)
  <2>1. SUFFICES ASSUME NEW k \in 0 .. Len(z)
                 PROVE  (k > 0 /\ z[k] = "lead") <=> (k < Len(z) /\ z[k + 1] = "trail")
    BY <1>6 DEF IsText
  <2>2. /\ (from > 0 /\ t[from] = "lead") <=> (from < Len(t) /\ t[from + 1] = "trail")
        /\ (to > 0 /\ t[to] = "lead") <=> (to < Len(t) /\ t[to + 1] = "trail")
        /\ from = Len(t) \/ t[from + 1] # "trail"
        /\ to = Len(t) \/ t[to + 1] # "trail"
    BY <1>1 DEF IsText, Boundaries
  <2>3. /\ (Len(x) > 0 => x[1] # "trail" /\ x[Len(x)] # "lead")
    BY <1>1 DEF IsText
  <2>4. /\ from > 0 => z[from] # "lead"
        /\ Len(x) > 0 => z[from + 1] # "trail" /\ z[from + Len(x)] # "lead"
        /\ Len(t) - to > 0 => z[from + Len(x) + 1] # "trail"
    BY <1>1, <1>7, <2>2, <2>3
  <2>5. CASE k < from
    <3>1. (k > 0 /\ t[k] = "lead") <=> (k < Len(t) /\ t[k + 1] = "trail")
      BY <1>1, <2>5 DEF IsText
    <3>2. k > 0 => z[k] = t[k]
      BY <1>1, <1>7, <2>5
    <3>3. z[k + 1] = t[k + 1]
      BY <1>1, <1>7, <2>5
    <3> QED
      BY <1>1, <1>6, <2>5, <3>1, <3>2, <3>3
  <2>6. CASE k = from
    BY <1>1, <1>6, <2>4, <2>6
  <2>7. CASE k > from /\ k < from + Len(x)
    <3>1. PICK j \in 1 .. Len(x) - 1 : k = from + j
      <4>1. k - from \in 1 .. Len(x) - 1 /\ k = from + (k - from)
        BY <1>1, <2>7
      <4> QED
        BY <4>1
    <3>2. x[j] = "lead" <=> x[j + 1] = "trail"
      BY <1>1 DEF IsText
    <3>3. z[k] = x[j] /\ z[from + (j + 1)] = x[j + 1]
      <4>1. j \in 1 .. Len(x) /\ j + 1 \in 1 .. Len(x)
        BY <1>1
      <4> QED
        BY <1>7, <3>1, <4>1, Zenon
    <3>4. from + (j + 1) = k + 1 /\ k > 0 /\ k < Len(z)
      BY <1>1, <1>6, <3>1
    <3> QED
      BY <3>2, <3>3, <3>4
  <2>8. CASE k = from + Len(x)
    BY <1>1, <1>6, <2>4, <2>8
  <2>9. CASE k > from + Len(x)
    <3>1. PICK j \in 1 .. Len(t) - to : k = from + Len(x) + j
      <4>1. k - (from + Len(x)) \in 1 .. Len(t) - to /\ k = from + Len(x) + (k - (from + Len(x)))
        BY <1>1, <1>6, <2>9
      <4> QED
        BY <4>1
    <3>2. t[to + j] = "lead" <=> (to + j < Len(t) /\ t[to + j + 1] = "trail")
      BY <1>1 DEF IsText
    <3>3. z[k] = t[to + j]
      BY <1>7, <3>1
    <3>4. k < Len(z) <=> to + j < Len(t)
      BY <1>1, <1>6, <3>1
    <3>5. to + j < Len(t) => z[k + 1] = t[to + j + 1]
      <4>1. SUFFICES ASSUME to + j < Len(t)
                     PROVE  z[k + 1] = t[to + j + 1]
        OBVIOUS
      <4>2. j + 1 \in 1 .. Len(t) - to /\ from + Len(x) + (j + 1) = k + 1 /\ to + (j + 1) = to + j + 1
        BY <1>1, <3>1, <4>1
      <4> QED
        BY <1>7, <4>2
    <3>6. k > 0
      BY <1>1, <2>9
    <3> QED
      BY <3>2, <3>3, <3>4, <3>5, <3>6
  <2> QED
    BY <1>1, <2>5, <2>6, <2>7, <2>8, <2>9
<1>9. from \in Boundaries(z) /\ from + Len(x) \in Boundaries(z)
  <2>1. from = Len(t) \/ t[from + 1] # "trail"
    BY DEF Boundaries
  <2>2. to = Len(t) \/ t[to + 1] # "trail"
    BY DEF Boundaries
  <2>3. Len(x) > 0 => x[1] # "trail"
    BY <1>1 DEF IsText
  <2>4. Len(t) - to > 0 => z[from + Len(x) + 1] # "trail"
    BY <1>1, <1>7, <2>2
  <2>5. Len(x) > 0 => z[from + 1] # "trail"
    BY <1>1, <1>7, <2>3
  <2> QED
    BY <1>1, <1>6, <2>4, <2>5 DEF Boundaries
<1> QED
  BY <1>1, <1>6, <1>7, <1>8, <1>9 DEF z

LEMMA PieceIsText ==
  ASSUME NEW t, IsText(t), NEW from \in Boundaries(t), NEW to \in Boundaries(t), from <= to
  PROVE  IsText(SubSeq(t, from + 1, to)) /\ Len(SubSeq(t, from + 1, to)) = to - from
<1>1. from \in 0 .. Len(t) /\ to \in 0 .. Len(t) /\ Len(t) \in Nat
  BY TextBounds
<1> DEFINE z == SubSeq(t, from + 1, to)
<1>2. t \in Seq(Bytes)
  BY DEF IsText
<1>3. z \in Seq(Bytes) /\ Len(z) = to - from /\ \A k \in 1 .. to - from : z[k] = t[from + k]
  BY <1>1, <1>2
<1> HIDE DEF z
<1>4. SUFFICES ASSUME NEW k \in 0 .. Len(z)
               PROVE  (k > 0 /\ z[k] = "lead") <=> (k < Len(z) /\ z[k + 1] = "trail")
  BY <1>3 DEF IsText, z
<1>5. from + k \in 0 .. Len(t) /\ k \in Nat /\ k <= to - from
  BY <1>1, <1>3
<1>6. /\ from + k > 0 /\ t[from + k] = "lead" <=> from + k < Len(t) /\ t[from + k + 1] = "trail"
      /\ from = Len(t) \/ t[from + 1] # "trail"
      /\ to = Len(t) \/ t[to + 1] # "trail"
  BY <1>5 DEF IsText, Boundaries
<1>7. k > 0 => z[k] = t[from + k]
  BY <1>1, <1>3, <1>5
<1>8. k < Len(z) => z[k + 1] = t[from + k + 1]
  <2>1. k < Len(z) => k + 1 \in 1 .. to - from /\ from + (k + 1) = from + k + 1
    BY <1>1, <1>3, <1>5
  <2> QED
    BY <1>3, <2>1
<1>9. CASE k = 0
  BY <1>1, <1>3, <1>6, <1>8, <1>9
<1>10. CASE k > 0 /\ k < Len(z)
  BY <1>1, <1>3, <1>6, <1>7, <1>8, <1>10
<1>11. CASE k > 0 /\ k = Len(z)
  <2>1. from + k = to
    BY <1>1, <1>3, <1>11
  <2>2. ~(from + k < Len(t) /\ t[from + k + 1] = "trail")
    BY <1>6, <2>1, <1>1
  <2> QED
    BY <1>1, <1>3, <1>6, <1>7, <1>11, <2>2
<1> QED
  BY <1>3, <1>5, <1>9, <1>10, <1>11

LEMMA JoinIsText ==
  ASSUME NEW x, IsText(x), NEW y, IsText(y)
  PROVE  IsText(x \o y) /\ Len(x \o y) = Len(x) + Len(y)
<1>1. x \in Seq(Bytes) /\ y \in Seq(Bytes)
  BY DEF IsText
<1>2. 0 \in Boundaries(y) /\ Len(y) \in Nat
  BY TextBounds
<1>3. IsText(Splice(y, 0, 0, x)) /\ Len(Splice(y, 0, 0, x)) = Len(y) - (0 - 0) + Len(x)
  BY <1>2, SpliceIsText
<1>4. SubSeq(y, 1, 0) = <<>> /\ SubSeq(y, 1, Len(y)) = y
  BY <1>1
<1>5. Splice(y, 0, 0, x) = x \o y
  BY <1>1, <1>4 DEF Splice
<1> QED
  BY <1>1, <1>2, <1>3, <1>5, ConcatProperties

LEMMA SmallTexts ==
  /\ IsText(<<>>) /\ IsText(<<NL>>) /\ IsText(<<":">>)
  /\ \A x \in Characters : IsText(x)
<1>1. IsText(<<>>) /\ IsText(<<NL>>) /\ IsText(<<":">>) /\ IsText(<<"v">>) /\ IsText(<<"/">>)
  <2>1. SUFFICES ASSUME NEW b \in {NL, ":", "v", "/"}
                 PROVE  IsText(<<b>>)
    <3>1. IsText(<<>>)
      BY DEF IsText
    <3> QED
      BY <2>1, <3>1
  <2>2. b \in Bytes /\ b # "lead" /\ b # "trail"
    BY DEF Bytes, NL
  <2>3. <<b>> \in Seq(Bytes) /\ Len(<<b>>) = 1 /\ <<b>>[1] = b
    BY <2>2
  <2> DEFINE w == <<b>>
  <2> HIDE DEF w
  <2>4. \A k \in 0 .. 1 : k = 0 \/ k = 1
    OBVIOUS
  <2>5. w \in Seq(Bytes) /\ Len(w) = 1 /\ w[1] = b
    BY <2>3 DEF w
  <2>6. IsText(w)
    BY <2>2, <2>4, <2>5 DEF IsText
  <2> QED
    BY <2>6 DEF w
<1>2. IsText(<<"lead", "trail">>)
  <2> DEFINE w == <<"lead", "trail">>
  <2>1. w \in Seq(Bytes) /\ Len(w) = 2 /\ w[1] = "lead" /\ w[2] = "trail"
    BY DEF Bytes
  <2> HIDE DEF w
  <2>2. \A k \in 0 .. 2 : k = 0 \/ k = 1 \/ k = 2
    OBVIOUS
  <2>3. IsText(w)
    BY <2>1, <2>2 DEF IsText
  <2> QED
    BY <2>3 DEF w
<1> QED
  BY <1>1, <1>2 DEF Characters, Wide

(* What dd takes, and what p puts back.                                    *)
LEMMA RangesAreBounded ==
  ASSUME NEW t, IsText(t), NEW p \in Boundaries(t)
  PROVE  /\ LineRange(t, p).start \in Boundaries(t) /\ LineRange(t, p).end \in Boundaries(t)
         /\ LineRange(t, p).cut \in Boundaries(t)
         /\ LineRange(t, p).start <= LineRange(t, p).end /\ LineRange(t, p).cut <= LineRange(t, p).end
         /\ InsertionPoint(t, p) \in Boundaries(t)
<1> DEFINE a == LineStart(t, p)
           e == LineEnd(t, p)
           z == IF e < Len(t) THEN e + 1 ELSE e
<1>1. p \in 0 .. Len(t) /\ Len(t) \in Nat
  BY TextBounds
<1>2. /\ a \in Boundaries(t) /\ a \in 0 .. p /\ (a = 0 \/ t[a] = NL)
      /\ e \in Boundaries(t) /\ e \in p .. Len(t) /\ (e = Len(t) \/ t[e + 1] = NL)
  BY <1>1, LinesAreBounded
<1> HIDE DEF a, e
<1>3. NL # "lead" /\ NL # "trail"
  BY DEF NL
<1>4. z \in Boundaries(t) /\ z >= a
  BY <1>1, <1>2, <1>3, TextBounds
<1>5. a > 0 => a - 1 \in Boundaries(t)
  BY <1>1, <1>2, <1>3, TextBounds
<1>6. /\ LineRange(t, p).start = a /\ LineRange(t, p).end = z
      /\ LineRange(t, p).cut = IF z = Len(t) /\ a > 0 THEN a - 1 ELSE a
  BY DEF LineRange, a, e
<1>7. InsertionPoint(t, p) \in Boundaries(t)
  BY <1>1, <1>2, <1>3, TextBounds DEF InsertionPoint, e
<1> HIDE DEF z
<1>8. z \in Nat /\ a \in Nat
  BY <1>1, <1>2, <1>4, TextBounds
<1> QED
  BY <1>2, <1>4, <1>5, <1>6, <1>7, <1>8

LEMMA InsertionIsText ==
  ASSUME NEW t, NEW place, NEW line, IsText(line), line # <<>>
  PROVE  IsText(Insertion(t, place, line)) /\ Len(Insertion(t, place, line)) > 0
<1> DEFINE before == IF place = Len(t) /\ t # <<>> /\ ~EndsLine(t) THEN <<NL>> \o line ELSE line
<1>1. Len(line) \in Nat /\ Len(line) > 0
  BY DEF IsText
<1>2. IsText(<<NL>> \o line) /\ Len(<<NL>> \o line) = 1 + Len(line)
  BY SmallTexts, JoinIsText
<1>3. IsText(before) /\ Len(before) > 0
  BY <1>1, <1>2
<1>4. Insertion(t, place, line) = before \/ Insertion(t, place, line) = Append(before, NL)
  BY DEF Insertion
<1> HIDE DEF before
<1>5. before \in Seq(Bytes) /\ NL \in Bytes
  BY <1>3 DEF IsText, NL, Bytes
<1>6. Append(before, NL) = before \o <<NL>>
  BY <1>5
<1>7. IsText(before \o <<NL>>) /\ Len(before \o <<NL>>) = Len(before) + 1
  BY <1>3, SmallTexts, JoinIsText
<1>8. Len(before) \in Nat
  BY <1>5
<1>9. Len(Append(before, NL)) > 0
  BY <1>6, <1>7, <1>8
<1>10. IsText(Append(before, NL))
  BY <1>6, <1>7, Zenon
<1> QED
  BY <1>3, <1>4, <1>9, <1>10, Zenon

-----------------------------------------------------------------------------
(* What holds of a session by itself: its texts are texts, and its places  *)
(* are between characters.                                                 *)
Sessions ==
  [text : Seq(Bytes), cursor : Nat, mode : {"plain", "insert", "normal", "visual", "command"},
   pending : {"none", "d", "y"}, anchor : Nat, command : Seq(Bytes), commandCursor : Nat,
   index : Nat, backup : Seq(Bytes)]
Sound(s) ==
  /\ s \in Sessions
  /\ IsText(s.text) /\ IsText(s.command) /\ IsText(s.backup)
  /\ s.cursor \in Boundaries(s.text)
  /\ s.mode = "command" => s.command[1] = ":" /\ s.commandCursor \in Boundaries(s.command) \ {0}

(* The history and what was yanked are texts too: they become the text.    *)
TextsAreWhole ==
  /\ Sound(session) /\ IsText(yank)
  /\ history \in Seq(Seq(Bytes)) /\ \A k \in DOMAIN history : IsText(history[k])

EditorIInv ==
  /\ TextsAreWhole /\ vim \in BOOLEAN
  /\ EditorTypeOK /\ CursorsAreBetweenCharacters /\ PanicNeedsDeletion /\ AnchorIsBetweenCharacters
  /\ DraftIsKept

LEMMA FreshIsSound ==
  ASSUME NEW enabled \in BOOLEAN
  PROVE  /\ Sound(Fresh(enabled)) /\ Fresh(enabled).mode \in {"plain", "insert"}
         /\ (Fresh(enabled).mode # "plain" => enabled)
         /\ Fresh(enabled).index = 0 /\ Fresh(enabled).pending = "none"
<1>1. IsText(<<>>) /\ <<>> \in Seq(Bytes) /\ 0 \in Boundaries(<<>>)
  BY SmallTexts, TextBounds DEF IsText
<1>2. Fresh(enabled) \in Sessions
  BY <1>1 DEF Fresh, Sessions
<1> QED
  BY <1>1, <1>2 DEF Fresh, Sound

LEMMA ActiveIsText ==
  ASSUME NEW s, Sound(s)
  PROVE  /\ IsText(Active(s)) /\ Place(s) \in Boundaries(Active(s))
         /\ (Commanding(s) => Place(s) # 0 /\ Active(s)[1] = ":")
BY DEF Sound, Active, Place, Commanding

LEMMA EditedIsSound ==
  ASSUME NEW s, Sound(s), NEW t, IsText(t), NEW p \in Boundaries(t),
         Commanding(s) => p # 0 /\ t[1] = ":"
  PROVE  /\ Sound(Edited(s, t, p))
         /\ Edited(s, t, p).mode = s.mode /\ Edited(s, t, p).pending = s.pending
         /\ Edited(s, t, p).anchor = s.anchor /\ Edited(s, t, p).index = s.index
         /\ Edited(s, t, p).backup = s.backup
         /\ Edited(s, t, p).text = IF Commanding(s) THEN s.text ELSE t
<1>1. p \in Nat /\ t \in Seq(Bytes)
  BY TextBounds DEF IsText
<1>2. s \in Sessions
  BY DEF Sound
<1>3. CASE Commanding(s)
  <2>1. Edited(s, t, p) = [s EXCEPT !.command = t, !.commandCursor = p]
    BY <1>3 DEF Edited
  <2> DEFINE r == [s EXCEPT !.command = t, !.commandCursor = p]
  <2>2. r \in Sessions
    BY <1>1, <1>2 DEF Sessions
  <2>3. /\ r.text = s.text /\ r.cursor = s.cursor /\ r.mode = s.mode /\ r.pending = s.pending
        /\ r.anchor = s.anchor /\ r.index = s.index /\ r.backup = s.backup
        /\ r.command = t /\ r.commandCursor = p
    BY <1>2 DEF Sessions
  <2> HIDE DEF r
  <2>4. Sound(r)
    BY <1>3, <2>2, <2>3 DEF Sound, Commanding
  <2> QED
    BY <1>3, <2>1, <2>3, <2>4 DEF r
<1>4. CASE ~Commanding(s)
  <2>1. Edited(s, t, p) = [s EXCEPT !.text = t, !.cursor = p]
    BY <1>4 DEF Edited
  <2> DEFINE r == [s EXCEPT !.text = t, !.cursor = p]
  <2>2. r \in Sessions
    BY <1>1, <1>2 DEF Sessions
  <2>3. /\ r.text = t /\ r.cursor = p /\ r.mode = s.mode /\ r.pending = s.pending
        /\ r.anchor = s.anchor /\ r.index = s.index /\ r.backup = s.backup
        /\ r.command = s.command /\ r.commandCursor = s.commandCursor
    BY <1>2 DEF Sessions
  <2> HIDE DEF r
  <2>4. Sound(r)
    BY <1>4, <2>2, <2>3 DEF Sound, Commanding
  <2> QED
    BY <1>4, <2>1, <2>3, <2>4 DEF r
<1> QED
  BY <1>3, <1>4

(* A key that goes on with s keeps the invariant when s is sound and its   *)
(* anchor is between characters, or the text became shorter under it.      *)
LEMMA KeyKeeps ==
  ASSUME EditorIInv, NEW s, Continue(s), Sound(s),
         vim' = vim, history' = history, IsText(yank'),
         s.index \in 0 .. Len(history), s.index # 0 => s.backup = draft',
         s.mode # "plain" => vim,
         s.mode = "visual" /\ hazard = "none" =>
           \/ s.anchor \in Boundaries(s.text)
           \/ session.mode = "visual" /\ Len(s.text) < Len(session.text)
  PROVE  EditorIInv'
<1>1. session' = s
  BY DEF Continue
<1>2. TextsAreWhole'
  BY <1>1 DEF EditorIInv, TextsAreWhole
<1>3. vim' \in BOOLEAN
  BY DEF EditorIInv
<1>4. EditorTypeOK' /\ CursorsAreBetweenCharacters'
  BY <1>1 DEF Sound, Sessions, EditorTypeOK, CursorsAreBetweenCharacters, Commanding
<1>5. PanicNeedsDeletion'
  BY <1>1 DEF Continue, PanicNeedsDeletion, RenderPanics
<1>6. AnchorIsBetweenCharacters'
  BY <1>1 DEF Continue, AnchorIsBetweenCharacters
<1>7. DraftIsKept'
  BY <1>1 DEF DraftIsKept
<1> QED
  BY <1>2, <1>3, <1>4, <1>5, <1>6, <1>7 DEF EditorIInv

(* A key that leaves text, history and anchor as they are only has to      *)
(* leave the session sound.                                                *)
LEMMA QuietKeyKeeps ==
  ASSUME EditorIInv, NEW s, Continue(s), Sound(s), UNCHANGED <<vim, history, draft>>, IsText(yank'),
         s.index = session.index, s.backup = session.backup,
         s.mode # "plain" => session.mode # "plain",
         s.mode = "visual" => session.mode = "visual" /\ s.anchor = session.anchor /\ s.text = session.text
  PROVE  EditorIInv'
<1>1. s.index \in 0 .. Len(history) /\ (s.index # 0 => s.backup = draft') /\ (s.mode # "plain" => vim)
  BY DEF EditorIInv, EditorTypeOK, DraftIsKept
<1>2. s.mode = "visual" /\ hazard = "none" => s.anchor \in Boundaries(s.text)
  BY DEF EditorIInv, AnchorIsBetweenCharacters
<1> QED
  BY <1>1, <1>2, KeyKeeps

LEMMA EnteredIsSound ==
  ASSUME NEW s, Sound(s), NEW mode \in {"plain", "insert", "normal", "visual"}
  PROVE  /\ Sound(Enter(s, mode)) /\ Sound([Enter(s, mode) EXCEPT !.anchor = s.cursor])
         /\ Enter(s, mode).mode = mode
         /\ Enter(s, mode).index = s.index /\ Enter(s, mode).backup = s.backup
         /\ Enter(s, mode).text = s.text /\ Enter(s, mode).cursor = s.cursor
<1>1. s \in Sessions
  BY DEF Sound
<1> DEFINE r == Enter(s, mode)
           v == [r EXCEPT !.anchor = s.cursor]
<1>2. r \in Sessions
  BY <1>1 DEF Sessions, Enter
<1>3. /\ r.text = s.text /\ r.cursor = s.cursor /\ r.mode = mode
      /\ r.index = s.index /\ r.backup = s.backup /\ r.command = s.command
  BY <1>1 DEF Sessions, Enter
<1> HIDE DEF r
<1>4. v \in Sessions
  BY <1>1, <1>2 DEF Sessions
<1>5. v.text = r.text /\ v.cursor = r.cursor /\ v.mode = r.mode /\ v.backup = r.backup /\ v.command = r.command
  BY <1>2 DEF Sessions
<1> HIDE DEF v
<1>6. Sound(r)
  BY <1>2, <1>3 DEF Sound
<1>7. Sound(v)
  BY <1>3, <1>4, <1>5 DEF Sound
<1> QED
  BY <1>3, <1>6, <1>7 DEF r, v

LEMMA LeftIsSound ==
  ASSUME NEW s, Sound(s)
  PROVE  /\ Sound(LeaveCommand(s)) /\ LeaveCommand(s).mode = "normal"
         /\ LeaveCommand(s).index = s.index /\ LeaveCommand(s).backup = s.backup
<1> DEFINE r == Enter(s, "normal")
           v == LeaveCommand(s)
<1>1. /\ Sound(r) /\ r.mode = "normal" /\ r.index = s.index /\ r.backup = s.backup
  BY EnteredIsSound
<1>2. v = [r EXCEPT !.command = <<>>, !.commandCursor = 0]
  BY DEF LeaveCommand
<1> HIDE DEF r, v
<1>3. r \in Sessions /\ IsText(<<>>) /\ <<>> \in Seq(Bytes)
  BY <1>1, SmallTexts DEF Sound, IsText
<1>4. v \in Sessions
  BY <1>2, <1>3 DEF Sessions
<1>5. v.text = r.text /\ v.cursor = r.cursor /\ v.mode = r.mode /\ v.index = r.index /\ v.backup = r.backup
      /\ v.command = <<>>
  BY <1>2, <1>3 DEF Sessions
<1>6. Sound(v)
  BY <1>1, <1>3, <1>4, <1>5 DEF Sound
<1> QED
  BY <1>1, <1>5, <1>6 DEF v

LEMMA PlacedIsSound ==
  ASSUME NEW s, Sound(s), NEW p \in Boundaries(s.text), NEW pending \in {"none", "d", "y"}
  PROVE  /\ Sound([s EXCEPT !.cursor = p])
         /\ [s EXCEPT !.cursor = p].index = s.index /\ [s EXCEPT !.cursor = p].backup = s.backup
         /\ [s EXCEPT !.cursor = p].mode = s.mode /\ [s EXCEPT !.cursor = p].anchor = s.anchor
         /\ [s EXCEPT !.cursor = p].text = s.text
         /\ Sound([s EXCEPT !.pending = pending])
         /\ [s EXCEPT !.pending = pending].index = s.index /\ [s EXCEPT !.pending = pending].backup = s.backup
         /\ [s EXCEPT !.pending = pending].mode = s.mode
         /\ [s EXCEPT !.pending = pending].anchor = s.anchor
         /\ [s EXCEPT !.pending = pending].text = s.text
<1> DEFINE r == [s EXCEPT !.cursor = p]
           v == [s EXCEPT !.pending = pending]
<1>1. s \in Sessions /\ p \in Nat
  BY TextBounds DEF Sound
<1>2. /\ r \in Sessions
      /\ r.text = s.text /\ r.cursor = p /\ r.mode = s.mode /\ r.index = s.index /\ r.backup = s.backup
      /\ r.command = s.command /\ r.commandCursor = s.commandCursor /\ r.anchor = s.anchor
  BY <1>1 DEF Sessions
<1>3. /\ v \in Sessions
      /\ v.text = s.text /\ v.cursor = s.cursor /\ v.mode = s.mode /\ v.index = s.index /\ v.backup = s.backup
      /\ v.command = s.command /\ v.commandCursor = s.commandCursor /\ v.anchor = s.anchor
  BY <1>1 DEF Sessions
<1> HIDE DEF r, v
<1>4. Sound(r)
  BY <1>2 DEF Sound
<1>5. Sound(v)
  BY <1>3 DEF Sound
<1> QED
  BY <1>2, <1>3, <1>4, <1>5 DEF r, v

LEMMA InsertKeeps ==
  ASSUME EditorIInv, NEW x, IsText(x), Insert(x)
  PROVE  EditorIInv'
<1> DEFINE t == Active(session)
           p == Place(session)
           z == Splice(t, p, p, x)
<1>1. Sound(session) /\ IsText(yank)
  BY DEF EditorIInv, TextsAreWhole
<1>2. IsText(t) /\ p \in Boundaries(t) /\ (Commanding(session) => p # 0 /\ t[1] = ":")
  BY <1>1, ActiveIsText
<1>3. p \in Nat /\ Len(x) \in Nat
  BY <1>2, TextBounds
<1>4. Continue(Edited(session, z, p + Len(x))) /\ UNCHANGED <<history, yank, vim, draft>>
      /\ session.mode \in {"plain", "insert", "command"}
  BY DEF Insert, Typing
<1> HIDE DEF t, p
<1>5. IsText(z) /\ p + Len(x) \in Boundaries(z) /\ \A k \in 1 .. p : z[k] = t[k]
  BY <1>2, <1>3, SpliceIsText
<1>6. Commanding(session) => p + Len(x) # 0 /\ z[1] = ":"
  BY <1>2, <1>3, <1>5
<1> HIDE DEF z
<1> DEFINE s == Edited(session, z, p + Len(x))
<1>7. /\ Sound(s) /\ s.mode = session.mode /\ s.index = session.index /\ s.backup = session.backup
  BY <1>1, <1>5, <1>6, EditedIsSound
<1>8. Continue(s) /\ IsText(yank')
  BY <1>1, <1>4
<1> HIDE DEF s
<1> QED
  BY <1>4, <1>7, <1>8, QuietKeyKeeps

LEMMA BackspaceKeeps ==
  ASSUME EditorIInv, Backspace
  PROVE  EditorIInv'
<1> DEFINE t == Active(session)
           p == Place(session)
           start == PreviousBoundary(t, p)
           z == Splice(t, start, p, <<>>)
<1>1. Sound(session) /\ IsText(yank)
  BY DEF EditorIInv, TextsAreWhole
<1>2. IsText(t) /\ p \in Boundaries(t) /\ (Commanding(session) => p # 0 /\ t[1] = ":")
  BY <1>1, ActiveIsText
<1>3. p \in 0 .. Len(t)
  BY <1>2, TextBounds
<1>4. UNCHANGED <<history, yank, vim, draft>> /\ IsText(yank')
  BY <1>1 DEF Backspace
<1>5. CASE session.mode \in {"normal", "visual"}
  <2> DEFINE s == [session EXCEPT !.cursor = start]
  <2>1. Continue(s)
    BY <1>5 DEF Backspace, Commanding
  <2>2. t = session.text
    BY <1>5 DEF Active, Commanding
  <2>3. start \in Boundaries(session.text)
    BY <1>2, <1>3, <2>2, BoundariesAround
  <2> HIDE DEF start
  <2>4. /\ Sound(s) /\ s.mode = session.mode /\ s.index = session.index /\ s.backup = session.backup
        /\ s.anchor = session.anchor /\ s.text = session.text
    BY <1>1, <2>3, PlacedIsSound
  <2> HIDE DEF s
  <2> QED
    BY <1>4, <2>1, <2>4, QuietKeyKeeps
<1>6. CASE Commanding(session) /\ session.commandCursor <= 1
  <2> DEFINE s == LeaveCommand(session)
  <2>1. Continue(s)
    BY <1>6 DEF Backspace, Commanding
  <2>2. Sound(s) /\ s.mode = "normal" /\ s.index = session.index /\ s.backup = session.backup
    BY <1>1, LeftIsSound
  <2> HIDE DEF s
  <2>3. session.mode # "plain"
    BY <1>6 DEF Commanding
  <2> QED
    BY <1>4, <2>1, <2>2, <2>3, QuietKeyKeeps
<1>7. CASE session.mode \notin {"normal", "visual"} /\ ~(Commanding(session) /\ session.commandCursor <= 1)
  <2> DEFINE s == Edited(session, z, start)
  <2> DEFINE c == CASE session.mode \in {"normal", "visual"}          -> [session EXCEPT !.cursor = start]
                    [] Commanding(session) /\ session.commandCursor <= 1 -> LeaveCommand(session)
                    [] OTHER -> s
  <2>1. Continue(s)
    <3>1. Continue(c)
      BY DEF Backspace
    <3> HIDE DEF s, t, p, start, z
    <3>2. c = s
      BY <1>7
    <3> QED
      BY <3>1, <3>2, Zenon
  <2>2. /\ start \in Boundaries(t) /\ start <= p
        /\ \A b \in Boundaries(t) : b < p => b <= start
    BY <1>2, <1>3, BoundariesAround
  <2>3. /\ IsText(z) /\ start \in Boundaries(z) /\ \A k \in 1 .. start : z[k] = t[k]
    <3> HIDE DEF t, p, start
    <3> QED
      BY <1>2, <2>2, SmallTexts, SpliceIsText
  <2>4. Commanding(session) => start # 0 /\ z[1] = ":"
    <3> SUFFICES ASSUME Commanding(session)
                 PROVE  start # 0 /\ z[1] = ":"
      OBVIOUS
    <3>1. p > 1 /\ Len(t) \in Nat
      <4>1. ~(p <= 1)
        BY <1>7 DEF Place
      <4> QED
        BY <1>2, <4>1, TextBounds
    <3>2. 1 \in Boundaries(t)
      <4>1. 1 \in 1 .. Len(t) /\ t[1] # "lead"
        BY <1>2, <1>3, <3>1
      <4> HIDE DEF t
      <4> QED
        BY <1>2, <4>1, TextBounds
    <3>3. start \in Nat /\ start >= 1
      <4> HIDE DEF t, p, start
      <4> QED
        BY <1>2, <2>2, <3>1, <3>2, TextBounds
    <3> HIDE DEF t, p, start, z
    <3> QED
      BY <1>2, <2>3, <3>3
  <2> HIDE DEF z, start
  <2>5. /\ Sound(s) /\ s.mode = session.mode /\ s.index = session.index /\ s.backup = session.backup
    BY <1>1, <2>3, <2>4, EditedIsSound
  <2> HIDE DEF s
  <2>6. s.mode # "visual"
    BY <1>7, <2>5
  <2> QED
    BY <1>4, <2>1, <2>5, <2>6, QuietKeyKeeps
<1> QED
  BY <1>5, <1>6, <1>7 DEF Commanding

LEMMA DeleteKeeps ==
  ASSUME EditorIInv, Delete
  PROVE  EditorIInv'
<1> DEFINE t == Active(session)
           p == Place(session)
           next == NextBoundary(t, p)
           z == Splice(t, p, next, <<>>)
           s == Edited(session, z, p)
<1>1. Sound(session) /\ IsText(yank)
  BY DEF EditorIInv, TextsAreWhole
<1>2. IsText(t) /\ p \in Boundaries(t) /\ (Commanding(session) => p # 0 /\ t[1] = ":")
  BY <1>1, ActiveIsText
<1>3. p \in 0 .. Len(t) /\ Len(t) \in Nat
  BY <1>2, TextBounds
<1>4. UNCHANGED <<history, yank, vim, draft>> /\ IsText(yank') /\ Continue(s)
  BY <1>1 DEF Delete
<1>5. next \in Boundaries(t) /\ p <= next /\ (p < Len(t) => p < next)
  BY <1>2, <1>3, BoundariesAround
<1>6. next \in 0 .. Len(t)
  BY <1>2, <1>5, TextBounds
<1>7. /\ IsText(z) /\ p \in Boundaries(z) /\ \A k \in 1 .. p : z[k] = t[k]
      /\ Len(z) = Len(t) - (next - p) + Len(<<>>)
  <2> HIDE DEF t, p, next
  <2> QED
    BY <1>2, <1>5, SmallTexts, SpliceIsText
<1>8. Commanding(session) => p # 0 /\ z[1] = ":"
  <2> HIDE DEF t, p, z
  <2> QED
    BY <1>2, <1>3, <1>7
<1>9. p < Len(t) \/ z = t
  <2>1. SUFFICES ASSUME p = Len(t)
                 PROVE  z = t
    BY <1>3
  <2>2. next = Len(t)
    BY <1>3, <1>5, <1>6, <2>1
  <2>3. t \in Seq(Bytes)
    BY <1>2 DEF IsText
  <2> HIDE DEF t, p, next
  <2>4. z = SubSeq(t, 1, Len(t)) \o <<>> \o SubSeq(t, Len(t) + 1, Len(t))
    BY <2>1, <2>2 DEF Splice
  <2>5. SubSeq(t, 1, Len(t)) = t /\ SubSeq(t, Len(t) + 1, Len(t)) = <<>>
    BY <2>3
  <2> QED
    BY <2>3, <2>4, <2>5
<1>10. Len(z) < Len(t) \/ z = t
  <2>1. Len(<<>>) = 0
    OBVIOUS
  <2> HIDE DEF t, p, next, z
  <2> QED
    BY <1>3, <1>5, <1>6, <1>7, <1>9, <2>1
<1> HIDE DEF z
<1>11. /\ Sound(s) /\ s.mode = session.mode /\ s.index = session.index /\ s.backup = session.backup
       /\ s.anchor = session.anchor /\ s.text = IF Commanding(session) THEN session.text ELSE z
  <2> HIDE DEF p
  <2> QED
    BY <1>1, <1>7, <1>8, EditedIsSound
<1> HIDE DEF s
<1>12. s.mode = "visual" /\ hazard = "none" =>
         \/ s.anchor \in Boundaries(s.text)
         \/ session.mode = "visual" /\ Len(s.text) < Len(session.text)
  <2> SUFFICES ASSUME s.mode = "visual", hazard = "none"
               PROVE  \/ s.anchor \in Boundaries(s.text)
                      \/ session.mode = "visual" /\ Len(s.text) < Len(session.text)
    OBVIOUS
  <2>1. session.mode = "visual" /\ ~Commanding(session) /\ t = session.text
    BY <1>11 DEF Commanding, Active
  <2>2. session.anchor \in Boundaries(session.text)
    BY <2>1 DEF EditorIInv, AnchorIsBetweenCharacters
  <2> QED
    BY <1>10, <1>11, <2>1, <2>2
<1>13. s.index \in 0 .. Len(history) /\ (s.index # 0 => s.backup = draft') /\ (s.mode # "plain" => vim)
  BY <1>4, <1>11 DEF EditorIInv, EditorTypeOK, DraftIsKept
<1> QED
  BY <1>4, <1>11, <1>12, <1>13, KeyKeeps

(* A completion goes on after the text, so that a boundary of the text is  *)
(* one of the completion.                                                  *)
LEMMA LongerTextKeepsBoundaries ==
  ASSUME NEW t, IsText(t), t # <<>>, NEW c, IsText(c), Len(c) >= Len(t), \A k \in 1 .. Len(t) : c[k] = t[k]
  PROVE  Boundaries(t) \subseteq Boundaries(c)
<1>1. Len(t) \in Nat /\ Len(c) \in Nat /\ t \in Seq(Bytes) /\ c \in Seq(Bytes) /\ Len(t) > 0
  BY DEF IsText
<1>3. t[Len(t)] # "lead"
  BY <1>1 DEF IsText
<1>4. Len(t) \in Boundaries(c)
  <2>1. Len(t) \in 1 .. Len(c) /\ c[Len(t)] # "lead"
    BY <1>1, <1>3
  <2> QED
    BY <2>1, TextBounds
<1>5. SUFFICES ASSUME NEW b \in Boundaries(t), b # Len(t)
               PROVE  b \in Boundaries(c)
  BY <1>4, Zenon
<1>6. b \in 0 .. Len(t) - 1 /\ t[b + 1] # "trail"
  <2>1. b \in 0 .. Len(t) /\ (b = Len(t) \/ t[b + 1] # "trail")
    BY DEF Boundaries
  <2> QED
    BY <1>1, <1>5, <2>1
<1>7. c[b + 1] # "trail"
  BY <1>1, <1>6
<1> QED
  BY <1>1, <1>6, <1>7 DEF Boundaries

LEMMA CompleteKeeps ==
  ASSUME EditorIInv, Complete
  PROVE  EditorIInv'
<1> DEFINE t == session.text
           fits == {k \in DOMAIN Completions : Completions[k] # t /\ Len(Completions[k]) >= Len(t)
                                                /\ SubSeq(Completions[k], 1, Len(t)) = t}
<1>1. Sound(session) /\ IsText(yank) /\ IsText(t)
  BY DEF EditorIInv, TextsAreWhole, Sound
<1>2. /\ ~Commanding(session) /\ t # <<>> /\ fits # {}
      /\ Continue(Edited(session, Completions[Min(fits)], Len(Completions[Min(fits)])))
      /\ UNCHANGED <<history, yank, vim, draft>>
  BY DEF Complete
<1>3. Min(fits) \in fits
  <2>1. Len(Completions) \in Nat /\ DOMAIN Completions = 1 .. Len(Completions)
    BY LineEditorAssumption
  <2>2. fits \in SUBSET (0 .. Len(Completions))
    BY <2>1
  <2> HIDE DEF fits
  <2> QED
    BY <1>2, <2>1, <2>2, FirstAndLast
<1>4. PICK c : c = Completions[Min(fits)]
  OBVIOUS
<1>5. IsText(c) /\ Len(c) >= Len(t) /\ SubSeq(c, 1, Len(t)) = t
  BY <1>3, <1>4, LineEditorAssumption
<1> DEFINE s == Edited(session, c, Len(c))
<1>6. Continue(s) /\ IsText(yank')
  BY <1>1, <1>2, <1>4
<1> HIDE DEF fits
<1>7. Len(c) \in Boundaries(c)
  BY <1>5, TextBounds
<1>8. /\ Sound(s) /\ s.mode = session.mode /\ s.index = session.index /\ s.backup = session.backup
      /\ s.anchor = session.anchor /\ s.text = c
  BY <1>1, <1>2, <1>5, <1>7, EditedIsSound
<1> HIDE DEF s
<1>9. s.mode = "visual" /\ hazard = "none" => s.anchor \in Boundaries(s.text)
  <2> SUFFICES ASSUME s.mode = "visual", hazard = "none"
               PROVE  s.anchor \in Boundaries(s.text)
    OBVIOUS
  <2>1. session.anchor \in Boundaries(t)
    BY <1>8 DEF EditorIInv, AnchorIsBetweenCharacters
  <2>2. Boundaries(t) \subseteq Boundaries(c)
    <3>1. c \in Seq(Bytes) /\ t \in Seq(Bytes)
      BY <1>1, <1>5 DEF IsText
    <3>2. \A k \in 1 .. Len(t) : SubSeq(c, 1, Len(t))[k] = c[k]
      <4> HIDE DEF t
      <4> QED
        BY <1>5, <3>1
    <3>3. \A k \in 1 .. Len(t) : c[k] = t[k]
      BY <1>5, <3>2, Zenon
    <3> HIDE DEF t
    <3> QED
      BY <1>1, <1>2, <1>5, <3>3, LongerTextKeepsBoundaries
  <2> QED
    BY <1>8, <2>1, <2>2
<1>10. s.index \in 0 .. Len(history) /\ (s.index # 0 => s.backup = draft') /\ (s.mode # "plain" => vim)
  BY <1>2, <1>8 DEF EditorIInv, EditorTypeOK, DraftIsKept
<1>11. vim' = vim /\ history' = history
  BY <1>2
<1> QED
  BY <1>6, <1>8, <1>9, <1>10, <1>11, KeyKeeps

LEMMA MovesAreBoundaries ==
  ASSUME NEW s, Sound(s), NEW p \in Moves(s)
  PROVE  p \in Boundaries(Active(s)) /\ (Commanding(s) => p # 0)
<1> DEFINE t == Active(s)
           q == Place(s)
           back == Max({PreviousBoundary(t, q), Floor(s)})
<1>1. IsText(t) /\ q \in Boundaries(t) /\ (Commanding(s) => q # 0 /\ t[1] = ":")
  BY ActiveIsText
<1> HIDE DEF t, q
<1>2. q \in 0 .. Len(t) /\ Len(t) \in Nat /\ Boundaries(t) \subseteq 0 .. Len(t)
      /\ 0 \in Boundaries(t) /\ Len(t) \in Boundaries(t)
  BY <1>1, TextBounds
<1>3. /\ PreviousBoundary(t, q) \in Boundaries(t) /\ NextBoundary(t, q) \in Boundaries(t)
      /\ q <= NextBoundary(t, q)
  BY <1>1, <1>2, BoundariesAround
<1>4. LineStart(t, q) \in Boundaries(t) /\ LineEnd(t, q) \in Boundaries(t)
  BY <1>1, <1>2, LinesAreBounded
<1>5. Vertical(t, q, TRUE) \in Boundaries(t) /\ Vertical(t, q, FALSE) \in Boundaries(t)
  BY <1>1, LinesUpAndDown
<1>6. Commanding(s) => 1 \in Boundaries(t)
  <2> SUFFICES ASSUME Commanding(s)
               PROVE  1 \in Boundaries(t)
    OBVIOUS
  <2>1. 1 \in 1 .. Len(t) /\ t[1] # "lead"
    BY <1>1, <1>2
  <2> QED
    BY <1>1, <2>1, TextBounds
<1>7. Floor(s) \in Boundaries(t) /\ (Commanding(s) => Floor(s) = 1)
  BY <1>2, <1>6 DEF Floor
<1>8. back \in {PreviousBoundary(t, q), Floor(s)} /\ Floor(s) <= back
  <2>1. {PreviousBoundary(t, q), Floor(s)} \in SUBSET (0 .. Len(t))
    BY <1>2, <1>3, <1>7
  <2> QED
    BY <1>2, <2>1, FirstAndLast
<1>9. back \in Boundaries(t) /\ (Commanding(s) => back # 0)
  BY <1>2, <1>3, <1>7, <1>8
<1>10. NextBoundary(t, q) \in Nat /\ (Commanding(s) => NextBoundary(t, q) # 0 /\ Len(t) # 0)
  BY <1>1, <1>2, <1>3
<1> HIDE DEF back
<1>11. \/ p \in {back, NextBoundary(t, q)}
       \/ Commanding(s) /\ p \in {1, Len(t)}
       \/ ~Commanding(s) /\ p \in {LineStart(t, q), LineEnd(t, q)}
       \/ s.mode \in {"normal", "visual"} /\ p \in {Vertical(t, q, TRUE), Vertical(t, q, FALSE)}
  BY DEF Moves, back, t, q
<1>12. s.mode \in {"normal", "visual"} => ~Commanding(s)
  BY DEF Commanding
<1>13. p \in Boundaries(t) /\ (Commanding(s) => p # 0)
  <2>1. CASE p \in {back, NextBoundary(t, q)}
    BY <1>3, <1>9, <1>10, <2>1, Zenon
  <2>2. CASE Commanding(s) /\ p \in {1, Len(t)}
    BY <1>2, <1>6, <1>10, <2>2
  <2>3. CASE ~Commanding(s) /\ p \in {LineStart(t, q), LineEnd(t, q)}
    BY <1>4, <2>3, Zenon
  <2>4. CASE s.mode \in {"normal", "visual"} /\ p \in {Vertical(t, q, TRUE), Vertical(t, q, FALSE)}
    BY <1>5, <1>12, <2>4, Zenon
  <2> QED
    BY <1>11, <2>1, <2>2, <2>3, <2>4, Zenon
<1> QED
  BY <1>13 DEF t

LEMMA MoveKeeps ==
  ASSUME EditorIInv, Move
  PROVE  EditorIInv'
<1>1. Sound(session) /\ IsText(yank)
  BY DEF EditorIInv, TextsAreWhole
<1>2. PICK p \in Moves(session) : Continue(Edited(session, Active(session), p))
  BY DEF Move
<1>3. UNCHANGED <<history, yank, vim, draft>> /\ IsText(yank')
  BY <1>1 DEF Move
<1>4. IsText(Active(session)) /\ (Commanding(session) => Active(session)[1] = ":")
  BY <1>1, ActiveIsText
<1>5. p \in Boundaries(Active(session)) /\ (Commanding(session) => p # 0)
  BY <1>1, MovesAreBoundaries
<1> DEFINE s == Edited(session, Active(session), p)
<1>6. /\ Sound(s) /\ s.mode = session.mode /\ s.index = session.index /\ s.backup = session.backup
      /\ s.anchor = session.anchor
      /\ s.text = IF Commanding(session) THEN session.text ELSE Active(session)
  BY <1>1, <1>4, <1>5, EditedIsSound
<1>7. s.text = session.text
  BY <1>6 DEF Active
<1>8. Continue(s)
  BY <1>2
<1> HIDE DEF s
<1> QED
  BY <1>3, <1>6, <1>7, <1>8, QuietKeyKeeps

LEMMA MoveByLetterKeeps ==
  ASSUME EditorIInv, MoveByLetter
  PROVE  EditorIInv'
<1>1. Sound(session) /\ IsText(yank)
  BY DEF EditorIInv, TextsAreWhole
<1>2. session.mode = "normal" /\ Active(session) = session.text
  BY DEF MoveByLetter, Active, Commanding
<1>3. PICK p \in Moves(session) : Continue([session EXCEPT !.cursor = p, !.pending = "none"])
  BY DEF MoveByLetter
<1>4. UNCHANGED <<history, yank, vim, draft>> /\ IsText(yank')
  BY <1>1 DEF MoveByLetter
<1>5. p \in Boundaries(session.text)
  BY <1>1, <1>2, MovesAreBoundaries
<1> DEFINE r == [session EXCEPT !.cursor = p]
           s == [r EXCEPT !.pending = "none"]
<1>6. Sound(r) /\ r.mode = session.mode /\ r.index = session.index /\ r.backup = session.backup
  BY <1>1, <1>5, PlacedIsSound
<1>7. [session EXCEPT !.cursor = p, !.pending = "none"] = s
  OBVIOUS
<1> HIDE DEF r
<1>8. Sound(s) /\ s.mode = r.mode /\ s.index = r.index /\ s.backup = r.backup
  <2>1. "none" \in {"none", "d", "y"} /\ IsText(r.text) /\ r.cursor \in Boundaries(r.text)
    BY <1>6 DEF Sound
  <2> QED
    BY <1>6, <2>1, PlacedIsSound
<1>9. Continue(s)
  BY <1>3, <1>7
<1> HIDE DEF s
<1> QED
  BY <1>2, <1>4, <1>6, <1>8, <1>9, QuietKeyKeeps

LEMMA EscapeKeeps ==
  ASSUME EditorIInv, Escape
  PROVE  EditorIInv'
<1>1. Sound(session) /\ IsText(yank)
  BY DEF EditorIInv, TextsAreWhole
<1>2. UNCHANGED <<history, yank, vim, draft>> /\ IsText(yank')
  BY <1>1 DEF Escape
<1>3. CASE session.mode = "insert"
  <2> DEFINE b == PreviousBoundary(session.text, session.cursor)
             r == [session EXCEPT !.cursor = b]
             s == Enter(r, "normal")
  <2>1. Continue(Enter([session EXCEPT !.cursor = PreviousBoundary(session.text, @)], "normal"))
    BY <1>3 DEF Escape
  <2>2. b \in Boundaries(session.text)
    <3>1. IsText(session.text) /\ session.cursor \in 0 .. Len(session.text)
      BY <1>1, TextBounds DEF Sound
    <3> QED
      BY <3>1, BoundariesAround
  <2>3. Continue(s)
    <3>1. session \in Sessions
      BY <1>1 DEF Sound
    <3>2. [session EXCEPT !.cursor = PreviousBoundary(session.text, @)] = r
      BY <3>1 DEF Sessions
    <3> QED
      BY <2>1, <3>2
  <2> HIDE DEF b
  <2>4. Sound(r) /\ r.index = session.index /\ r.backup = session.backup
    BY <1>1, <2>2, PlacedIsSound
  <2> HIDE DEF r
  <2>5. Sound(s) /\ s.mode = "normal" /\ s.index = r.index /\ s.backup = r.backup
    BY <2>4, EnteredIsSound
  <2> HIDE DEF s
  <2> QED
    BY <1>2, <1>3, <2>3, <2>4, <2>5, QuietKeyKeeps
<1>4. CASE session.mode = "visual"
  <2> DEFINE s == Enter(session, "normal")
  <2>1. Continue(s)
    BY <1>4 DEF Escape
  <2>2. Sound(s) /\ s.mode = "normal" /\ s.index = session.index /\ s.backup = session.backup
    BY <1>1, EnteredIsSound
  <2> HIDE DEF s
  <2> QED
    BY <1>2, <1>4, <2>1, <2>2, QuietKeyKeeps
<1>5. CASE session.mode = "command"
  <2> DEFINE s == LeaveCommand(session)
  <2>1. Continue(s)
    BY <1>5 DEF Escape
  <2>2. Sound(s) /\ s.mode = "normal" /\ s.index = session.index /\ s.backup = session.backup
    BY <1>1, LeftIsSound
  <2> HIDE DEF s
  <2> QED
    BY <1>2, <1>5, <2>1, <2>2, QuietKeyKeeps
<1>6. CASE session.mode \notin {"insert", "visual", "command"}
  <2>1. Continue(session)
    BY <1>6 DEF Escape
  <2> QED
    BY <1>1, <1>2, <1>6, <2>1, QuietKeyKeeps
<1> QED
  BY <1>3, <1>4, <1>5, <1>6

LEMMA ChangeModeKeeps ==
  ASSUME EditorIInv, ChangeMode
  PROVE  EditorIInv'
<1>1. Sound(session) /\ IsText(yank) /\ session \in Sessions
  BY DEF EditorIInv, TextsAreWhole, Sound
<1>2. UNCHANGED <<history, yank, vim, draft>> /\ IsText(yank')
  BY <1>1 DEF ChangeMode
<1>3. CASE session.mode = "normal" /\ Continue(Enter(session, "insert"))
  <2> DEFINE s == Enter(session, "insert")
  <2>1. Sound(s) /\ s.mode = "insert" /\ s.index = session.index /\ s.backup = session.backup
    BY <1>1, EnteredIsSound
  <2>2. Continue(s)
    BY <1>3
  <2> HIDE DEF s
  <2> QED
    BY <1>2, <1>3, <2>1, <2>2, QuietKeyKeeps
<1>4. CASE session.mode = "visual" /\ Continue(Enter(session, "normal"))
  <2> DEFINE s == Enter(session, "normal")
  <2>1. Sound(s) /\ s.mode = "normal" /\ s.index = session.index /\ s.backup = session.backup
    BY <1>1, EnteredIsSound
  <2>2. Continue(s)
    BY <1>4
  <2> HIDE DEF s
  <2> QED
    BY <1>2, <1>4, <2>1, <2>2, QuietKeyKeeps
<1>5. CASE /\ session.mode = "normal"
           /\ Continue([Enter(session, "visual") EXCEPT !.anchor = session.cursor])
  <2> DEFINE r == Enter(session, "visual")
             s == [r EXCEPT !.anchor = session.cursor]
  <2>1. /\ Sound(r) /\ Sound(s) /\ r.mode = "visual" /\ r.index = session.index
        /\ r.backup = session.backup /\ r.text = session.text
    BY <1>1, EnteredIsSound
  <2>2. Continue(s)
    BY <1>5
  <2> HIDE DEF r
  <2>3. /\ s.mode = r.mode /\ s.index = r.index /\ s.backup = r.backup /\ s.text = r.text
        /\ s.anchor = session.cursor
    BY <2>1 DEF Sound, Sessions
  <2> HIDE DEF s
  <2>4. s.anchor \in Boundaries(s.text)
    BY <1>1, <2>1, <2>3 DEF Sound
  <2>5. s.index \in 0 .. Len(history) /\ (s.index # 0 => s.backup = draft') /\ vim
    BY <1>2, <1>5, <2>1, <2>3 DEF EditorIInv, EditorTypeOK, DraftIsKept
  <2> QED
    BY <1>2, <2>1, <2>2, <2>4, <2>5, KeyKeeps
<1>6. CASE /\ session.mode = "normal"
           /\ Continue([Enter(session, "command") EXCEPT !.command = <<":">>, !.commandCursor = 1])
  <2> DEFINE s == [Enter(session, "command") EXCEPT !.command = <<":">>, !.commandCursor = 1]
             c == <<":">>
  <2>1. /\ IsText(c) /\ c \in Seq(Bytes) /\ Len(c) = 1 /\ c[1] = ":"
    BY SmallTexts DEF IsText
  <2>2. 1 \in Boundaries(c)
    BY <2>1, TextBounds
  <2> HIDE DEF c
  <2>3. s = [Enter(session, "command") EXCEPT !.command = c, !.commandCursor = 1]
    BY DEF c
  <2>4. s \in Sessions
    BY <1>1, <2>1, <2>3 DEF Sessions, Enter
  <2>5. /\ s.mode = "command" /\ s.index = session.index /\ s.backup = session.backup /\ s.text = session.text
        /\ s.cursor = session.cursor /\ s.command = c /\ s.commandCursor = 1
    BY <1>1, <2>3 DEF Sessions, Enter
  <2>6. Continue(s)
    BY <1>6
  <2> HIDE DEF s
  <2>7. Sound(s)
    BY <1>1, <2>1, <2>2, <2>4, <2>5 DEF Sound
  <2> QED
    BY <1>2, <1>6, <2>5, <2>6, <2>7, QuietKeyKeeps
<1> QED
  BY <1>3, <1>4, <1>5, <1>6 DEF ChangeMode

LEMMA LineIsText ==
  ASSUME Sound(session)
  PROVE  /\ IsText(LineOf(session.text, session.cursor))
         /\ IsText(WithoutLine(session.text, session.cursor))
         /\ Min({LineRange(session.text, session.cursor).cut, Len(WithoutLine(session.text, session.cursor))})
              \in Boundaries(WithoutLine(session.text, session.cursor))
<1>1. PICK t, p : t = session.text /\ p = session.cursor
  OBVIOUS
<1>2. IsText(t) /\ p \in Boundaries(t)
  BY <1>1 DEF Sound
<1> DEFINE a == LineRange(t, p).start
           e == LineRange(t, p).end
           cut == LineRange(t, p).cut
           z == Splice(t, cut, e, <<>>)
<1>3. /\ a \in Boundaries(t) /\ e \in Boundaries(t) /\ cut \in Boundaries(t)
      /\ a <= e /\ cut <= e
  BY <1>2, RangesAreBounded
<1>4. LineOf(t, p) = SubSeq(t, a + 1, e) /\ WithoutLine(t, p) = z
  BY DEF LineOf, WithoutLine
<1> HIDE DEF a, e, cut
<1>5. IsText(SubSeq(t, a + 1, e))
  BY <1>2, <1>3, PieceIsText
<1>6. IsText(z) /\ cut \in Boundaries(z)
  BY <1>2, <1>3, SmallTexts, SpliceIsText
<1> HIDE DEF z
<1>7. Min({cut, Len(z)}) \in Boundaries(z)
  <2>1. Len(z) \in Nat /\ Len(z) \in Boundaries(z) /\ cut \in 0 .. Len(z)
    BY <1>6, TextBounds
  <2>2. {cut, Len(z)} \in SUBSET (0 .. Len(z))
    BY <2>1
  <2>3. Min({cut, Len(z)}) \in {cut, Len(z)}
    BY <2>1, <2>2, FirstAndLast
  <2> QED
    BY <1>6, <2>1, <2>3, Zenon
<1>8. /\ IsText(LineOf(t, p)) /\ IsText(WithoutLine(t, p))
      /\ Min({LineRange(t, p).cut, Len(WithoutLine(t, p))}) \in Boundaries(WithoutLine(t, p))
  BY <1>4, <1>5, <1>6, <1>7, Zenon DEF cut
<1> QED
  BY <1>1, <1>8, Zenon

LEMMA DeleteLineKeeps ==
  ASSUME EditorIInv, DeleteLine
  PROVE  EditorIInv'
<1>1. Sound(session) /\ session \in Sessions
  BY DEF EditorIInv, TextsAreWhole, Sound
<1>2. PICK z, q : /\ z = WithoutLine(session.text, session.cursor)
                  /\ q = Min({LineRange(session.text, session.cursor).cut,
                             Len(WithoutLine(session.text, session.cursor))})
  OBVIOUS
<1>3. IsText(LineOf(session.text, session.cursor)) /\ IsText(z) /\ q \in Boundaries(z)
  BY <1>1, <1>2, LineIsText, Zenon
<1> DEFINE s == [session EXCEPT !.text = z, !.pending = "none", !.cursor = q]
<1>4. /\ session.mode = "normal" /\ UNCHANGED <<history, vim, draft>>
      /\ yank' = LineOf(session.text, session.cursor) /\ Continue(s)
  BY <1>2 DEF DeleteLine
<1>5. IsText(yank')
  BY <1>3, <1>4, Zenon
<1>6. z \in Seq(Bytes) /\ q \in Nat
  BY <1>3, TextBounds DEF IsText
<1>7. s \in Sessions
  BY <1>1, <1>6 DEF Sessions
<1>8. /\ s.text = z /\ s.cursor = q /\ s.mode = session.mode /\ s.index = session.index
      /\ s.backup = session.backup /\ s.command = session.command
  BY <1>1 DEF Sessions
<1> HIDE DEF s
<1>9. Sound(s)
  BY <1>1, <1>3, <1>4, <1>7, <1>8 DEF Sound
<1> QED
  BY <1>4, <1>5, <1>8, <1>9, QuietKeyKeeps

LEMMA YankLineKeeps ==
  ASSUME EditorIInv, YankLine
  PROVE  EditorIInv'
<1>1. Sound(session) /\ IsText(LineOf(session.text, session.cursor))
  BY LineIsText DEF EditorIInv, TextsAreWhole
<1>2. UNCHANGED <<history, vim, draft>> /\ IsText(yank')
  BY <1>1, Zenon DEF YankLine
<1> DEFINE s == [session EXCEPT !.pending = "none"]
<1>3. Continue(s) /\ session.mode = "normal"
  BY DEF YankLine
<1>4. Sound(s) /\ s.mode = session.mode /\ s.index = session.index /\ s.backup = session.backup
  <2>1. IsText(session.text) /\ session.cursor \in Boundaries(session.text) /\ "none" \in {"none", "d", "y"}
    BY <1>1 DEF Sound
  <2> QED
    BY <1>1, <2>1, PlacedIsSound
<1> HIDE DEF s
<1> QED
  BY <1>2, <1>3, <1>4, QuietKeyKeeps

LEMMA OperatorKeeps ==
  ASSUME EditorIInv, NEW letter \in {"d", "y"}, Operator(letter)
  PROVE  EditorIInv'
<1>1. Sound(session) /\ IsText(yank)
  BY DEF EditorIInv, TextsAreWhole
<1>2. UNCHANGED <<history, vim, draft>> /\ IsText(yank')
  BY <1>1 DEF Operator
<1> DEFINE s == [session EXCEPT !.pending = letter]
<1>3. Continue(s) /\ session.mode = "normal"
  BY DEF Operator
<1>4. Sound(s) /\ s.mode = session.mode /\ s.index = session.index /\ s.backup = session.backup
  <2>1. IsText(session.text) /\ session.cursor \in Boundaries(session.text) /\ letter \in {"none", "d", "y"}
    BY <1>1 DEF Sound
  <2> QED
    BY <1>1, <2>1, PlacedIsSound
<1> HIDE DEF s
<1> QED
  BY <1>2, <1>3, <1>4, QuietKeyKeeps

LEMMA PasteKeeps ==
  ASSUME EditorIInv, Paste
  PROVE  EditorIInv'
<1>1. Sound(session) /\ session \in Sessions /\ IsText(yank) /\ yank # <<>>
  BY DEF EditorIInv, TextsAreWhole, Sound, Paste
<1>2. PICK t, p : t = session.text /\ p = session.cursor
  OBVIOUS
<1>3. IsText(t) /\ p \in Boundaries(t)
  BY <1>1, <1>2 DEF Sound
<1> DEFINE place == InsertionPoint(t, p)
           x == Insertion(t, place, yank)
           z == Splice(t, place, place, x)
           q == IF x[1] = NL THEN place + 1 ELSE place
           s == [session EXCEPT !.text = z, !.pending = "none", !.cursor = q]
<1>4. /\ session.mode = "normal" /\ UNCHANGED <<history, yank, vim, draft>> /\ Continue(s)
  BY <1>2, Zenon DEF Paste, WithLine
<1>5. place \in Boundaries(t)
  BY <1>3, RangesAreBounded
<1> HIDE DEF place
<1>6. IsText(x) /\ Len(x) > 0 /\ Len(x) \in Nat
  <2>1. IsText(x) /\ Len(x) > 0
    BY <1>1, InsertionIsText
  <2> HIDE DEF x
  <2> QED
    BY <2>1, TextBounds
<1> HIDE DEF x
<1>7. place \in Nat /\ Len(t) \in Nat
  BY <1>3, <1>5, TextBounds
<1>8. /\ IsText(z) /\ place \in Boundaries(z) /\ \A k \in 1 .. Len(x) : z[place + k] = x[k]
      /\ Len(z) = Len(t) - (place - place) + Len(x)
  <2>1. place <= place
    BY <1>7
  <2> QED
    BY <1>3, <1>5, <1>6, <2>1, SpliceIsText
<1> HIDE DEF z
<1>9. q \in Boundaries(z)
  <2>1. CASE x[1] = NL
    <3>1. z[place + 1] = NL
      BY <1>6, <1>8, <2>1
    <3>2. place + 1 \in 1 .. Len(z)
      <4>1. place <= Len(t)
        BY <1>3, <1>5, TextBounds
      <4> QED
        BY <1>6, <1>7, <1>8, <4>1
    <3>3. NL # "lead"
      BY DEF NL
    <3> QED
      BY <1>8, <2>1, <3>1, <3>2, <3>3, TextBounds
  <2> QED
    BY <1>8, <2>1
<1> HIDE DEF q
<1>10. z \in Seq(Bytes) /\ q \in Nat
  BY <1>8, <1>9, TextBounds DEF IsText
<1>11. s \in Sessions
  BY <1>1, <1>10 DEF Sessions
<1>12. /\ s.text = z /\ s.cursor = q /\ s.mode = session.mode /\ s.index = session.index
       /\ s.backup = session.backup /\ s.command = session.command
  BY <1>1 DEF Sessions
<1> HIDE DEF s
<1>13. Sound(s)
  BY <1>1, <1>4, <1>8, <1>9, <1>11, <1>12 DEF Sound
<1>14. IsText(yank')
  BY <1>1, <1>4
<1> QED
  BY <1>4, <1>12, <1>13, <1>14, QuietKeyKeeps

LEMMA FromHistoryIsSound ==
  ASSUME NEW s, Sound(s), ~Commanding(s), NEW entry, IsText(entry), NEW index \in Nat
  PROVE  /\ Sound(FromHistory(s, entry, index))
         /\ FromHistory(s, entry, index).mode \in {"plain", "insert", "normal"}
         /\ (FromHistory(s, entry, index).mode # "plain" => s.mode # "plain")
         /\ FromHistory(s, entry, index).index = index
         /\ FromHistory(s, entry, index).backup = s.backup
<1> DEFINE r == FromHistory(s, entry, index)
<1>1. s \in Sessions /\ s.mode # "command"
  BY DEF Sound, Commanding
<1>2. entry \in Seq(Bytes) /\ Len(entry) \in Nat /\ Len(entry) \in Boundaries(entry)
  BY TextBounds DEF IsText
<1>3. r \in Sessions
  BY <1>1, <1>2 DEF Sessions, FromHistory
<1>4. /\ r.text = entry /\ r.cursor = Len(entry) /\ r.index = index /\ r.backup = s.backup
      /\ r.command = s.command
      /\ r.mode = IF s.mode \in {"plain", "insert"} THEN s.mode ELSE "normal"
  BY <1>1 DEF Sessions, FromHistory
<1> HIDE DEF r
<1>5. Sound(r)
  BY <1>1, <1>2, <1>3, <1>4 DEF Sound
<1>6. r.mode \in {"plain", "insert", "normal"} /\ (r.mode # "plain" => s.mode # "plain")
  BY <1>4
<1> QED
  BY <1>4, <1>5, <1>6 DEF r

LEMMA HistoryUpKeeps ==
  ASSUME EditorIInv, HistoryUp
  PROVE  EditorIInv'
<1> DEFINE first == session.index = 0
           next == IF first THEN Len(history) ELSE Max({session.index - 1, 1})
           kept == IF first THEN [session EXCEPT !.backup = session.text] ELSE session
           s == FromHistory(kept, history[next], next)
<1>1. Sound(session) /\ session \in Sessions /\ IsText(yank)
  BY DEF EditorIInv, TextsAreWhole, Sound
<1>2. /\ ~Commanding(session) /\ history # <<>> /\ Continue(s)
      /\ draft' = IF first THEN session.text ELSE draft
      /\ UNCHANGED <<history, yank, vim>>
  BY DEF HistoryUp
<1>3. /\ history \in Seq(Seq(Bytes)) /\ \A k \in DOMAIN history : IsText(history[k])
      /\ session.index \in 0 .. Len(history)
  BY DEF EditorIInv, TextsAreWhole, EditorTypeOK
<1>4. next \in 1 .. Len(history)
  <2>1. Len(history) \in Nat /\ Len(history) > 0
    BY <1>2, <1>3
  <2>2. CASE first
    BY <2>1, <2>2
  <2>3. CASE ~first
    <3>1. session.index \in 1 .. Len(history)
      BY <1>3, <2>1, <2>3
    <3>2. {session.index - 1, 1} \in SUBSET (0 .. Len(history))
      BY <2>1, <3>1
    <3>3. Max({session.index - 1, 1}) \in {session.index - 1, 1} /\ 1 <= Max({session.index - 1, 1})
      BY <2>1, <3>2, FirstAndLast
    <3>4. \A k \in {session.index - 1, 1} : 1 <= k => k \in 1 .. Len(history)
      BY <2>1, <3>1
    <3>5. next = Max({session.index - 1, 1})
      BY <2>3
    <3> QED
      BY <3>3, <3>4, <3>5, Zenon
  <2> QED
    BY <2>2, <2>3
<1>5. IsText(history[next])
  BY <1>3, <1>4
<1> HIDE DEF next
<1>6. /\ Sound(kept) /\ kept.mode = session.mode
      /\ kept.backup = IF first THEN session.text ELSE session.backup
  <2>1. CASE first
    <3> DEFINE r == [session EXCEPT !.backup = session.text]
    <3>1. r \in Sessions
      BY <1>1 DEF Sessions
    <3>2. /\ r.text = session.text /\ r.cursor = session.cursor /\ r.mode = session.mode
          /\ r.command = session.command /\ r.commandCursor = session.commandCursor
          /\ r.backup = session.text
      BY <1>1 DEF Sessions
    <3> HIDE DEF r
    <3>3. Sound(r)
      BY <1>1, <3>1, <3>2 DEF Sound
    <3>4. kept = r
      BY <2>1 DEF r
    <3> QED
      BY <2>1, <3>2, <3>3, <3>4
  <2>2. CASE ~first
    BY <1>1, <2>2
  <2> QED
    BY <2>1, <2>2
<1> HIDE DEF kept
<1>7. ~Commanding(kept) /\ next \in Nat
  BY <1>2, <1>4, <1>6 DEF Commanding
<1>8. /\ Sound(s) /\ s.mode \in {"plain", "insert", "normal"} /\ (s.mode # "plain" => kept.mode # "plain")
      /\ s.index = next /\ s.backup = kept.backup
  BY <1>5, <1>6, <1>7, FromHistoryIsSound
<1> HIDE DEF s
<1>9. s.index \in 0 .. Len(history)
  BY <1>4, <1>8
<1>10. s.index # 0 => s.backup = draft'
  <2>1. session.index # 0 => session.backup = draft
    BY DEF EditorIInv, DraftIsKept
  <2> QED
    BY <1>2, <1>6, <1>8, <2>1
<1>11. s.mode # "plain" => vim
  BY <1>6, <1>8 DEF EditorIInv, EditorTypeOK
<1>12. IsText(yank') /\ vim' = vim /\ history' = history
  BY <1>1, <1>2
<1> QED
  BY <1>2, <1>8, <1>9, <1>10, <1>11, <1>12, KeyKeeps

LEMMA HistoryDownKeeps ==
  ASSUME EditorIInv, HistoryDown
  PROVE  EditorIInv'
<1>1. Sound(session) /\ session \in Sessions /\ IsText(yank) /\ IsText(session.backup)
  BY DEF EditorIInv, TextsAreWhole, Sound
<1>2. /\ ~Commanding(session) /\ session.index # 0
      /\ UNCHANGED <<history, yank, vim, draft>>
  BY DEF HistoryDown
<1>3. /\ history \in Seq(Seq(Bytes)) /\ \A k \in DOMAIN history : IsText(history[k])
      /\ session.index \in 0 .. Len(history) /\ Len(history) \in Nat
      /\ session.mode # "plain" => vim
  BY DEF EditorIInv, TextsAreWhole, EditorTypeOK
<1>4. IsText(yank') /\ vim' = vim /\ history' = history
  BY <1>1, <1>2
<1>5. session.index # 0 => session.backup = draft
  BY DEF EditorIInv, DraftIsKept
<1>6. CASE session.index # Len(history)
  <2> DEFINE next == session.index + 1
             s == FromHistory(session, history[next], next)
  <2>1. Continue(s)
    BY <1>6 DEF HistoryDown
  <2>2. next \in 1 .. Len(history) /\ next \in Nat
    BY <1>3, <1>6
  <2> HIDE DEF next
  <2>3. IsText(history[next])
    BY <1>3, <2>2
  <2>4. /\ Sound(s) /\ s.mode \in {"plain", "insert", "normal"} /\ (s.mode # "plain" => session.mode # "plain")
        /\ s.index = next /\ s.backup = session.backup
    BY <1>1, <1>2, <2>2, <2>3, FromHistoryIsSound
  <2> HIDE DEF s
  <2>5. s.index \in 0 .. Len(history) /\ (s.index # 0 => s.backup = draft') /\ (s.mode # "plain" => vim)
    BY <1>2, <1>3, <1>5, <2>2, <2>4
  <2> QED
    BY <1>4, <2>1, <2>4, <2>5, KeyKeeps
<1>7. CASE session.index = Len(history)
  <2> DEFINE r == FromHistory(session, session.backup, 0)
             s == [r EXCEPT !.backup = <<>>, !.mode = IF vim THEN "insert" ELSE "plain"]
  <2>1. Continue(s)
    BY <1>7 DEF HistoryDown
  <2>2. Sound(r) /\ r.index = 0
    BY <1>1, <1>2, FromHistoryIsSound
  <2> HIDE DEF r
  <2>3. r \in Sessions /\ IsText(<<>>) /\ <<>> \in Seq(Bytes)
    BY <2>2, SmallTexts DEF Sound, IsText
  <2>4. s \in Sessions
    BY <2>3 DEF Sessions
  <2>5. /\ s.text = r.text /\ s.cursor = r.cursor /\ s.command = r.command /\ s.index = r.index
        /\ s.backup = <<>> /\ s.mode = IF vim THEN "insert" ELSE "plain"
    BY <2>3 DEF Sessions
  <2> HIDE DEF s
  <2>6. Sound(s)
    BY <2>2, <2>3, <2>4, <2>5 DEF Sound
  <2>7. s.index \in 0 .. Len(history) /\ s.index = 0 /\ (s.mode # "plain" => vim) /\ s.mode # "visual"
    BY <1>3, <2>2, <2>5
  <2> QED
    BY <1>4, <2>1, <2>6, <2>7, KeyKeeps
<1> QED
  BY <1>6, <1>7

LEMMA StartsKeeps ==
  ASSUME EditorIInv, NEW enabled \in BOOLEAN, Starts(enabled), IsText(yank'),
         history' \in Seq(Seq(Bytes)), \A k \in DOMAIN history' : IsText(history'[k])
  PROVE  EditorIInv'
<1>1. session' = Fresh(enabled) /\ vim' = enabled
  BY DEF Starts
<1>2. /\ Sound(Fresh(enabled)) /\ Fresh(enabled).mode \in {"plain", "insert"}
      /\ (Fresh(enabled).mode # "plain" => enabled)
      /\ Fresh(enabled).index = 0 /\ Fresh(enabled).pending = "none"
  BY FreshIsSound
<1>3. PICK s : s = Fresh(enabled)
  OBVIOUS
<1>4. session' = s /\ Sound(s) /\ s.mode \in {"plain", "insert"} /\ (s.mode # "plain" => enabled)
      /\ s.index = 0 /\ s.pending = "none"
  BY <1>1, <1>2, <1>3
<1>5. TextsAreWhole'
  BY <1>4 DEF TextsAreWhole
<1>6. EditorTypeOK' /\ CursorsAreBetweenCharacters'
  BY <1>1, <1>4 DEF Sound, EditorTypeOK, CursorsAreBetweenCharacters, Commanding
<1>7. PanicNeedsDeletion' /\ AnchorIsBetweenCharacters' /\ DraftIsKept'
  BY <1>4 DEF PanicNeedsDeletion, RenderPanics, AnchorIsBetweenCharacters, DraftIsKept
<1>8. vim' \in BOOLEAN
  BY <1>1
<1> QED
  BY <1>5, <1>6, <1>7, <1>8 DEF EditorIInv

LEMMA StartingKeeps ==
  ASSUME EditorIInv, Submit \/ ToggleVim \/ Cancel
  PROVE  EditorIInv'
<1>0. (~vim) \in BOOLEAN
  OBVIOUS
<1>1. /\ Sound(session) /\ IsText(yank) /\ vim \in BOOLEAN
      /\ history \in Seq(Seq(Bytes)) /\ \A k \in DOMAIN history : IsText(history[k])
  BY DEF EditorIInv, TextsAreWhole
<1>2. IsText(yank')
  BY <1>1 DEF Submit, ToggleVim, Cancel
<1>3. CASE ToggleVim \/ Cancel
  BY <1>0, <1>1, <1>2, <1>3, StartsKeeps DEF ToggleVim, Cancel
<1>4. CASE Submit
  <2>1. PICK line : line = Active(session)
    OBVIOUS
  <2>2. Starts(vim) /\ (history' = Append(history, line) \/ history' = history)
    BY <1>4, <2>1 DEF Submit
  <2>3. IsText(line) /\ line \in Seq(Bytes)
    BY <1>1, <2>1, ActiveIsText DEF IsText
  <2>4. history' \in Seq(Seq(Bytes)) /\ \A k \in DOMAIN history' : IsText(history'[k])
    <3>1. CASE history' = history
      BY <1>1, <3>1
    <3>2. CASE history' = Append(history, line)
      <4>1. /\ history' \in Seq(Seq(Bytes)) /\ DOMAIN history' = 1 .. Len(history) + 1
            /\ history'[Len(history) + 1] = line
            /\ \A k \in 1 .. Len(history) : history'[k] = history[k]
        BY <1>1, <2>3, <3>2
      <4>2. DOMAIN history = 1 .. Len(history) /\ Len(history) \in Nat
        BY <1>1
      <4>3. \A k \in 1 .. Len(history) + 1 : k \in 1 .. Len(history) \/ k = Len(history) + 1
        BY <4>2
      <4> QED
        BY <1>1, <2>3, <4>1, <4>2, <4>3, Zenon
    <3> QED
      BY <2>2, <3>1, <3>2
  <2> QED
    BY <1>1, <1>2, <2>2, <2>4, StartsKeeps
<1> QED
  BY <1>3, <1>4

LEMMA EditorIInvInit == EditorInit => EditorIInv
<1> SUFFICES ASSUME EditorInit
             PROVE  EditorIInv
  OBVIOUS
<1>1. PICK s : s = Fresh(FALSE)
  OBVIOUS
<1>2. /\ Sound(s) /\ s.mode \in {"plain", "insert"} /\ (s.mode # "plain" => FALSE)
      /\ s.index = 0 /\ s.pending = "none"
  BY <1>1, FreshIsSound
<1>3. session = s /\ vim = FALSE /\ history = <<>> /\ yank = <<>>
  BY <1>1 DEF EditorInit
<1>4. TextsAreWhole
  BY <1>2, <1>3, SmallTexts DEF TextsAreWhole
<1>5. EditorTypeOK /\ CursorsAreBetweenCharacters
  BY <1>2, <1>3 DEF Sound, EditorTypeOK, CursorsAreBetweenCharacters, Commanding
<1>6. PanicNeedsDeletion /\ AnchorIsBetweenCharacters /\ DraftIsKept
  BY <1>2, <1>3 DEF PanicNeedsDeletion, RenderPanics, AnchorIsBetweenCharacters, DraftIsKept
<1> QED
  BY <1>3, <1>4, <1>5, <1>6 DEF EditorIInv

LEMMA EditorIInvStep == EditorIInv /\ [EditorNext]_editorVars => EditorIInv'
<1> SUFFICES ASSUME EditorIInv, [EditorNext]_editorVars
             PROVE  EditorIInv'
  OBVIOUS
<1>1. CASE \E x \in Characters \cup {<<NL>>} : Insert(x)
  BY <1>1, SmallTexts, InsertKeeps
<1>2. CASE Backspace \/ Delete \/ Complete
  BY <1>2, BackspaceKeeps, DeleteKeeps, CompleteKeeps
<1>3. CASE Move \/ MoveByLetter \/ Escape \/ ChangeMode
  BY <1>3, MoveKeeps, MoveByLetterKeeps, EscapeKeeps, ChangeModeKeeps
<1>4. CASE \E letter \in {"d", "y"} : Operator(letter)
  BY <1>4, OperatorKeeps
<1>5. CASE DeleteLine \/ YankLine \/ Paste
  BY <1>5, DeleteLineKeeps, YankLineKeeps, PasteKeeps
<1>6. CASE HistoryUp \/ HistoryDown
  BY <1>6, HistoryUpKeeps, HistoryDownKeeps
<1>7. CASE Submit \/ ToggleVim \/ Cancel
  BY <1>7, StartingKeeps
<1>8. CASE UNCHANGED editorVars
  BY <1>8 DEF editorVars, EditorIInv, TextsAreWhole, EditorTypeOK, CursorsAreBetweenCharacters,
              PanicNeedsDeletion, AnchorIsBetweenCharacters, DraftIsKept, Commanding
<1> QED
  BY <1>1, <1>2, <1>3, <1>4, <1>5, <1>6, <1>7, <1>8 DEF EditorNext

(* Whatever is typed, moved, completed, pasted or fetched from the history, *)
(* in plain mode or in the modes of vi, the cursor is between two           *)
(* characters; only a selection under which text was deleted makes the      *)
(* editor panic; and the text that was left for the history comes back.     *)
THEOREM KeysKeepCharactersWhole == EditorSpec => []EditorInv
<1>1. EditorIInv => EditorInv
  BY DEF EditorIInv, EditorInv
<1> QED
  BY <1>1, EditorIInvInit, EditorIInvStep, PTL DEF EditorSpec

-----------------------------------------------------------------------------
(* A session is resumed with commands of the command line, and only then   *)
(* are there commands to carry out.                                        *)
ResumeIsDecided ==
  /\ args \in Seq(Arguments) /\ taken \in 0 .. Len(args)
  /\ DOMAIN parsed = {"mode", "format", "model", "tools", "version", "rest"}
  /\ parsed.rest \in Seq(Arguments)
  /\ action.does = "resume" => action.commands \in Seq(Arguments)
  /\ queue \in Seq(Arguments) /\ done \in Seq(Arguments)
  /\ queue # <<>> \/ done # <<>> => action.does = "resume"

CommandIInv ==
  /\ ResumeIsDecided /\ FileFollows /\ HelpIsTrue
  /\ file \in {0, Preserved + 1, FileMessages}
  /\ queue = <<>> /\ done = <<>> => file \in {0, FileMessages}

LEMMA OnlyResumeResumes ==
  ASSUME parsed.rest \in Seq(Arguments), Decision.does = "resume"
  PROVE  Decision.commands \in Seq(Arguments)
<1> DEFINE first == parsed.rest[1]
           others == Tail(parsed.rest)
<1>1. CASE parsed.rest = <<>>
  BY <1>1 DEF Decision, Prompts
<1>2. CASE parsed.rest # <<>>
  <2>1. others \in Seq(Arguments)
    BY <1>2
  <2>2. ParseResumeArgs(others).does = "resume" => ParseResumeArgs(others).commands \in Seq(Arguments)
    <3>1. others # <<>> => Tail(others) \in Seq(Arguments)
      BY <2>1
    <3> HIDE DEF others
    <3> QED
      BY <3>1 DEF ParseResumeArgs, Does
  <2>3. CASE first \in {"--help", "-h"}
    BY <1>2, <2>3 DEF Decision, Does
  <2>4. CASE first = "--resume"
    BY <1>2, <2>2, <2>4 DEF Decision
  <2>5. CASE first \notin {"--help", "-h", "--resume"}
    <3>1. Direct(first) \in {"help", "agents", "skills", "refuse"}
      BY DEF Direct
    <3>2. Decision.does # "resume"
      <4> HIDE DEF first, others
      <4> DEFINE d == IF first \in Subcommands THEN Does(first)
                      ELSE IF first = "system-prompt" THEN Does(IF PromptOptions(others) THEN first ELSE "refuse")
                      ELSE IF first = "prompt" THEN IF others = <<>> THEN Does("refuse") ELSE Prompts(others, parsed)
                      ELSE IF first \in DOMAIN Slash THEN Does(Direct(first))
                      ELSE Prompts(parsed.rest, parsed)
      <4>1. Decision = d
        BY <1>2, <2>5 DEF Decision, first, others
      <4>2. \A w : Does(w).does = w
        BY DEF Does
      <4>3. \A w : Prompts(w, parsed).does = "prompt"
        BY DEF Prompts
      <4>4. first \in Subcommands => first # "resume"
        BY DEF Subcommands
      <4>5. d.does # "resume"
        BY <3>1, <4>2, <4>3, <4>4
      <4> QED
        BY <4>1, <4>5
    <3> QED
      BY <3>2
  <2> QED
    BY <2>3, <2>4, <2>5
<1> QED
  BY <1>1, <1>2

LEMMA CommandIInvInit == CommandInit => CommandIInv
<1> SUFFICES ASSUME CommandInit
             PROVE  CommandIInv
  OBVIOUS
<1>1. PICK n \in 0 .. MaxArguments : args \in [1 .. n -> Arguments]
  BY DEF CommandInit
<1>2. args \in Seq(Arguments)
  BY <1>1, CommandLineAssumption, SeqDef
<1>3. action.does = "undecided" /\ queue = <<>> /\ done = <<>> /\ ended = "no" /\ file \in {0, FileMessages}
  BY DEF CommandInit, Undecided
<1>4. /\ DOMAIN parsed = {"mode", "format", "model", "tools", "version", "rest"}
      /\ parsed.rest = <<>> /\ taken = 0
  BY DEF CommandInit, NothingParsed
<1>5. ResumeIsDecided
  BY <1>2, <1>3, <1>4 DEF ResumeIsDecided
<1> QED
  BY <1>3, <1>5 DEF CommandIInv, FileFollows, HelpIsTrue

(* What a step of parse_args may do: the session is not loaded yet.        *)
LEMMA ParsingKeeps ==
  ASSUME CommandIInv, action = Undecided, UNCHANGED <<args, Session>>,
         taken' \in 0 .. Len(args),
         DOMAIN parsed' = {"mode", "format", "model", "tools", "version", "rest"},
         parsed'.rest \in Seq(Arguments),
         action'.does = "resume" => action'.commands \in Seq(Arguments)
  PROVE  CommandIInv'
<1>1. queue = <<>> /\ done = <<>>
  BY DEF CommandIInv, ResumeIsDecided, Undecided
<1>2. UNCHANGED <<queue, transcript, file, ended, done>>
  BY DEF Session
<1>3. ResumeIsDecided'
  BY <1>1, <1>2 DEF CommandIInv, ResumeIsDecided
<1>4. FileFollows'
  BY <1>1, <1>2 DEF FileFollows
<1>5. HelpIsTrue'
  BY <1>1, <1>2 DEF CommandIInv, HelpIsTrue
<1> QED
  BY <1>1, <1>2, <1>3, <1>4, <1>5 DEF CommandIInv

LEMMA TakingKeeps ==
  ASSUME CommandIInv, TakeSwitch \/ TakeValue \/ ValueIsMissing \/ TakePrompt \/ TakeWord
  PROVE  CommandIInv'
<1>1. /\ action = Undecided /\ taken < Len(args) /\ UNCHANGED <<args, Session>>
      /\ args \in Seq(Arguments) /\ taken \in 0 .. Len(args) /\ Len(args) \in Nat
      /\ DOMAIN parsed = {"mode", "format", "model", "tools", "version", "rest"}
      /\ parsed.rest \in Seq(Arguments)
  BY DEF TakeSwitch, TakeValue, ValueIsMissing, TakePrompt, TakeWord, Parsing, CommandIInv, ResumeIsDecided
<1>2. \A w, p : Does(w).does = w /\ Prompts(w, p).does = "prompt"
  BY DEF Does, Prompts
<1>3. taken + 1 \in 0 .. Len(args) /\ Argument \in Arguments
  BY <1>1 DEF Argument
<1>4. action' = action \/ action'.does \in {"refuse", "prompt"}
  BY <1>2 DEF TakeSwitch, TakeValue, ValueIsMissing, TakePrompt, TakeWord, Refuses
<1>5. action'.does # "resume"
  BY <1>1, <1>4 DEF Undecided
<1>6. taken' \in 0 .. Len(args)
  <2>1. CASE taken' = taken
    BY <1>1, <2>1
  <2>2. CASE taken' = taken + 1
    BY <1>3, <2>2
  <2>3. CASE taken' = taken + 2 /\ taken + 2 <= Len(args)
    BY <1>1, <2>3
  <2> QED
    BY <2>1, <2>2, <2>3 DEF TakeSwitch, TakeValue, ValueIsMissing, TakePrompt, TakeWord
<1>7. /\ DOMAIN parsed' = {"mode", "format", "model", "tools", "version", "rest"}
      /\ parsed'.rest \in Seq(Arguments)
  <2>1. CASE UNCHANGED parsed
    BY <1>1, <2>1
  <2>2. CASE \E v : parsed' \in {[parsed EXCEPT !.version = v], [parsed EXCEPT !.format = v],
                                 [parsed EXCEPT !.mode = v], [parsed EXCEPT !.model = v],
                                 [parsed EXCEPT !.tools = v]}
    BY <1>1, <2>2
  <2>3. CASE parsed' = [parsed EXCEPT !.rest = Append(@, Argument)]
    <3>1. PICK a : a = Argument
      OBVIOUS
    <3>2. Append(parsed.rest, a) \in Seq(Arguments)
      BY <1>1, <1>3, <3>1
    <3>3. parsed' = [parsed EXCEPT !.rest = Append(parsed.rest, a)]
      BY <1>1, <2>3, <3>1
    <3> QED
      BY <1>1, <3>2, <3>3
  <2>4. TakeSwitch => \E v : parsed' \in {[parsed EXCEPT !.version = v], [parsed EXCEPT !.format = v],
                                          [parsed EXCEPT !.mode = v]}
    BY DEF TakeSwitch
  <2>5. TakeValue => \/ UNCHANGED parsed
                     \/ \E v : parsed' \in {[parsed EXCEPT !.model = v], [parsed EXCEPT !.format = v],
                                            [parsed EXCEPT !.mode = v], [parsed EXCEPT !.tools = v]}
    <3> SUFFICES ASSUME TakeValue, parsed' # parsed
                 PROVE  \E v : parsed' \in {[parsed EXCEPT !.model = v], [parsed EXCEPT !.format = v],
                                            [parsed EXCEPT !.mode = v], [parsed EXCEPT !.tools = v]}
      OBVIOUS
    <3>1. PICK value : value = args[taken + 2]
      OBVIOUS
    <3>2. parsed' = CASE Argument = "--model" -> [parsed EXCEPT !.model = ResolveModelAlias(value)]
                      [] Argument = "--output-format" -> [parsed EXCEPT !.format = value]
                      [] Argument = "--permission-mode" -> [parsed EXCEPT !.mode = value]
                      [] OTHER -> [parsed EXCEPT !.tools = Append(@, value)]
      BY <3>1 DEF TakeValue
    <3>3. [parsed EXCEPT !.tools = Append(@, value)] = [parsed EXCEPT !.tools = Append(parsed.tools, value)]
      BY <1>1
    <3> QED
      BY <3>2, <3>3
  <2> QED
    BY <2>1, <2>2, <2>3, <2>4, <2>5 DEF ValueIsMissing, TakePrompt, TakeWord
<1> QED
  BY <1>1, <1>5, <1>6, <1>7, ParsingKeeps

LEMMA DecideKeeps ==
  ASSUME CommandIInv, Decide
  PROVE  CommandIInv'
<1>1. /\ action = Undecided /\ UNCHANGED <<args, taken, parsed, Session>>
      /\ taken \in 0 .. Len(args)
      /\ DOMAIN parsed = {"mode", "format", "model", "tools", "version", "rest"}
      /\ parsed.rest \in Seq(Arguments)
  BY DEF Decide, CommandIInv, ResumeIsDecided
<1>2. action' = Does("version") \/ action' = Does("refuse") \/ action' = Decision
  BY DEF Decide, Refuses
<1>3. Does("version").does # "resume" /\ Does("refuse").does # "resume"
  BY DEF Does
<1>4. action'.does = "resume" => action'.commands \in Seq(Arguments)
  BY <1>1, <1>2, <1>3, OnlyResumeResumes
<1> QED
  BY <1>1, <1>4, ParsingKeeps

LEMMA LoadSessionKeeps ==
  ASSUME CommandIInv, LoadSession
  PROVE  CommandIInv'
<1>1. /\ ended = "no" /\ queue = <<>> /\ done = <<>> /\ file \in {0, FileMessages}
      /\ action.does = "resume" /\ action.commands \in Seq(Arguments)
      /\ UNCHANGED <<args, taken, parsed, action, file, done>>
      /\ \/ transcript' = file /\ queue' = action.commands
         \/ queue' = queue
      /\ ended' # "unsupported"
  BY DEF LoadSession, CommandIInv, ResumeIsDecided
<1>2. ResumeIsDecided'
  BY <1>1 DEF CommandIInv, ResumeIsDecided
<1>3. FileFollows'
  BY <1>1 DEF FileFollows, Cleared, Shortened
<1>4. HelpIsTrue'
  <2>1. queue' # <<>> => <<>> \o queue' = queue'
    BY <1>1, ConcatEmptySeq
  <2> QED
    BY <1>1, <2>1 DEF HelpIsTrue
<1> QED
  BY <1>1, <1>2, <1>3, <1>4 DEF CommandIInv

LEMMA RunResumedKeeps ==
  ASSUME CommandIInv, RunResumed
  PROVE  CommandIInv'
<1>1. PICK c : c = Head(queue)
  OBVIOUS
<1>2. /\ queue # <<>> /\ ended = "no" /\ Parse(c) \in Resumed
      /\ transcript' = After(c)
      /\ file' = IF Parse(c) = "compact" \/ After(c) # transcript THEN After(c) ELSE file
      /\ queue' = Tail(queue) /\ done' = Append(done, c)
      /\ ended' \in {"done", "no"}
      /\ UNCHANGED <<args, taken, parsed, action>>
  BY <1>1 DEF RunResumed
<1>3. /\ queue \in Seq(Arguments) /\ done \in Seq(Arguments) /\ action.does = "resume"
      /\ file = transcript
      /\ transcript \in (IF Cleared THEN {0} ELSE IF Shortened THEN {0, Preserved + 1} ELSE {0, FileMessages})
      /\ \A k \in DOMAIN done : Parse(done[k]) \in ResumeListed
      /\ done \o queue = action.commands
  BY <1>2 DEF CommandIInv, ResumeIsDecided, FileFollows, HelpIsTrue
<1>4. c \in Arguments /\ queue' \in Seq(Arguments) /\ done' \in Seq(Arguments) /\ done' # <<>>
  BY <1>1, <1>2, <1>3
<1>5. /\ DOMAIN done' = 1 .. Len(done) + 1 /\ done'[Len(done) + 1] = c
      /\ \A k \in 1 .. Len(done) : done'[k] = done[k]
      /\ DOMAIN done = 1 .. Len(done) /\ Len(done) \in Nat
      /\ 1 .. Len(done) \subseteq 1 .. Len(done) + 1 /\ Len(done) + 1 \in 1 .. Len(done) + 1
      /\ \A k \in 1 .. Len(done) + 1 : k \in 1 .. Len(done) \/ k = Len(done) + 1
  BY <1>2, <1>3, <1>4
<1>6. ResumeIsDecided'
  BY <1>2, <1>3, <1>4 DEF CommandIInv, ResumeIsDecided
<1>7. HelpIsTrue'
  <2>1. \A k \in DOMAIN done' : Parse(done'[k]) \in ResumeListed
    <3>1. Parse(c) \in ResumeListed
      BY <1>2 DEF Resumed, ResumeListed
    <3> QED
      BY <1>3, <1>5, <3>1, Zenon
  <2>2. done' \o queue' = done \o queue
    <3>1. queue = <<c>> \o Tail(queue) /\ Tail(queue) \in Seq(Arguments) /\ <<c>> \in Seq(Arguments)
      BY <1>1, <1>2, <1>3, <1>4
    <3>2. done' = done \o <<c>>
      BY <1>2, <1>3, <1>4
    <3> QED
      BY <1>2, <1>3, <3>1, <3>2, ConcatAssociative
  <2>3. ended' # "unsupported"
    BY <1>2
  <2> QED
    BY <1>2, <1>3, <2>1, <2>2, <2>3 DEF HelpIsTrue
<1>8. FileFollows' /\ file' \in {0, Preserved + 1, FileMessages}
  <2>1. /\ Cleared' <=> Cleared \/ (Parse(c) = "clear" /\ Slash[c].confirmed)
        /\ Shortened' <=> Shortened \/ Parse(c) = "compact"
    BY <1>5, Zenon DEF Cleared, Shortened
  <2>2. file' = transcript' /\ transcript' = After(c)
    BY <1>2, <1>3
  <2>3. After(c) \in (IF Cleared' THEN {0} ELSE IF Shortened' THEN {0, Preserved + 1} ELSE {0, FileMessages})
    <3>1. CASE Parse(c) = "compact"
      BY <1>3, <2>1, <3>1, CommandLineAssumption DEF After
    <3>2. CASE Parse(c) = "clear" /\ Slash[c].confirmed
      BY <2>1, <3>2 DEF After
    <3>3. CASE ~(Parse(c) = "compact") /\ ~(Parse(c) = "clear" /\ Slash[c].confirmed)
      BY <1>3, <2>1, <3>3 DEF After
    <3> QED
      BY <3>1, <3>2, <3>3
  <2> QED
    BY <2>2, <2>3 DEF FileFollows
<1>9. ~(queue' = <<>> /\ done' = <<>>)
  BY <1>4
<1> QED
  BY <1>6, <1>7, <1>8, <1>9 DEF CommandIInv

LEMMA StoppingKeeps ==
  ASSUME CommandIInv, ResumedFails \/ RefuseResumed
  PROVE  CommandIInv'
<1>1. /\ UNCHANGED <<args, taken, parsed, action, queue, transcript, file, done>>
      /\ ended' = "unsupported" => Parse(Head(queue)) \notin Resumed
  BY DEF ResumedFails, RefuseResumed
<1>2. ResumeListed = Resumed
  BY DEF ResumeListed, Resumed
<1> QED
  BY <1>1, <1>2 DEF CommandIInv, ResumeIsDecided, FileFollows, HelpIsTrue, Cleared, Shortened

LEMMA CommandIInvStep == CommandIInv /\ [CommandNext]_commandVars => CommandIInv'
<1> SUFFICES ASSUME CommandIInv, [CommandNext]_commandVars
             PROVE  CommandIInv'
  OBVIOUS
<1>1. CASE TakeSwitch \/ TakeValue \/ ValueIsMissing \/ TakePrompt \/ TakeWord
  BY <1>1, TakingKeeps
<1>2. CASE Decide \/ LoadSession \/ RunResumed
  BY <1>2, DecideKeeps, LoadSessionKeeps, RunResumedKeeps
<1>3. CASE ResumedFails \/ RefuseResumed
  BY <1>3, StoppingKeeps
<1>4. CASE UNCHANGED commandVars
  BY <1>4 DEF commandVars, CommandIInv, ResumeIsDecided, FileFollows, HelpIsTrue, Cleared, Shortened
<1> QED
  BY <1>1, <1>2, <1>3, <1>4 DEF CommandNext

(* For any command line: whichever command fails, the file of a resumed    *)
(* session is the session after the commands that were carried out, these  *)
(* are the first of the line, and only those that the help lists run.      *)
THEOREM ResumedCommandsTellTheTruth == CommandSpec => [](FileFollows /\ HelpIsTrue)
<1>1. CommandIInv => FileFollows /\ HelpIsTrue
  BY DEF CommandIInv
<1> QED
  BY <1>1, CommandIInvInit, CommandIInvStep, PTL DEF CommandSpec

=============================================================================
