----------------------------- MODULE LineEditor -----------------------------
(***************************************************************************)
(* The line editor of the terminal (claw-cli/src/input.rs): a text and a   *)
(* cursor, both in bytes, under keys that insert, move, delete, paste and  *)
(* browse the history, in plain mode or in the modes of vi.  A position    *)
(* inside a character makes the next slice of the text panic.              *)
(***************************************************************************)
EXTENDS Integers, Sequences, FiniteSets, FiniteSetsExt

CONSTANTS
  MaxText,     \* bound: bytes of a text
  MaxTyped,    \* bound: bytes typed, completed or pasted in all
  MaxHistory,  \* bound: entries of the history
  Completions  \* completions, in their order

VARIABLES
  session,   \* EditSession: what is being edited
  history,   \* history
  yank,      \* yank_buffer
  vim,       \* vim_enabled
  draft,     \* history: the text that was left for the history
  typed,     \* history: bytes typed, completed or pasted so far
  hazard     \* history: "none", "cut" (text was deleted under a selection), "panicked"

editorVars == <<session, history, yank, vim, draft, typed, hazard>>

(* A text is a sequence of bytes; a wide character has two.                *)
NL == "newline"
Bytes == {"v", "/", ":", NL, "lead", "trail"}   \* "v" is any other
Wide == <<"lead", "trail">>
Characters == {<<"v">>, <<"/">>, Wide}
Toggle == <<"/", "v">>   \* stands for /vim

(* String: the bytes of a wide character are never apart.                  *)
IsText(t) ==
  /\ t \in Seq(Bytes)
  /\ \A k \in 0 .. Len(t) : (k > 0 /\ t[k] = "lead") <=> (k < Len(t) /\ t[k + 1] = "trail")

ASSUME LineEditorAssumption ==
  /\ MaxText \in Nat /\ MaxTyped \in Nat /\ MaxHistory \in Nat
  /\ Completions \in Seq(Seq(Bytes)) /\ \A k \in DOMAIN Completions : IsText(Completions[k])

Fresh(enabled) ==
  [text |-> <<>>, cursor |-> 0, mode |-> IF enabled THEN "insert" ELSE "plain", pending |-> "none",
   anchor |-> 0, command |-> <<>>, commandCursor |-> 0, index |-> 0, backup |-> <<>>]

EditorInit ==
  /\ vim = FALSE /\ session = Fresh(vim)
  /\ history = <<>> /\ yank = <<>> /\ draft = <<>>
  /\ typed = 0 /\ hazard = "none"

-----------------------------------------------------------------------------
(* Positions.                                                              *)
Boundaries(t) == {p \in 0 .. Len(t) : p = Len(t) \/ t[p + 1] # "trail"}
PreviousBoundary(t, p) == Max({0} \cup {b \in Boundaries(t) : b < p})

(* Slip: the next character is one byte further. *)
NextByte(t, p) == IF p >= Len(t) THEN Len(t) ELSE p + 1
NextBoundary(t, p) == IF p >= Len(t) THEN Len(t) ELSE Min({b \in Boundaries(t) : b > p})

LineStart(t, p) == Max({0} \cup {k \in 1 .. p : t[k] = NL})
LineEnd(t, p) == Min({Len(t)} \cup {k \in p .. Len(t) - 1 : t[k + 1] = NL})

(* The column, in characters, of the line above or below, or its end.      *)
AtColumn(t, start, end, column) ==
  LET inLine == {b \in Boundaries(t) : b \in start .. end}
  IN  IF column >= Cardinality(inLine) THEN end
      ELSE CHOOSE b \in inLine : Cardinality({a \in inLine : a < b}) = column

Vertical(t, p, down) ==
  LET start == LineStart(t, p)
      column == Cardinality({b \in Boundaries(t) : b \in start .. p - 1})
      below == LineEnd(t, p) + 1
  IN  IF down THEN IF LineEnd(t, p) = Len(t) THEN p ELSE AtColumn(t, below, LineEnd(t, below), column)
      ELSE IF start = 0 THEN p ELSE AtColumn(t, LineStart(t, start - 1), start - 1, column)

Splice(t, from, to, x) == SubSeq(t, 1, from) \o x \o SubSeq(t, to + 1, Len(t))

(* Modes, and the text that is active in them.                             *)
Commanding(s) == s.mode = "command"
Active(s) == IF Commanding(s) THEN s.command ELSE s.text
Typing(s) == s.mode \in {"plain", "insert", "command"}
Edited(s, t, p) == IF Commanding(s) THEN [s EXCEPT !.command = t, !.commandCursor = p]
                   ELSE [s EXCEPT !.text = t, !.cursor = p]
Place(s) == IF Commanding(s) THEN s.commandCursor ELSE s.cursor
Enter(s, mode) == [s EXCEPT !.mode = mode, !.pending = "none", !.anchor = 0]
LeaveCommand(s) == [Enter(s, "normal") EXCEPT !.command = <<>>, !.commandCursor = 0]

(* render: the bounds of a selection are asked for from the anchor.        *)
RenderPanics(s) ==
  /\ s.mode = "visual" /\ s.cursor < s.anchor /\ s.anchor < Len(s.text)
  /\ s.anchor \notin Boundaries(s.text)

Continue(s) ==
  /\ session' = s
  /\ hazard' = IF RenderPanics(s) THEN "panicked"
               ELSE IF s.mode # "visual" THEN "none"
               ELSE IF session.mode = "visual" /\ Len(s.text) < Len(session.text) THEN "cut" ELSE hazard
Reading == hazard # "panicked"

-----------------------------------------------------------------------------
(* Keys that insert or delete.                                             *)
Insert(x) ==
  /\ Reading /\ Typing(session)
  /\ Len(Active(session)) + Len(x) <= MaxText
  /\ Continue(Edited(session, Splice(Active(session), Place(session), Place(session), x),
                     Place(session) + Len(x)))
  /\ typed' = typed + Len(x) /\ typed' <= MaxTyped
  /\ UNCHANGED <<history, yank, vim, draft>>

Backspace ==
  /\ Reading
  /\ LET s == session
         t == Active(s)
         start == PreviousBoundary(t, Place(s))
     IN  Continue(CASE s.mode \in {"normal", "visual"}           -> [s EXCEPT !.cursor = start]
                    [] Commanding(s) /\ s.commandCursor <= 1      -> LeaveCommand(s)
                    [] OTHER -> Edited(s, Splice(t, start, Place(s), <<>>), start))
  /\ UNCHANGED <<history, yank, vim, draft, typed>>

(* Delete, and Control-D unless there is nothing, when it leaves.          *)
Delete ==
  /\ Reading
  /\ LET t == Active(session)
         p == Place(session)
     IN  Continue(Edited(session, Splice(t, p, NextBoundary(t, p), <<>>), p))
  /\ UNCHANGED <<history, yank, vim, draft, typed>>

(* Tab: the first completion of a text that is a command up to the cursor. *)
Complete ==
  /\ Reading /\ ~Commanding(session)
  /\ LET t == session.text
         fits == {k \in DOMAIN Completions : Completions[k] # t /\ Len(Completions[k]) >= Len(t)
                                             /\ SubSeq(Completions[k], 1, Len(t)) = t}
     IN  /\ session.cursor = Len(t) /\ t # <<>> /\ t[1] = "/" /\ fits # {}
         /\ LET c == Completions[Min(fits)]
            IN  /\ Continue(Edited(session, c, Len(c)))
                /\ typed' = typed + Len(c) - Len(t) /\ typed' <= MaxTyped
  /\ UNCHANGED <<history, yank, vim, draft>>

-----------------------------------------------------------------------------
(* Keys that move.                                                         *)
Floor(s) == IF Commanding(s) THEN 1 ELSE 0
Moves(s) ==
  LET t == Active(s)
      p == Place(s)
  IN  {Max({PreviousBoundary(t, p), Floor(s)}), NextBoundary(t, p)} \cup
      (IF Commanding(s) THEN {1, Len(t)} ELSE {LineStart(t, p), LineEnd(t, p)}) \cup
      (IF s.mode \in {"normal", "visual"} THEN {Vertical(t, p, TRUE), Vertical(t, p, FALSE)} ELSE {})

Move ==
  /\ Reading
  /\ \E p \in Moves(session) : Continue(Edited(session, Active(session), p))
  /\ UNCHANGED <<history, yank, vim, draft, typed>>

(* A letter of normal mode forgets the operator it does not complete.      *)
MoveByLetter ==
  /\ Reading /\ session.mode = "normal" /\ session.pending # "none"
  /\ \E p \in Moves(session) : Continue([session EXCEPT !.cursor = p, !.pending = "none"])
  /\ UNCHANGED <<history, yank, vim, draft, typed>>

Escape ==
  /\ Reading
  /\ Continue(CASE session.mode = "insert" ->
                     Enter([session EXCEPT !.cursor = PreviousBoundary(session.text, @)], "normal")
                [] session.mode = "visual" -> Enter(session, "normal")
                [] session.mode = "command" -> LeaveCommand(session)
                [] OTHER -> session)
  /\ UNCHANGED <<history, yank, vim, draft, typed>>

ChangeMode ==
  /\ Reading
  /\ \/ session.mode = "normal" /\ Continue(Enter(session, "insert"))
     \/ session.mode = "normal" /\ Continue([Enter(session, "visual") EXCEPT !.anchor = session.cursor])
     \/ session.mode = "normal" /\ Continue([Enter(session, "command") EXCEPT !.command = <<":">>, !.commandCursor = 1])
     \/ session.mode = "visual" /\ Continue(Enter(session, "normal"))
  /\ UNCHANGED <<history, yank, vim, draft, typed>>

-----------------------------------------------------------------------------
(* dd, yy and p.  The last line goes with the newline before it.           *)
LineRange(t, p) ==
  LET start == LineStart(t, p)
      end == IF LineEnd(t, p) < Len(t) THEN LineEnd(t, p) + 1 ELSE LineEnd(t, p)
  IN  [start |-> start, end |-> end, cut |-> IF end = Len(t) /\ start > 0 THEN start - 1 ELSE start]
LineOf(t, p) == SubSeq(t, LineRange(t, p).start + 1, LineRange(t, p).end)
WithoutLine(t, p) == Splice(t, LineRange(t, p).cut, LineRange(t, p).end, <<>>)

EndsLine(t) == t # <<>> /\ t[Len(t)] = NL
InsertionPoint(t, p) == IF LineEnd(t, p) < Len(t) THEN LineEnd(t, p) + 1 ELSE Len(t)

Insertion(t, at, line) ==
  LET before == IF at = Len(t) /\ t # <<>> /\ ~EndsLine(t) THEN <<NL>> \o line ELSE line
  IN  IF at < Len(t) /\ ~EndsLine(before) THEN Append(before, NL) ELSE before
WithLine(t, p, line) == Splice(t, InsertionPoint(t, p), InsertionPoint(t, p),
                               Insertion(t, InsertionPoint(t, p), line))

Operator(letter) ==
  /\ Reading /\ session.mode = "normal" /\ session.pending # letter
  /\ Continue([session EXCEPT !.pending = letter])
  /\ UNCHANGED <<history, yank, vim, draft, typed>>

DeleteLine ==
  /\ Reading /\ session.mode = "normal" /\ session.pending = "d"
  /\ LET t == session.text
         p == session.cursor
     IN  /\ yank' = LineOf(t, p)
         /\ Continue([session EXCEPT !.text = WithoutLine(t, p), !.pending = "none",
                                     !.cursor = Min({LineRange(t, p).cut, Len(WithoutLine(t, p))})])
  /\ UNCHANGED <<history, vim, draft, typed>>

YankLine ==
  /\ Reading /\ session.mode = "normal" /\ session.pending = "y"
  /\ yank' = LineOf(session.text, session.cursor)
  /\ Continue([session EXCEPT !.pending = "none"])
  /\ UNCHANGED <<history, vim, draft, typed>>

Paste ==
  /\ Reading /\ session.mode = "normal" /\ yank # <<>>
  /\ LET t == session.text
         at == InsertionPoint(t, session.cursor)
         x == Insertion(t, at, yank)
     IN  /\ Len(t) + Len(x) <= MaxText
         /\ typed' = typed + Len(x) /\ typed' <= MaxTyped
         /\ Continue([session EXCEPT !.text = WithLine(t, session.cursor, yank), !.pending = "none",
                                     !.cursor = IF x[1] = NL THEN at + 1 ELSE at])
  /\ UNCHANGED <<history, yank, vim, draft>>

-----------------------------------------------------------------------------
(* history_up keeps the text the first time, history_down brings it back.  *)
FromHistory(s, entry, index) ==
  [s EXCEPT !.text = entry, !.cursor = Len(entry), !.pending = "none", !.anchor = 0, !.index = index,
            !.mode = IF @ \in {"plain", "insert"} THEN @ ELSE "normal"]

HistoryUp ==
  /\ Reading /\ ~Commanding(session) /\ history # <<>>
  /\ LET first == session.index = 0
         next == IF first THEN Len(history) ELSE Max({session.index - 1, 1})
         kept == IF first THEN [session EXCEPT !.backup = session.text] ELSE session
     IN  /\ Continue(FromHistory(kept, history[next], next))
         /\ draft' = IF first THEN session.text ELSE draft
  /\ UNCHANGED <<history, yank, vim, typed>>

HistoryDown ==
  /\ Reading /\ ~Commanding(session) /\ session.index # 0
  /\ LET last == session.index = Len(history)
     IN  Continue(IF ~last THEN FromHistory(session, history[session.index + 1], session.index + 1)
                  ELSE [FromHistory(session, session.backup, 0) EXCEPT
                          !.backup = <<>>, !.mode = IF vim THEN "insert" ELSE "plain"])
  /\ UNCHANGED <<history, yank, vim, draft, typed>>

(* Enter, Control-C, Control-D: a new session.  run_repl keeps what was    *)
(* submitted unless it is blank or a command.                              *)
Trimmed(t) == SelectSeq(t, LAMBDA b : b # NL)
Kept(line) == Trimmed(line) # <<>> /\ Trimmed(line)[1] # "/"

Starts(enabled) ==
  /\ session' = Fresh(enabled) /\ vim' = enabled
  /\ hazard' = "none"
  /\ draft' = <<>>

Submit ==
  /\ Reading /\ Active(session) # Toggle
  /\ Kept(Active(session)) => Len(history) < MaxHistory
  /\ history' = IF Kept(Active(session)) THEN Append(history, Active(session)) ELSE history
  /\ Starts(vim)
  /\ UNCHANGED <<yank, typed>>

ToggleVim ==
  /\ Reading /\ Active(session) = Toggle
  /\ Starts(~vim)
  /\ UNCHANGED <<history, yank, typed>>

Cancel == Reading /\ Active(session) # <<>> /\ Starts(vim) /\ UNCHANGED <<history, yank, typed>>

EditorNext ==
  \/ (\E x \in Characters \cup {<<NL>>} : Insert(x))
  \/ Backspace \/ Delete \/ Complete \/ Move \/ MoveByLetter \/ Escape \/ ChangeMode
  \/ (\E letter \in {"d", "y"} : Operator(letter)) \/ DeleteLine \/ YankLine \/ Paste
  \/ HistoryUp \/ HistoryDown \/ Submit \/ ToggleVim \/ Cancel

EditorSpec == EditorInit /\ [][EditorNext]_editorVars

-----------------------------------------------------------------------------
EditorTypeOK ==
  /\ session.mode \in {"plain", "insert", "normal", "visual", "command"}
  /\ session.pending \in {"none", "d", "y"}
  /\ session.index \in 0 .. Len(history)
  /\ session.mode # "plain" => vim

(* No sequence of keys puts the cursor inside a character, outside the     *)
(* text, or before the colon of a command.                                 *)
CursorsAreBetweenCharacters ==
  /\ session.cursor \in Boundaries(session.text)
  /\ Commanding(session) =>
       /\ session.command[1] = ":"
       /\ session.commandCursor \in Boundaries(session.command) \ {0}

(* The editor panics only when something was deleted under a selection,    *)
(* which leaves the anchor where it was.                                   *)
PanicNeedsDeletion == RenderPanics(session) => hazard = "panicked" /\ session.mode = "visual"
AnchorIsBetweenCharacters ==
  session.mode = "visual" /\ hazard = "none" => session.anchor \in Boundaries(session.text)

(* While the history is browsed the text that was left for it is kept, and *)
(* entries are in order.                                                   *)
DraftIsKept == session.index # 0 => session.backup = draft

(* A line that is deleted and pasted again is a line again: the lines that *)
(* are not empty are the same, wherever the cursor was.                    *)
Lines(t) ==
  LET starts == {0} \cup {k \in 1 .. Len(t) : t[k] = NL}
  IN  {<<Cardinality({j \in starts : SubSeq(t, j + 1, LineEnd(t, j)) = SubSeq(t, s + 1, LineEnd(t, s))}),
         SubSeq(t, s + 1, LineEnd(t, s))>> : s \in starts}
WrittenLines(t) == {l \in Lines(t) : l[2] # <<>>}
DeletedLineComesBack ==
  session.mode = "normal" =>
    LET t == session.text
        p == session.cursor
        cut == WithoutLine(t, p)
        line == LineOf(t, p)
    IN  line # <<>> => WrittenLines(WithLine(cut, Min({LineRange(t, p).cut, Len(cut)}), line)) = WrittenLines(t)

EditorInv ==
  /\ EditorTypeOK /\ CursorsAreBetweenCharacters /\ PanicNeedsDeletion /\ AnchorIsBetweenCharacters
  /\ DraftIsKept

=============================================================================
