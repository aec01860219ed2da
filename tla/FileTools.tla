------------------------------ MODULE FileTools ------------------------------
(***************************************************************************)
(* The tools that change a file (write_file and edit_file of               *)
(* runtime/src/file_ops.rs; NotebookEdit, TodoWrite and Config of          *)
(* tools/src/lib.rs).  Each reads the file, works on what it read, and     *)
(* writes all of it back: truncated first, then filled.  The conversation  *)
(* and its sub-agents run them on threads of one process, with no lock.    *)
(*                                                                         *)
(* The second part is the tools that look into files: read_file and        *)
(* grep_search, and a model that asks for page after page.                 *)
(***************************************************************************)
EXTENDS Integers, SequencesExt, FiniteSetsExt

CONSTANTS
  Threads,   \* the conversation and its sub-agents
  Documents, \* [file -> "notebook", "settings", "todos", "text"]
  MaxEdits   \* bound: calls in all

ASSUME SharedFilesAssumption ==
  /\ \A f \in DOMAIN Documents : Documents[f] \in {"notebook", "settings", "todos", "text"}
  /\ MaxEdits \in Nat

VARIABLES
  disk,     \* [file -> its items, or <<Torn>> between truncation and writing]
  job,      \* [thread -> the call it is in]
  edits,    \* calls so far
  expected, \* history: [file -> what the calls that were acknowledged make of it, one by one]
  clean,    \* history: [file -> no two calls overlapped on it since all of it was replaced]
  deleted,  \* history: notebooks of which a cell was deleted
  dead      \* the process is gone

fileVars == <<disk, job, edits, expected, clean, deleted, dead>>

Files == DOMAIN Documents
Torn == [id |-> 0, by |-> 0]
NoJob == [at |-> "none"]
Keys == {1, 2}  \* settings that have a name, and where a text may be edited

-----------------------------------------------------------------------------
(* A notebook's cells have an id and a source; make_cell_id counts the     *)
(* cells there are.  An edit without an id takes the last cell, or appends.*)
IndexOf(cells, id) == CHOOSE k \in DOMAIN cells : cells[k].id = id /\ \A j \in 1 .. k - 1 : cells[j].id # id
Finds(cells, id) == \E k \in DOMAIN cells : cells[k].id = id

(* Slip: the id counts the cells before the new one. *)
MakeCellIdFromZero(cells) == Len(cells)
MakeCellId(cells) == Len(cells) + 1

Target(cells, op) ==
  IF op.id # 0 THEN IndexOf(cells, op.id) ELSE Len(cells)

NotebookEdit(cells, op) ==
  CASE op.mode = "insert" ->
         InsertAt(cells, Target(cells, op) + 1, [id |-> MakeCellId(cells), by |-> op.by])
    [] op.mode = "delete" -> RemoveAt(cells, Target(cells, op))
    [] op.mode = "replace" -> [cells EXCEPT ![Target(cells, op)].by = op.by]

NotebookTakes(cells, op) ==
  /\ op.id # 0 => Finds(cells, op.id)
  /\ op.mode # "insert" => cells # <<>>

(* edit_file replaces one or all of the places where its text is found;    *)
(* write_file and TodoWrite replace everything, Config one key.            *)
Without(items, key) == IF Finds(items, key) THEN RemoveAt(items, IndexOf(items, key)) ELSE items
SetKey(items, op) == Append(Without(items, op.id), [id |-> op.id, by |-> op.by])

EditText(items, op) ==
  LET first == IndexOf(items, op.id)
  IN  [k \in DOMAIN items |->
         IF items[k].id = op.id /\ (op.all \/ k = first) THEN [id |-> 0, by |-> op.by] ELSE items[k]]

Operations(kind, by) ==
  CASE kind = "notebook" -> [mode : {"insert", "delete", "replace"}, id : 0 .. 2, by : {by}]
    [] kind = "settings" -> [mode : {"set"}, id : Keys, by : {by}]
    [] kind = "todos" -> [mode : {"all"}, items : {<<>>, <<[id |-> 1, by |-> by]>>}, by : {by}]
    [] kind = "text" ->
         [mode : {"edit"}, id : Keys, all : BOOLEAN, by : {by}]
         \cup [mode : {"all"}, items : {<<[id |-> 1, by |-> by], [id |-> 2, by |-> by], [id |-> 1, by |-> by]>>},
               by : {by}]

Whole(op) == op.mode = "all"

(* What is read of a file that is truncated does not parse as a notebook   *)
(* or a list of todos, has no text to be found, and is an empty object to  *)
(* read_json_object.                                                       *)
IsTorn(content) == content = <<Torn>>
Accepted(kind, content, op) ==
  CASE kind = "notebook" -> ~IsTorn(content) /\ NotebookTakes(content, op)
    [] kind = "settings" -> TRUE
    [] kind = "todos" -> ~IsTorn(content)
    [] kind = "text" -> IF Whole(op) THEN TRUE ELSE ~IsTorn(content) /\ Finds(content, op.id)

Result(content, op) ==
  CASE Whole(op) -> op.items
    [] op.mode = "set" -> SetKey(IF IsTorn(content) THEN <<>> ELSE content, op)
    [] op.mode = "edit" -> EditText(content, op)
    [] OTHER -> NotebookEdit(content, op)

-----------------------------------------------------------------------------
FilesInit ==
  /\ disk = [f \in Files |-> IF Documents[f] = "notebook" THEN <<[id |-> 1, by |-> 0], [id |-> 2, by |-> 0]>>
                             ELSE <<>>]
  /\ job = [t \in Threads |-> NoJob]
  /\ edits = 0
  /\ expected = disk
  /\ clean = [f \in Files |-> TRUE]
  /\ deleted = {}
  /\ dead = FALSE

Busy(f) == {t \in Threads : job[t] # NoJob /\ job[t].file = f}

(* The call reads; what it read decides whether it goes on.                *)
ReadFile(t, f) ==
  /\ ~dead /\ job[t] = NoJob /\ edits < MaxEdits
  /\ edits' = edits + 1
  /\ \E op \in Operations(Documents[f], edits + 1) :
       /\ Accepted(Documents[f], disk[f], op)
       /\ job' = [job EXCEPT ![t] = [at |-> "read", file |-> f, op |-> op, content |-> Result(disk[f], op),
                                     alone |-> Busy(f) = {}]]
  /\ clean' = [clean EXCEPT ![f] = @ /\ Busy(f) = {}]
  /\ UNCHANGED <<disk, expected, deleted, dead>>

ReadRefused(t, f) ==
  /\ ~dead /\ job[t] = NoJob /\ edits < MaxEdits
  /\ \E op \in Operations(Documents[f], edits + 1) : ~Accepted(Documents[f], disk[f], op)
  /\ edits' = edits + 1
  /\ UNCHANGED <<disk, job, expected, clean, deleted, dead>>

Truncate(t) ==
  /\ ~dead /\ job[t].at = "read"
  /\ disk' = [disk EXCEPT ![job[t].file] = <<Torn>>]
  /\ job' = [job EXCEPT ![t].at = "truncated"]
  /\ UNCHANGED <<edits, expected, clean, deleted, dead>>

(* The call is acknowledged.  One that replaces everything and ran alone   *)
(* makes up for what happened before it.                                   *)
Fill(t) ==
  /\ ~dead /\ job[t].at = "truncated"
  /\ LET f == job[t].file
         fresh == Whole(job[t].op) /\ job[t].alone /\ Busy(f) = {t}
     IN  /\ disk' = [disk EXCEPT ![f] = job[t].content]
         /\ deleted' = deleted \cup (IF job[t].op.mode = "delete" THEN {f} ELSE {})
         /\ expected' = [expected EXCEPT ![f] =
              IF clean[f] \/ fresh THEN Result(@, job[t].op) ELSE job[t].content]
         /\ clean' = [clean EXCEPT ![f] = @ \/ fresh]
  /\ job' = [job EXCEPT ![t] = NoJob]
  /\ UNCHANGED <<edits, dead>>

FillFails(t) ==
  /\ ~dead /\ job[t].at \in {"read", "truncated"}
  /\ clean' = [clean EXCEPT ![job[t].file] = @ /\ job[t].at = "read"]
  /\ job' = [job EXCEPT ![t] = NoJob]
  /\ UNCHANGED <<disk, edits, expected, deleted, dead>>

(* The process dies and is started again on the same files.                *)
Die ==
  /\ ~dead /\ dead' = TRUE
  /\ clean' = [f \in Files |-> clean[f] /\ ~\E t \in Busy(f) : job[t].at = "truncated"]
  /\ job' = [t \in Threads |-> NoJob]
  /\ UNCHANGED <<disk, edits, expected, deleted>>

Restart == dead /\ dead' = FALSE /\ UNCHANGED <<disk, job, edits, expected, clean, deleted>>

FilesNext ==
  \/ \E t \in Threads : (\E f \in Files : ReadFile(t, f) \/ ReadRefused(t, f)) \/ Truncate(t) \/ Fill(t) \/ FillFails(t)
  \/ Die \/ Restart

FilesSpec == FilesInit /\ [][FilesNext]_fileVars

-----------------------------------------------------------------------------
FilesTypeOK ==
  /\ \A f \in Files : \A k \in DOMAIN disk[f] : disk[f][k].by \in 0 .. MaxEdits
  /\ \A t \in Threads : job[t] = NoJob \/ (job[t].file \in Files /\ job[t].at \in {"read", "truncated"})
  /\ edits \in 0 .. MaxEdits /\ dead \in BOOLEAN

(* Nothing that was acknowledged is lost, and nothing that failed is       *)
(* there, unless two calls overlapped on the file or one was cut short     *)
(* behind the truncation; a call that replaces everything, alone, puts     *)
(* that right.                                                             *)
AcknowledgedIsOnDisk ==
  \A f \in Files : clean[f] /\ Busy(f) = {} => disk[f] = expected[f]

(* The cells of a notebook keep different ids until one is deleted, even   *)
(* when calls overlap.                                                     *)
CellIdsDiffer ==
  \A f \in Files : Documents[f] = "notebook" /\ f \notin deleted =>
    \A j, k \in DOMAIN disk[f] : disk[f][j].id = disk[f][k].id => j = k

SharedFilesInv == FilesTypeOK /\ AcknowledgedIsOnDisk /\ CellIdsDiffer

-----------------------------------------------------------------------------
(* read_file and grep_search.  A model goes on at the end of what it got   *)
(* as long as it is told that there is more.  A line is the number of      *)
(* matches in it.  Of the patterns only what they leave is kept: files     *)
(* that pass the filters and can be read as text.                          *)
CONSTANTS
  SearchFiles,   \* number of files, in the order they are walked
  FileLines,     \* what a file may hold: sequences of numbers of matches
  Contexts,      \* lines of context that may be asked for, and Unset
  PageLimits,    \* limits that may be asked for, and Unset
  DefaultLimit   \* the limit of a search when none is asked for (250)

Unset == -1

ASSUME SearchAssumption ==
  /\ SearchFiles \in Nat /\ DefaultLimit \in Nat \ {0}
  /\ FileLines \subseteq Seq(Nat)
  /\ Contexts \subseteq Nat \cup {Unset} /\ PageLimits \subseteq Nat \cup {Unset}

VARIABLES
  tree,   \* of each file: [open, lines]; open: it passes and is text
  query,  \* [mode, before, after, context, limit]
  offset, \* where the next page begins
  pages,  \* the pages so far
  asks    \* is there another page to ask for?

searchVars == <<tree, query, offset, pages, asks>>

SearchModes == {"files_with_matches", "count", "content", "read"}
Queries == [mode : SearchModes, before : Contexts, after : Contexts, context : Contexts, limit : PageLimits]
TreeFiles == [open : BOOLEAN, lines : FileLines]
UnwrapOr(option, default) == IF option = Unset THEN default ELSE option

-----------------------------------------------------------------------------
(* matches_optional_filters and read_to_string leave some files out; of    *)
(* the others those count that have a match.                               *)
Matched(f) == {k \in DOMAIN tree[f].lines : tree[f].lines[k] > 0}
MatchingFiles == SelectSeq([f \in 1 .. SearchFiles |-> f], LAMBDA f : tree[f].open /\ Matched(f) # {})

(* The lines around each match, again where the surroundings overlap.      *)
Window(f, k) ==
  LET start == k - UnwrapOr(query.before, UnwrapOr(query.context, 0))
      end == k + UnwrapOr(query.after, UnwrapOr(query.context, 0))
  IN  [j \in 1 .. Min({end, Len(tree[f].lines)}) - Max({start, 1}) + 1 |-> <<f, Max({start, 1}) + j - 1>>]
ContentOf(f) == FlattenSeq([i \in 1 .. Cardinality(Matched(f)) |-> Window(f, SetToSortSeq(Matched(f), <)[i])])
ContentLines == FlattenSeq([i \in DOMAIN MatchingFiles |-> ContentOf(MatchingFiles[i])])

(* count counts the matches, the other modes the lines that have one.      *)
TotalMatches ==
  LET inFile(f) == IF query.mode = "count" THEN SumFunction(tree[f].lines) ELSE Cardinality(Matched(f))
  IN  SumFunction([i \in DOMAIN MatchingFiles |-> inFile(MatchingFiles[i])])

(* Slip: a page begins one later, and a limit of 0 shows nothing.          *)
ApplyLimitOffByOne(items, limit, from) ==
  LET rest == SubSeq(items, from + 2, Len(items))
      most == UnwrapOr(limit, DefaultLimit)
  IN  [items |-> SubSeq(rest, 1, Min({most, Len(rest)})), limit |-> IF Len(rest) > most THEN most ELSE Unset]

(* apply_limit; a limit of 0 is none.                                      *)
ApplyLimit(items, limit, from) ==
  LET rest == SubSeq(items, from + 1, Len(items))
      most == UnwrapOr(limit, DefaultLimit)
  IN  IF most = 0 THEN [items |-> rest, limit |-> Unset]
      ELSE [items |-> SubSeq(rest, 1, Min({most, Len(rest)})),
            limit |-> IF Len(rest) > most THEN most ELSE Unset]

(* grep_search: names are cut by the limit and the offset that cut lines.  *)
GrepSearch ==
  LET names == ApplyLimit(MatchingFiles, query.limit, offset)
      shown == ApplyLimit(ContentLines, query.limit, offset)
  IN  IF query.mode = "content"
      THEN [names |-> names.items, lines |-> shown.items, matches |-> Unset, from |-> offset, more |-> shown.limit]
      ELSE [names |-> names.items, lines |-> <<>>, from |-> offset, more |-> names.limit,
            matches |-> IF query.mode = "count" THEN TotalMatches ELSE Unset]

(* read_file of the first file: a window, held to the lines there are.     *)
ReadWindow ==
  LET lines == tree[1].lines
      start == Min({offset, Len(lines)})
      end == IF query.limit = Unset THEN Len(lines) ELSE Min({start + query.limit, Len(lines)})
  IN  [names |-> <<1>>, lines |-> [k \in 1 .. end - start |-> <<1, start + k>>], from |-> offset,
       more |-> IF end < Len(lines) THEN end - start ELSE Unset, matches |-> Unset]

-----------------------------------------------------------------------------
SearchInit ==
  /\ tree = [f \in 1 .. SearchFiles |-> [open |-> FALSE, lines |-> <<>>]]
  /\ query = [mode |-> "count", before |-> Unset, after |-> Unset, context |-> Unset, limit |-> Unset]
  /\ offset = 0 /\ pages = <<>> /\ asks = FALSE

(* Any files, and any question about them.                                 *)
Ask ==
  /\ ~asks /\ pages = <<>>
  /\ tree' \in [1 .. SearchFiles -> TreeFiles] /\ query' \in Queries
  /\ query'.mode = "read" => tree'[1].open
  /\ asks' = TRUE
  /\ UNCHANGED <<offset, pages>>

(* The next page begins behind the last one; one of no lines ends it.      *)
AskForPage ==
  /\ asks
  /\ LET page == IF query.mode = "read" THEN ReadWindow ELSE GrepSearch
     IN  /\ pages' = Append(pages, page)
         /\ asks' = (page.more \notin {Unset, 0})
         /\ offset' = IF asks' THEN offset + page.more ELSE offset
  /\ UNCHANGED <<tree, query>>

SearchNext == Ask \/ AskForPage

SearchSpec == SearchInit /\ [][SearchNext]_searchVars

-----------------------------------------------------------------------------
(* What a search has to find, said without its order: how often each line  *)
(* is shown is the number of matches it stands near to.                    *)
Near(k, match) ==
  /\ k >= match - UnwrapOr(query.before, UnwrapOr(query.context, 0))
  /\ k <= match + UnwrapOr(query.after, UnwrapOr(query.context, 0))
TimesShown(f, k) ==
  IF query.mode = "read" THEN IF f = 1 THEN 1 ELSE 0
  ELSE IF query.mode # "content" \/ ~tree[f].open THEN 0
  ELSE Cardinality({match \in DOMAIN tree[f].lines : tree[f].lines[match] > 0 /\ Near(k, match)})

AllLines == FlattenSeq([p \in DOMAIN pages |-> pages[p].lines])
AllNames == FlattenSeq([p \in DOMAIN pages |-> pages[p].names])

(* The pages, put together, are the whole answer: no line or name is left  *)
(* out or told twice where two pages meet, and the files stay in order.  A *)
(* window of no lines (read_file with a limit of 0) shows nothing.         *)
PagesMakeTheWhole ==
  ~asks /\ (query.mode = "read" => query.limit # 0) =>
    /\ \A f \in 1 .. SearchFiles : \A k \in DOMAIN tree[f].lines :
         Cardinality({i \in DOMAIN AllLines : AllLines[i] = <<f, k>>}) = TimesShown(f, k)
    /\ \A i \in 1 .. Len(AllLines) - 1 : AllLines[i][1] <= AllLines[i + 1][1]
    /\ query.mode \in {"count", "files_with_matches"} =>
         /\ ToSet(AllNames) = {f \in 1 .. SearchFiles : tree[f].open /\ \E k \in DOMAIN tree[f].lines : tree[f].lines[k] > 0}
         /\ \A i \in 1 .. Len(AllNames) - 1 : AllNames[i] < AllNames[i + 1]

(* The first page names the file of every line it shows; a later one need  *)
(* not, as it skips as many files as lines.                                *)
FirstPageNamesItsFiles ==
  pages # <<>> =>
    \A i \in DOMAIN pages[1].lines : pages[1].lines[i][1] \in ToSet(pages[1].names)

(* The matches that are counted are those of all files, not of the page,   *)
(* and the same on every page.                                             *)
CountIsOfTheWhole ==
  \A p \in DOMAIN pages : query.mode = "count" =>
    pages[p].matches = MapThenSumSet(LAMBDA f : SumFunction(tree[f].lines),
                                     {f \in 1 .. SearchFiles : tree[f].open})

SearchInv == PagesMakeTheWhole /\ FirstPageNamesItsFiles /\ CountIsOfTheWhole

=============================================================================
