-------------------------- MODULE ProviderRequests --------------------------
(***************************************************************************)
(* What a session looks like to a provider, and what a reply looks like in *)
(* the session: convert_messages, the translation to the OpenAI form, and  *)
(* the way back, with arguments that may be no JSON or be empty.  And the  *)
(* instruction files that every request begins with.                       *)
(***************************************************************************)
EXTENDS Integers, Sequences, SequencesExt

CONSTANTS
  Keep,        \* messages that compaction preserves
  MaxTranscript  \* bound: messages a session has seen

ASSUME RequestsAssumption == Keep \in Nat \ {0} /\ MaxTranscript \in Nat

VARIABLES
  dialogue,  \* the messages of the session
  seen,      \* messages it has had
  due,       \* tool uses of the turn without a result
  talking    \* whether a turn runs

requestVars == <<dialogue, seen, due, talking>>

SomeText == [kind |-> "text", id |-> 0, input |-> "none", ran |-> "none"]
Use(id, input) == [kind |-> "use", id |-> id, input |-> input, ran |-> "none"]
Result(id, ran) == [kind |-> "result", id |-> id, input |-> "none", ran |-> ran]

RequestsInit == dialogue = <<>> /\ seen = 0 /\ due = <<>> /\ talking = FALSE

-----------------------------------------------------------------------------
(* A reply.  Arguments are an object, the empty object, or no JSON; a      *)
(* whole response wraps what is no JSON, a stream keeps its text as it is  *)
(* and holds nothing when only the empty object came.                      *)
Arguments == {"object", "empty", "broken"}
ParseToolArguments(a) == IF a = "broken" THEN "raw broken" ELSE a
ArgumentsReceived(a, streamed) ==
  IF ~streamed THEN ParseToolArguments(a) ELSE IF a = "empty" THEN "" ELSE a

(* What is no JSON is wrapped when it is sent back.                        *)
ReadBack(input) ==
  CASE input = "" -> "raw nothing" [] input = "broken" -> "raw broken" [] OTHER -> input

(* CliToolExecutor::execute parses the input again.                        *)
Runs(input) == IF input \in {"", "broken"} THEN "refused" ELSE input

-----------------------------------------------------------------------------
(* convert_messages, then translate_message for each message: an assistant *)
(* message is one message with its calls, the others one for each block.   *)
InputMessage(m) == [role |-> IF m.role = "assistant" THEN "assistant" ELSE "user", blocks |-> m.blocks]
ConvertMessages(s) == SelectSeq([k \in DOMAIN s |-> InputMessage(s[k])], LAMBDA m : m.blocks # <<>>)

CallsOf(blocks) ==
  LET uses == SelectSeq(blocks, LAMBDA b : b.kind = "use")
  IN  [k \in DOMAIN uses |-> [id |-> uses[k].id, arguments |-> ReadBack(uses[k].input)]]
Out(role, id, calls) == [role |-> role, id |-> id, calls |-> calls]

TranslateMessage(m) ==
  IF m.role = "assistant" THEN <<Out("assistant", 0, CallsOf(m.blocks))>>
  ELSE [k \in DOMAIN m.blocks |-> IF m.blocks[k].kind = "text" THEN Out("user", 0, <<>>)
                                  ELSE Out("tool", m.blocks[k].id, <<>>)]
(* Slip: the results come after the texts. *)
ResultsLast(s) ==
  LET all == FlattenSeq([k \in DOMAIN s |-> TranslateMessage(ConvertMessages(s)[k])])
  IN  SelectSeq(all, LAMBDA o : o.role # "tool") \o SelectSeq(all, LAMBDA o : o.role = "tool")
BuildRequest(s) ==
  LET messages == ConvertMessages(s)
  IN  FlattenSeq([k \in DOMAIN messages |-> TranslateMessage(messages[k])])

-----------------------------------------------------------------------------
(* The conversation: a turn may fail between a request and its reply.      *)
AddMessage(role, blocks) == dialogue' = Append(dialogue, [role |-> role, blocks |-> blocks]) /\ seen' = seen + 1

UserSays ==
  /\ ~talking /\ seen < MaxTranscript
  /\ AddMessage("user", <<SomeText>>) /\ talking' = TRUE /\ UNCHANGED due

Reply(streamed, texts, arguments) ==
  /\ talking /\ due = <<>> /\ texts + Len(arguments) > 0 /\ seen < MaxTranscript
  /\ LET uses == [k \in DOMAIN arguments |-> Use(10 * seen + k, ArgumentsReceived(arguments[k], streamed))]
     IN  AddMessage("assistant", [k \in 1 .. texts |-> SomeText] \o uses) /\ due' = uses
  /\ talking' = (arguments # <<>>)

TurnFails == talking /\ due = <<>> /\ talking' = FALSE /\ UNCHANGED <<dialogue, seen, due>>

RunTool ==
  /\ due # <<>>
  /\ AddMessage("tool", <<Result(Head(due).id, Runs(Head(due).input))>>) /\ due' = Tail(due)
  /\ UNCHANGED talking

CompactDialogue ==
  /\ ~talking /\ Len(dialogue) > Keep
  /\ dialogue' = <<[role |-> "system", blocks |-> <<SomeText>>]>> \o SubSeq(dialogue, Len(dialogue) - Keep + 1, Len(dialogue))
  /\ dialogue[1].role = "system" => Len(dialogue) > Keep + 1
  /\ UNCHANGED <<seen, due, talking>>

RequestsNext ==
  \/ UserSays \/ TurnFails \/ RunTool \/ CompactDialogue
  \/ \E streamed \in BOOLEAN, texts \in 0 .. 1, arguments \in BoundedSeq(Arguments, 2) : Reply(streamed, texts, arguments)

RequestsSpec == RequestsInit /\ [][RequestsNext]_requestVars

-----------------------------------------------------------------------------
Request == BuildRequest(dialogue)

(* Every call of a request is followed at once by its results, in their    *)
(* order, and every result follows its call - but for results that head    *)
(* the request after a compaction cut them off, which a provider refuses.  *)
CallsAreAnswered ==
  due = <<>> =>
    LET messages == Request
    IN \A k \in DOMAIN messages : messages[k].role = "assistant" =>
    LET calls == messages[k].calls
    IN  /\ k + Len(calls) <= Len(messages)
        /\ \A j \in DOMAIN calls : messages[k + j].role = "tool" /\ messages[k + j].id = calls[j].id
        /\ k + Len(calls) + 1 \in DOMAIN messages => messages[k + Len(calls) + 1].role # "tool"
OrphansHeadTheRequest ==
  LET messages == Request
  IN \A k \in DOMAIN messages : messages[k].role = "tool" =>
    \/ \E j \in 1 .. k - 1 : \E c \in DOMAIN messages[j].calls : messages[j].calls[c].id = messages[k].id
    \/ \A j \in 2 .. k : messages[j].role = "tool"

(* Arguments that are sent back are JSON and are what the model gave, and  *)
(* a tool ran on nothing else: what was no JSON reaches a tool only from a *)
(* whole response, wrapped, and an empty object that was streamed is lost. *)
ArgumentsSettle ==
  LET messages == Request
  IN \A k \in DOMAIN messages : \A c \in DOMAIN messages[k].calls :
    LET a == messages[k].calls[c].arguments
    IN  /\ ReadBack(a) = a /\ a \notin {"", "broken"}
        /\ \A m \in DOMAIN dialogue : \A b \in DOMAIN dialogue[m].blocks :
             LET r == dialogue[m].blocks[b]
             IN  r.kind = "result" /\ r.id = messages[k].calls[c].id => r.ran = a \/ r.ran = "refused"

RequestsInv == CallsAreAnswered /\ OrphansHeadTheRequest /\ ArgumentsSettle

-----------------------------------------------------------------------------
(* The other part of a request: the instruction files in its system prompt *)
(* (runtime/src/prompt.rs), found in the directories from the root to the  *)
(* working directory, each content once, each file cut and all of them     *)
(* within one budget.                                                      *)
CONSTANTS
  Depth,      \* directories above the working directory
  FileNames, \* names of instruction files, in the order they are tried
  FileSizes,      \* characters a content may have
  PerFile,    \* MAX_INSTRUCTION_FILE_CHARS
  Total,      \* MAX_TOTAL_INSTRUCTION_CHARS
  Marker      \* characters of the mark that a content was cut

ASSUME InstructionAssumption ==
  /\ Depth \in Nat /\ FileSizes \subseteq Nat /\ PerFile \in Nat \ {0}
  /\ Total \in Nat /\ PerFile <= Total /\ Marker \in Nat

VARIABLES
  files,   \* the files: where -> content
  prompt   \* what was built of them last: "none", "failed", or the sections

fileListVars == <<files, prompt>>

(* A content is its identity, as the hash of its normalised text has it,   *)
(* and its size; a file may be missing, blank or impossible to read.       *)
Places == (0 .. Depth) \X DOMAIN FileNames
Contents == [text : {"a", "b"}, size : FileSizes]
Special(text) == [text |-> text, size |-> 0]
Missing == Special("missing")
Blank == Special("blank")
Unreadable == Special("unreadable")

NotBuilt == [state |-> "none", sections |-> <<>>, notice |-> FALSE]
FilesListed == [p \in Places |-> Missing]
InstructionsInit == files = FilesListed /\ prompt = NotBuilt

ChangeFile ==
  /\ \E p \in Places, c \in Contents \cup {Missing, Blank, Unreadable} : files' = [files EXCEPT ![p] = c]
  /\ prompt' = NotBuilt

-----------------------------------------------------------------------------
(* discover_instruction_files: from the root downwards.                    *)
Ordered == [k \in 1 .. (Depth + 1) * Len(FileNames) |->
              <<(k - 1) \div Len(FileNames), ((k - 1) % Len(FileNames)) + 1>>]
Found == SelectSeq(Ordered, LAMBDA p : files[p] \in Contents)

(* dedupe_instruction_files keeps the first of equal contents.             *)
DedupeInstructionFiles ==
  SelectSeq(Found, LAMBDA p : ~\E j \in DOMAIN Found :
              /\ files[Found[j]] = files[p]
              /\ \A k \in DOMAIN Found : Found[k] = p => j < k)

(* truncate_instruction_content, which render_instruction_content applies  *)
(* to its own result; render_instruction_files.                            *)
Lesser(a, b) == IF a < b THEN a ELSE b
Truncated(size, remaining) ==
  IF size <= Lesser(PerFile, remaining) THEN size ELSE Lesser(PerFile, remaining) + Marker

(* Slip: the budget is spent by what the file holds, not by what is shown. *)
SpendContent(state, p) ==
  IF state.remaining = 0 THEN [state EXCEPT !.notice = TRUE]
  ELSE [state EXCEPT !.remaining = @ - Lesser(Lesser(files[p].size, PerFile) \div 2, @),
                     !.sections = Append(@, [at |-> p, shown |-> Lesser(files[p].size, Lesser(PerFile, state.remaining)),
                                             whole |-> files[p].size <= Lesser(PerFile, state.remaining)])]
RenderFile(state, p) ==
  IF state.remaining = 0 THEN [state EXCEPT !.notice = TRUE]
  ELSE LET raw == Truncated(files[p].size, state.remaining)
           rendered == Truncated(raw, PerFile)
       IN  [state EXCEPT !.remaining = @ - Lesser(rendered, @),
                         !.sections = Append(@, [at |-> p, shown |-> Lesser(files[p].size, Lesser(PerFile, state.remaining)),
                                                 whole |-> raw = files[p].size])]

Build ==
  /\ prompt' = IF \E p \in Places : files[p] = Unreadable THEN [NotBuilt EXCEPT !.state = "failed"]
               ELSE LET end == FoldLeft(RenderFile, [remaining |-> Total, sections |-> <<>>, notice |-> FALSE],
                                        DedupeInstructionFiles)
                    IN  [state |-> "built", sections |-> end.sections, notice |-> end.notice]
  /\ UNCHANGED files

InstructionsNext == ChangeFile \/ Build
InstructionsSpec == InstructionsInit /\ [][InstructionsNext]_fileListVars

-----------------------------------------------------------------------------
Shown == prompt.sections
Spent == FoldSeq(LAMBDA s, sum : s.shown + sum, 0, Shown)

(* The prompt holds no more of the files than the budget, and no content   *)
(* twice, however many files and however large.                            *)
BudgetIsKept ==
  /\ Spent <= Total /\ \A k \in DOMAIN Shown : Shown[k].shown <= PerFile
  /\ \A j, k \in DOMAIN Shown : files[Shown[j].at] = files[Shown[k].at] => j = k

(* A content that was found is in the prompt, or all that is left out of   *)
(* it is nearer the working directory than what is in it, and a notice     *)
(* says so.  A file is cut only when it or the budget is too small.        *)
NearestIsLeftOut ==
  prompt.state = "built" =>
    /\ \A p \in Places : files[p] \in Contents =>
         \/ \E k \in DOMAIN Shown : files[Shown[k].at] = files[p] /\ Shown[k].at[1] <= p[1]
         \/ prompt.notice /\ \A k \in DOMAIN Shown : Shown[k].at[1] <= p[1]
    /\ \A k \in DOMAIN Shown :
         ~Shown[k].whole => \/ files[Shown[k].at].size > PerFile
                            \/ k = Len(Shown) /\ Spent + Marker * Len(Shown) >= Total

InstructionsInv == BudgetIsKept /\ NearestIsLeftOut

=============================================================================
