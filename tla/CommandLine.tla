----------------------------- MODULE CommandLine -----------------------------
(***************************************************************************)
(* The command line of claw (claw-cli/src/main.rs, commands/src/lib.rs):   *)
(* parse_args takes the arguments one by one, and a session that is        *)
(* resumed carries out the slash commands that follow, one after the       *)
(* other, until one fails.  The help says which commands it takes.         *)
(***************************************************************************)
EXTENDS Naturals, SequencesExt, FiniteSetsExt

CONSTANTS
  Arguments,     \* what may stand on the command line
  MaxArguments,  \* bound: how many
  Slash,         \* those that are slash commands: [word, confirmed]
  Preserved,     \* messages a compaction keeps
  FileMessages    \* bound: messages of the session that is resumed

ASSUME CommandLineAssumption == MaxArguments \in Nat /\ Preserved \in Nat /\ FileMessages \in Nat /\ FileMessages > Preserved

VARIABLES
  args,    \* the command line
  taken,   \* how many of its arguments were taken
  parsed,  \* [mode, format, model, tools, version, rest]
  action,  \* what is to be done
  queue,   \* slash commands that are left of a resumed session
  transcript,  \* messages of the resumed session
  file,    \* messages in its file
  ended,   \* "no", or how the process ended
  done     \* history: the commands that were carried out

commandVars == <<args, taken, parsed, action, queue, transcript, file, ended, done>>

(* SLASH_COMMAND_SPECS: those with resume_supported, and the others.       *)
ResumeListed == {"help", "status", "compact", "clear", "cost", "config", "memory", "init", "diff",
                 "version", "export", "agents", "skills"}
OtherListed == {"model", "permissions", "resume", "bughunter", "branch", "worktree", "commit",
                "commit-push-pr", "pr", "issue", "ultraplan", "teleport", "debug-tool-call",
                "session", "plugin"}

(* SlashCommand::parse.                                                    *)
Parse(argument) ==
  LET word == Slash[argument].word
  IN  IF word \in ResumeListed \cup OtherListed THEN word
      ELSE IF word \in {"plugins", "marketplace"} THEN "plugin" ELSE "unknown"

(* The commands run_resume_command has code for; the rest is unsupported.  *)
Resumed == {"help", "compact", "clear", "status", "cost", "config", "memory", "init", "diff",
            "version", "export", "agents", "skills"}

-----------------------------------------------------------------------------
(* parse_args.  A flag that has a value takes whatever is next.            *)
PermissionModes == {"read-only", "workspace-write", "danger-full-access"}
Formats == {"text", "json"}
ValueFlags == {"--model", "--output-format", "--permission-mode", "--allowedTools"}
SwitchFlags == {"--version", "--print", "--dangerously-skip-permissions"}
ResolveModelAlias(model) == IF model = "opus" THEN "claude-opus-4-6" ELSE model

NothingParsed == [mode |-> "default", format |-> "text", model |-> "default",
                  tools |-> <<>>, version |-> FALSE, rest |-> <<>>]
Undecided == [does |-> "undecided"]
Does(what) == [does |-> what]
Prompts(words, p) == [does |-> "prompt", words |-> words, mode |-> p.mode, format |-> p.format,
                      model |-> p.model, tools |-> p.tools]
Refuses == action' = Does("refuse")

CommandInit ==
  /\ args \in UNION {[1 .. n -> Arguments] : n \in 0 .. MaxArguments}
  /\ taken = 0 /\ parsed = NothingParsed /\ action = Undecided
  /\ queue = <<>> /\ transcript = 0 /\ ended = "no" /\ done = <<>>
  /\ file \in {0, FileMessages}

Argument == args[taken + 1]
Parsing == action = Undecided /\ taken < Len(args)
Session == <<queue, transcript, file, ended, done>>

TakeSwitch ==
  /\ Parsing /\ Argument \in SwitchFlags
  /\ parsed' = CASE Argument = "--version" -> [parsed EXCEPT !.version = TRUE]
                 [] Argument = "--print" -> [parsed EXCEPT !.format = "text"]
                 [] OTHER -> [parsed EXCEPT !.mode = "danger-full-access"]
  /\ taken' = taken + 1
  /\ UNCHANGED <<args, action, Session>>

TakeValue ==
  /\ Parsing /\ Argument \in ValueFlags /\ taken + 2 <= Len(args)
  /\ LET value == args[taken + 2]
     IN  IF \/ (Argument = "--permission-mode" /\ value \notin PermissionModes)
            \/ (Argument = "--output-format" /\ value \notin Formats)
         THEN Refuses /\ UNCHANGED <<parsed, taken>>
         ELSE /\ parsed' = CASE Argument = "--model" -> [parsed EXCEPT !.model = ResolveModelAlias(value)]
                             [] Argument = "--output-format" -> [parsed EXCEPT !.format = value]
                             [] Argument = "--permission-mode" -> [parsed EXCEPT !.mode = value]
                             [] OTHER -> [parsed EXCEPT !.tools = Append(@, value)]
              /\ taken' = taken + 2 /\ UNCHANGED action
  /\ UNCHANGED <<args, Session>>

ValueIsMissing ==
  /\ Parsing /\ Argument \in ValueFlags /\ taken + 2 > Len(args) /\ Refuses
  /\ UNCHANGED <<args, taken, parsed, Session>>

(* -p: everything after it is the prompt, flags too; the configuration,    *)
(* the plugins or the allowed tools may then be refused.                   *)
(* Slip: only the next argument is. *)
TakePromptOfOne ==
  /\ Parsing /\ Argument = "-p" /\ taken + 2 <= Len(args)
  /\ action' = Prompts(<<args[taken + 2]>>, parsed)
  /\ UNCHANGED <<args, taken, parsed, Session>>
TakePrompt ==
  /\ Parsing /\ Argument = "-p"
  /\ IF taken + 1 = Len(args) THEN Refuses
     ELSE action' = Prompts(SubSeq(args, taken + 2, Len(args)), parsed) \/ Refuses
  /\ UNCHANGED <<args, taken, parsed, Session>>

TakeWord ==
  /\ Parsing /\ Argument \notin SwitchFlags \cup ValueFlags \cup {"-p"}
  /\ parsed' = [parsed EXCEPT !.rest = Append(@, Argument)] /\ taken' = taken + 1
  /\ UNCHANGED <<args, action, Session>>

(* What the words say.                                                     *)
Direct(argument) ==
  CASE Parse(argument) = "help" -> "help" [] Parse(argument) \in {"agents", "skills"} -> Parse(argument)
    [] OTHER -> "refuse"

Subcommands == {"dump-manifests", "bootstrap-plan", "agents", "skills", "login", "logout", "init"}

(* parse_system_prompt_args.                                               *)
PromptOptions(words) ==
  Len(words) % 2 = 0 /\ \A k \in DOMAIN words : k % 2 = 1 => words[k] \in {"--cwd", "--date"}

(* parse_resume_args: a session, and nothing but slash commands.           *)
ParseResumeArgs(words) ==
  IF words = <<>> \/ \E k \in 2 .. Len(words) : words[k] \notin DOMAIN Slash
  THEN Does("refuse") ELSE [does |-> "resume", commands |-> Tail(words)]

Decision ==
  LET first == parsed.rest[1]
      others == Tail(parsed.rest)
  IN  IF parsed.rest = <<>> THEN [Prompts(<<>>, parsed) EXCEPT !.does = "repl"]
      ELSE IF first \in {"--help", "-h"} THEN Does("help")
      ELSE IF first = "--resume" THEN ParseResumeArgs(others)
      ELSE IF first \in Subcommands THEN Does(first)
      ELSE IF first = "system-prompt" THEN Does(IF PromptOptions(others) THEN first ELSE "refuse")
      ELSE IF first = "prompt" THEN IF others = <<>> THEN Does("refuse") ELSE Prompts(others, parsed)
      ELSE IF first \in DOMAIN Slash THEN Does(Direct(first))
      ELSE Prompts(parsed.rest, parsed)

(* Even help needs a configuration that loads and tools that exist.        *)
Decide ==
  /\ action = Undecided /\ taken = Len(args)
  /\ \/ parsed.version /\ action' = Does("version")
     \/ ~parsed.version /\ Refuses
     \/ ~parsed.version /\ action' = Decision
  /\ UNCHANGED <<args, taken, parsed, Session>>

-----------------------------------------------------------------------------
(* resume_session.                                                         *)
LoadSession ==
  /\ action.does = "resume" /\ ended = "no" /\ done = <<>> /\ queue = <<>>
  /\ \/ transcript' = file /\ queue' = action.commands
        /\ ended' = IF action.commands = <<>> THEN "restored" ELSE "no"
     \/ ended' = "no session" /\ UNCHANGED <<transcript, queue>>
  /\ UNCHANGED <<args, taken, parsed, action, file, done>>

(* run_resume_command: a command that changes the session writes it.       *)
After(argument) ==
  CASE Parse(argument) = "compact" -> IF transcript > Preserved THEN Preserved + 1 ELSE transcript
    [] Parse(argument) = "clear" /\ Slash[argument].confirmed -> 0
    [] OTHER -> transcript

RunResumed ==
  /\ queue # <<>> /\ ended = "no" /\ Parse(Head(queue)) \in Resumed
  /\ transcript' = After(Head(queue))
  /\ file' = IF Parse(Head(queue)) = "compact" \/ After(Head(queue)) # transcript THEN transcript' ELSE file
  /\ queue' = Tail(queue) /\ done' = Append(done, Head(queue))
  /\ ended' = IF Len(queue) = 1 THEN "done" ELSE "no"
  /\ UNCHANGED <<args, taken, parsed, action>>

(* A report or a file may fail, an export, a git command.                  *)
ResumedFails ==
  /\ queue # <<>> /\ ended = "no" /\ Parse(Head(queue)) \in Resumed \ {"help", "cost", "version"}
  /\ ended' = "failed"
  /\ UNCHANGED <<args, taken, parsed, action, queue, transcript, file, done>>

RefuseResumed ==
  /\ queue # <<>> /\ ended = "no" /\ Parse(Head(queue)) \notin Resumed
  /\ ended' = "unsupported"
  /\ UNCHANGED <<args, taken, parsed, action, queue, transcript, file, done>>

CommandNext ==
  \/ TakeSwitch \/ TakeValue \/ ValueIsMissing \/ TakePrompt \/ TakeWord \/ Decide
  \/ LoadSession \/ RunResumed \/ ResumedFails \/ RefuseResumed

CommandSpec == CommandInit /\ [][CommandNext]_commandVars

-----------------------------------------------------------------------------
(* What an argument is for, told by its place alone.                       *)
Roles ==
  LET role[k \in 0 .. Len(args)] ==
        IF k = 0 THEN "word"
        ELSE IF role[k - 1] = "value flag" THEN "value"
        ELSE IF role[k - 1] \in {"prompt flag", "prompt"} THEN "prompt"
        ELSE IF args[k] \in ValueFlags THEN "value flag"
        ELSE IF args[k] \in SwitchFlags THEN "switch"
        ELSE IF args[k] = "-p" THEN "prompt flag" ELSE "word"
  IN  role
Places(roles) == {k \in 1 .. Len(args) : Roles[k] \in roles}
InOrder(places) ==
  LET order == SetToSortSeq(places, LAMBDA a, b : a < b) IN [k \in DOMAIN order |-> args[order[k]]]
Said ==
  LET words == InOrder(Places({"word"}))
  IN  IF Places({"prompt flag"}) # {} THEN InOrder(Places({"prompt"}))
      ELSE IF words # <<>> /\ words[1] = "prompt" THEN Tail(words) ELSE words

ModePlaces == {k \in Places({"switch", "value"}) :
                 \/ (Roles[k] = "switch" /\ args[k] = "--dangerously-skip-permissions")
                 \/ (Roles[k] = "value" /\ args[k - 1] = "--permission-mode")}
ModeAsked == IF ModePlaces = {} THEN "default"
             ELSE IF Roles[Max(ModePlaces)] = "switch" THEN "danger-full-access" ELSE args[Max(ModePlaces)]

(* A prompt is all the words, or all that follows -p, in their order, and  *)
(* runs in the mode that was asked for last before it: no flag that stands *)
(* after -p counts, and nobody gets full access by a word of the prompt.   *)
PromptIsWhatWasSaid ==
  action.does \in {"prompt", "repl"} => action.mode = ModeAsked /\ action.words = Said

(* The file of a resumed session is the session after every command, and   *)
(* only compact and a confirmed clear change it.                           *)
Cleared == \E k \in DOMAIN done : Parse(done[k]) = "clear" /\ Slash[done[k]].confirmed
Shortened == \E k \in DOMAIN done : Parse(done[k]) = "compact"
FileFollows ==
  queue # <<>> \/ done # <<>> =>
    /\ file = transcript
    /\ transcript \in (IF Cleared THEN {0} ELSE IF Shortened THEN {0, Preserved + 1} ELSE {0, FileMessages})

(* A command that the help lists for resumed sessions is never refused by  *)
(* one, one it does not list never runs, and those carried out are the     *)
(* first of the line, in its order.                                        *)
HelpIsTrue ==
  /\ ended = "unsupported" => Parse(Head(queue)) \notin ResumeListed
  /\ \A k \in DOMAIN done : Parse(done[k]) \in ResumeListed
  /\ queue # <<>> \/ done # <<>> => done \o queue = action.commands

CommandInv == PromptIsWhatWasSaid /\ FileFollows /\ HelpIsTrue

=============================================================================
