----------------------------- MODULE MCTerminal ------------------------------
(***************************************************************************)
(* Small instances of what a user works with at the terminal: the command  *)
(* line, the line editor, the files of sessions, the progress report and   *)
(* the git commands.  They never meet: a behaviour is one of one of them,  *)
(* and the others stay as they begin.                                      *)
(***************************************************************************)
EXTENDS CommandLine, LineEditor, SessionFiles, ProgressReporter, GitWorkflow, TLC

CONSTANTS p1, p2

VARIABLE part   \* the component the behaviour is of

MCProcs == {p1, p2}
MCCompletions == << <<"/", "v">> >>
MCArguments ==
  {"--permission-mode", "read-only", "--dangerously-skip-permissions", "-p", "--version",
   "--allowedTools", "--resume", "hello", "prompt", "/compact", "/clear --confirm", "/model"}
MCSlash ==
  "/compact" :> [word |-> "compact", confirmed |-> FALSE] @@
  "/clear --confirm" :> [word |-> "clear", confirmed |-> TRUE] @@
  "/model" :> [word |-> "model", confirmed |-> FALSE]

MCLastSegment == [t \in Trunks |-> IF t = "release/1.0" THEN "1.0" ELSE t]

TerminalInit ==
  /\ part \in {"arguments", "editor", "sessions", "progress", "git"}
  /\ CommandInit /\ (part # "arguments" => args = <<>> /\ file = 0)
  /\ EditorInit /\ Init /\ ProgressInit
  /\ GitInit /\ (part # "git" => origin.trunk = "master" /\ origin.recorded = "master")

TerminalNext ==
  /\ UNCHANGED part
  /\ \/ /\ part = "arguments" /\ CommandNext
        /\ UNCHANGED <<editorVars, vars, progressVars, gitVars>>
     \/ /\ part = "editor" /\ EditorNext
        /\ UNCHANGED <<commandVars, vars, progressVars, gitVars>>
     \/ /\ part = "sessions" /\ Next
        /\ UNCHANGED <<commandVars, editorVars, progressVars, gitVars>>
     \/ /\ part = "progress" /\ ProgressNext
        /\ UNCHANGED <<commandVars, editorVars, vars, gitVars>>
     \/ /\ part = "git" /\ GitNext
        /\ UNCHANGED <<commandVars, editorVars, vars, progressVars>>

TerminalSpec ==
  TerminalInit /\ [][TerminalNext]_<<part, commandVars, editorVars, vars, progressVars, gitVars>>

(* What is typed means what it says: the arguments of claw are taken for   *)
(* what they are, and a line that is deleted comes back when it is pasted. *)
InputInv == CommandInv /\ DeletedLineComesBack

=============================================================================
