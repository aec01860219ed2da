---------------------------- MODULE HookCommands -----------------------------
(***************************************************************************)
(* The commands of one hook event as processes (plugins/src/hooks.rs, and  *)
(* runtime/src/hooks.rs, which is the same code).  Conversation takes      *)
(* their verdict as given; this is how it comes about.  claw writes all of *)
(* the payload to a command before it reads anything of its output, both   *)
(* through pipes that hold a few pieces, and a command reads, prints and   *)
(* ends as it likes.                                                       *)
(***************************************************************************)
EXTENDS Integers, SequencesExt

CONSTANTS
  Hooks,    \* commands configured for the event
  Pipe,     \* pieces a pipe holds
  Payload   \* pieces of the JSON payload

ASSUME HooksAssumption == Hooks \in Nat /\ Pipe \in Nat \ {0} /\ Payload \in Nat \ {0}

VARIABLES
  runner,    \* "idle", "writing", "waiting", "over"
  script,    \* what the present command does: [first, reads, prints, code]
  child,     \* "none", "runs", "ended"
  input,     \* [written, heard]: pieces of the payload written and read
  output,    \* [printed, taken]
  verdicts,  \* history: of each command so far, [is, told, script, started]
  denied

hookVars == <<runner, script, child, input, output, verdicts, denied>>

NoCode == -1  \* ended by a signal
Scripts ==
  [first : {"reads", "prints"}, reads : {0, 1, Payload}, prints : {0, 1, Pipe + 1}, code : {NoCode, 0, 1, 2}]
NoScript == [first |-> "reads", reads |-> 0, prints |-> 0, code |-> 0]

HooksInit ==
  /\ runner = "idle" /\ script = NoScript /\ child = "none"
  /\ input = [written |-> 0, heard |-> 0] /\ output = [printed |-> 0, taken |-> 0]
  /\ verdicts = <<>> /\ denied = FALSE

(* What the exit status means; a denial always says something.             *)
OutcomeOf(code, printed) ==
  CASE code = 0 -> [is |-> "allow", told |-> printed > 0]
    [] code = 2 -> [is |-> "deny", told |-> TRUE]
    [] OTHER -> [is |-> "warn", told |-> TRUE]
Failed == [is |-> "warn", told |-> TRUE]

(* Slip: a denial does not keep the later commands from running. *)
JudgeToTheEnd(outcome, started) ==
  /\ verdicts' = Append(verdicts, [is |-> outcome.is, told |-> outcome.told,
                                   script |-> script, started |-> started])
  /\ denied' = (denied \/ outcome.is = "deny")
  /\ runner' = IF Len(verdicts') = Hooks THEN "over" ELSE "idle"
  /\ child' = "none"
Judge(outcome, started) ==
  /\ verdicts' = Append(verdicts, [is |-> outcome.is, told |-> outcome.told,
                                   script |-> script, started |-> started])
  /\ denied' = (outcome.is = "deny")
  /\ runner' = IF denied' \/ Len(verdicts') = Hooks THEN "over" ELSE "idle"
  /\ child' = "none"

-----------------------------------------------------------------------------
(* run_commands takes the next command; there may be none at all.          *)
RunCommands ==
  /\ runner = "idle"
  /\ IF Hooks = 0
     THEN runner' = "over" /\ UNCHANGED <<script, child, input, output>>
     ELSE /\ runner' = "writing" /\ child' = "runs" /\ script' \in Scripts
          /\ input' = [written |-> 0, heard |-> 0] /\ output' = [printed |-> 0, taken |-> 0]
  /\ UNCHANGED <<verdicts, denied>>

(* No process, or an environment too long for one: the tool input is in it.*)
SpawnFails ==
  /\ runner = "writing" /\ child = "runs" /\ input.written = 0 /\ input.heard = 0 /\ output.printed = 0
  /\ Judge(Failed, FALSE)
  /\ UNCHANGED <<script, input, output>>

(* output_with_stdin: write_all, to a command that may be gone.            *)
WritePiece ==
  /\ runner = "writing" /\ child = "runs"
  /\ input.written - input.heard < Pipe
  /\ input' = [input EXCEPT !.written = @ + 1]
  /\ runner' = IF input.written + 1 = Payload THEN "waiting" ELSE "writing"
  /\ UNCHANGED <<script, child, output, verdicts, denied>>

WriteFails ==
  /\ runner = "writing" /\ child = "ended"
  /\ Judge(Failed, TRUE)
  /\ UNCHANGED <<script, input, output>>

(* wait_with_output reads to the end, then takes the status.               *)
TakePiece ==
  /\ runner = "waiting" /\ output.taken < output.printed
  /\ output' = [output EXCEPT !.taken = @ + 1]
  /\ UNCHANGED <<runner, script, child, input, verdicts, denied>>

Wait ==
  /\ runner = "waiting" /\ child = "ended" /\ output.taken = output.printed
  /\ Judge(OutcomeOf(script.code, output.taken), TRUE)
  /\ UNCHANGED <<script, input, output>>

-----------------------------------------------------------------------------
(* The command itself.                                                     *)
HasRead == input.heard = script.reads
HasPrinted == output.printed = script.prints

Read ==
  /\ child = "runs" /\ ~HasRead /\ (script.first = "prints" => HasPrinted)
  /\ input.heard < input.written
  /\ input' = [input EXCEPT !.heard = @ + 1]
  /\ UNCHANGED <<runner, script, child, output, verdicts, denied>>

Write ==
  /\ child = "runs" /\ ~HasPrinted /\ (script.first = "reads" => HasRead)
  /\ output.printed - output.taken < Pipe
  /\ output' = [output EXCEPT !.printed = @ + 1]
  /\ UNCHANGED <<runner, script, child, input, verdicts, denied>>

End ==
  /\ child = "runs" /\ HasRead /\ HasPrinted
  /\ child' = "ended"
  /\ UNCHANGED <<runner, script, input, output, verdicts, denied>>

HooksNext ==
  \/ RunCommands \/ SpawnFails \/ WritePiece \/ WriteFails \/ TakePiece \/ Wait
  \/ Read \/ Write \/ End

HooksSpec == HooksInit /\ [][HooksNext]_hookVars

-----------------------------------------------------------------------------
(* A command that was started and reads all of its payload is judged by    *)
(* its exit status, whatever it prints and when.  One that does not read   *)
(* it may be taken for one that could not start, even when it denied; but  *)
(* no command denies that did not say so.                                  *)
StatusDecides ==
  \A k \in DOMAIN verdicts :
    LET v == verdicts[k]
    IN  /\ v.started /\ v.script.reads = Payload =>
             [is |-> v.is, told |-> v.told] = OutcomeOf(v.script.code, v.script.prints)
        /\ v.is = "deny" => v.script.code = 2 /\ v.told
        /\ v.is = "allow" => v.script.code = 0

(* The first denial is the last verdict; without one every command ran.    *)
FirstDenialWins ==
  /\ \A k \in DOMAIN verdicts : verdicts[k].is = "deny" => k = Len(verdicts) /\ runner = "over"
  /\ denied <=> \E k \in DOMAIN verdicts : verdicts[k].is = "deny"
  /\ runner = "over" /\ ~denied => Len(verdicts) = Hooks

(* claw and a command wait on each other for ever only if both pipes are   *)
(* full, of a payload the command has not read and an output that is       *)
(* longer than a pipe and comes before the rest of the reading.            *)
Blocked ==
  /\ runner = "writing" /\ child = "runs" /\ input.written - input.heard = Pipe
  /\ IF HasRead \/ (script.first = "prints" /\ ~HasPrinted)
     THEN ~HasPrinted /\ output.printed - output.taken = Pipe
     ELSE input.heard = input.written
OnlyFullPipesBlock ==
  Blocked => script.prints > Pipe /\ Payload > Pipe /\ (script.first = "reads" => script.reads < Payload)

HooksInv == StatusDecides /\ FirstDenialWins /\ OnlyFullPipesBlock

=============================================================================
