---------------------------- MODULE ShellCommands ----------------------------
(***************************************************************************)
(* The tools that run a process: bash, PowerShell, REPL and the tools of   *)
(* plugins.  A pipe holds only so much, a process that was started by the  *)
(* command may keep it open, and the tools differ in when they read it and *)
(* in what a timeout does.                                                 *)
(***************************************************************************)
EXTENDS Naturals, FiniteSets

CONSTANTS
  Capacity,   \* what a pipe holds
  MaxOutput,  \* bound: what a command writes
  MaxInput    \* bound: what a plugin tool is given

ASSUME ShellAssumption == Capacity \in Nat \ {0} /\ MaxOutput \in Nat /\ MaxInput \in Nat

VARIABLES
  call,     \* tool, whether it has a limit or runs in the background
  phase,    \* "idle", "prepared", "feeding", "waiting", "draining", "answered"
  sandbox,  \* the sandbox status of a bash call
  child,    \* "none", "running", "exited", "killed"
  left,     \* what the child has still to write
  stdin,    \* what is in the pipe to the child
  unsent,   \* what is still to be sent to it
  pipe,     \* what is in the pipe from the child
  wrote,    \* history: all the child wrote
  got,      \* what was read
  holds,    \* whether a process the child started has the pipe open
  expired,  \* whether the time is over
  answer    \* "none", "done", "timeout", "error", "started"

shellVars == <<call, phase, sandbox, child, left, stdin, unsent, pipe, wrote, got, holds, expired, answer>>

Tools == {"bash", "powershell", "repl", "plugin"}
NoCall == [tool |-> "repl", limit |-> FALSE, background |-> FALSE]

-----------------------------------------------------------------------------
(* resolve_request and resolve_sandbox_status_for_request.                 *)
Options == {"unset", "yes", "no"}
Modes == {"off", "workspace-only", "allow-list"}
First(override, configured, default) ==
  IF override # "unset" THEN override ELSE IF configured # "unset" THEN configured ELSE default

ResolveRequest(config, input) ==
  [enabled |-> First(input.enabled, config.enabled, "yes") = "yes",
   namespace |-> First(input.namespace, config.namespace, "yes") = "yes",
   network |-> First(input.network, config.network, "no") = "yes",
   mode |-> First(input.mode, config.mode, "workspace-only"),
   mounts |-> First(input.mounts, config.mounts, "no") = "yes"]

Reasons(request, supported) ==
  {r \in {"namespace", "network", "mounts"} :
     /\ request.enabled
     /\ \/ (r = "namespace" /\ request.namespace /\ ~supported)
        \/ (r = "network" /\ request.network /\ ~supported)
        \/ (r = "mounts" /\ request.mode = "allow-list" /\ ~request.mounts)}

ResolveStatus(request, supported) ==
  [requested |-> request,
   active |-> request.enabled /\ (request.namespace => supported) /\ (request.network => supported),
   namespace |-> request.enabled /\ request.namespace /\ supported,
   network |-> request.enabled /\ request.network /\ supported,
   filesystem |-> request.enabled /\ request.mode # "off",
   reasons |-> Reasons(request, supported)]

(* prepare_command: unshare, or sh with another HOME and TMPDIR, or sh.    *)
Launcher(status) ==
  IF status.namespace \/ status.network THEN "unshare"
  ELSE IF status.filesystem THEN "private sh" ELSE "sh"

Unresolved == ResolveStatus([enabled |-> FALSE, namespace |-> FALSE, network |-> FALSE,
                             mode |-> "off", mounts |-> FALSE], FALSE)
Requests == [enabled : Options, namespace : Options, network : Options,
             mode : Modes \cup {"unset"}, mounts : Options]
Some(r) == Cardinality({f \in DOMAIN r : r[f] # "unset"})

-----------------------------------------------------------------------------
ShellInit ==
  /\ call = NoCall /\ phase = "idle" /\ sandbox = Unresolved
  /\ child = "none" /\ left = 0 /\ stdin = 0 /\ unsent = 0 /\ pipe = 0
  /\ wrote = 0 /\ got = 0 /\ holds = FALSE /\ expired = FALSE /\ answer = "none"

(* sandbox_status_for_input; bound: two options at most are set in the     *)
(* input and two in the settings.                                          *)
Prepare ==
  /\ phase = "idle" /\ phase' = "prepared"
  /\ \E config, input \in {r \in Requests : Some(r) <= 2}, supported \in BOOLEAN :
       sandbox' = ResolveStatus(ResolveRequest(config, input), supported)
  /\ UNCHANGED <<call, child, left, stdin, unsent, pipe, wrote, got, holds, expired, answer>>

Start(tool, limit, background) ==
  /\ IF tool = "bash" THEN phase = "prepared" ELSE phase = "idle"
  /\ limit => tool \in {"bash", "powershell"}
  /\ background => tool \in {"bash", "powershell"} /\ ~limit
  /\ call' = [tool |-> tool, limit |-> limit, background |-> background]
  /\ child' = "running" /\ left' \in 0 .. MaxOutput
  /\ unsent' \in (IF tool = "plugin" THEN 0 .. MaxInput ELSE {0})
  /\ phase' = IF background THEN "answered" ELSE IF tool = "plugin" THEN "feeding" ELSE "waiting"
  /\ answer' = IF background THEN "started" ELSE "none"
  /\ sandbox' = Unresolved
  /\ UNCHANGED <<stdin, pipe, wrote, got, holds, expired>>

-----------------------------------------------------------------------------
(* The command.  It writes and reads in any order and starts processes;    *)
(* nobody reads what a background command writes, and a pipe that was      *)
(* closed kills who writes to it.                                          *)
ReaderGone == phase = "answered" /\ ~call.background

ChildWrites ==
  /\ child = "running" /\ left > 0
  /\ IF ReaderGone THEN child' = "killed" /\ UNCHANGED <<left, pipe, wrote>>
     ELSE /\ call.background \/ pipe < Capacity
          /\ left' = left - 1 /\ wrote' = wrote + 1
          /\ pipe' = IF call.background THEN pipe ELSE pipe + 1
          /\ UNCHANGED child
  /\ UNCHANGED <<call, phase, sandbox, stdin, unsent, got, holds, expired, answer>>

ChildReads ==
  /\ child = "running" /\ stdin > 0 /\ stdin' = stdin - 1
  /\ UNCHANGED <<call, phase, sandbox, child, left, unsent, pipe, wrote, got, holds, expired, answer>>

ChildForks ==
  /\ child = "running" /\ ~holds /\ ~ReaderGone /\ holds' = TRUE
  /\ UNCHANGED <<call, phase, sandbox, child, left, stdin, unsent, pipe, wrote, got, expired, answer>>

ChildExits ==
  /\ child = "running" /\ left = 0 /\ child' = "exited"
  /\ UNCHANGED <<call, phase, sandbox, left, stdin, unsent, pipe, wrote, got, holds, expired, answer>>

ForkedExits ==
  /\ holds /\ holds' = FALSE
  /\ UNCHANGED <<call, phase, sandbox, child, left, stdin, unsent, pipe, wrote, got, expired, answer>>

-----------------------------------------------------------------------------
(* The tool.  PowerShell with a limit asks whether the process is over and *)
(* reads only then; the others read while they wait.                       *)
Polls == call.tool = "powershell" /\ call.limit
EndOfFile == child # "running" /\ pipe = 0 /\ ~holds
Answers(how) == phase' = "answered" /\ answer' = how

Feed ==
  /\ phase = "feeding"
  /\ IF unsent = 0 THEN phase' = "waiting" /\ UNCHANGED <<stdin, unsent, answer>>
     ELSE IF child # "running" THEN Answers("error") /\ UNCHANGED <<stdin, unsent>>
     ELSE stdin < Capacity /\ stdin' = stdin + 1 /\ unsent' = unsent - 1 /\ UNCHANGED <<phase, answer>>
  /\ UNCHANGED <<call, sandbox, child, left, pipe, wrote, got, holds, expired>>

Read ==
  /\ phase = "draining" \/ (phase = "waiting" /\ ~Polls)
  /\ pipe > 0 /\ pipe' = pipe - 1 /\ got' = got + 1
  /\ UNCHANGED <<call, phase, sandbox, child, left, stdin, unsent, wrote, holds, expired, answer>>

(* Slip: the call is over when the process is, whatever is in the pipe. *)
FinishOnExit ==
  /\ phase = "waiting" /\ ~Polls /\ child # "running" /\ Answers("done")
  /\ UNCHANGED <<call, sandbox, child, left, stdin, unsent, pipe, wrote, got, holds, expired>>
Finish ==
  /\ phase = "waiting" /\ ~Polls /\ EndOfFile /\ Answers("done")
  /\ UNCHANGED <<call, sandbox, child, left, stdin, unsent, pipe, wrote, got, holds, expired>>

Exited ==
  /\ phase = "waiting" /\ Polls /\ child = "exited" /\ phase' = "draining"
  /\ UNCHANGED <<call, sandbox, child, left, stdin, unsent, pipe, wrote, got, holds, expired, answer>>

Drained ==
  /\ phase = "draining" /\ EndOfFile
  /\ Answers(IF child = "killed" THEN "timeout" ELSE "done")
  /\ UNCHANGED <<call, sandbox, child, left, stdin, unsent, pipe, wrote, got, holds, expired>>

Expire ==
  /\ phase = "waiting" /\ call.limit /\ ~expired /\ expired' = TRUE
  /\ UNCHANGED <<call, phase, sandbox, child, left, stdin, unsent, pipe, wrote, got, holds, answer>>

(* Bash gives up the future that waits: what was read is dropped and the   *)
(* command is left running.                                                *)
GiveUp ==
  /\ phase = "waiting" /\ expired /\ call.tool = "bash" /\ Answers("timeout")
  /\ got' = 0 /\ pipe' = 0
  /\ UNCHANGED <<call, sandbox, child, left, stdin, unsent, wrote, holds, expired>>

(* PowerShell kills the process it started, then reads to the end; one     *)
(* that ended since it was last asked is reported as out of time too.      *)
(* Slip: it does not kill it. *)
DrainRunning ==
  /\ phase = "waiting" /\ Polls /\ expired /\ phase' = "draining"
  /\ UNCHANGED <<call, sandbox, child, left, stdin, unsent, pipe, wrote, got, holds, expired, answer>>
Kill ==
  /\ phase = "waiting" /\ Polls /\ expired
  /\ child' = "killed" /\ phase' = "draining"
  /\ UNCHANGED <<call, sandbox, left, stdin, unsent, pipe, wrote, got, holds, expired, answer>>

(* The next call, once what this one left behind is over.                  *)
Again ==
  /\ phase = "answered" /\ child # "running" /\ ~holds
  /\ call' = NoCall /\ phase' = "idle" /\ child' = "none" /\ sandbox' = Unresolved
  /\ left' = 0 /\ stdin' = 0 /\ unsent' = 0 /\ pipe' = 0 /\ wrote' = 0 /\ got' = 0
  /\ expired' = FALSE /\ answer' = "none"
  /\ UNCHANGED holds

Command == ChildWrites \/ ChildReads \/ ChildForks \/ ChildExits \/ ForkedExits
Tool == Feed \/ Read \/ Finish \/ Exited \/ Drained \/ Expire \/ GiveUp \/ Kill
ShellNext ==
  \/ Prepare \/ (\E tool \in Tools, limit, background \in BOOLEAN : Start(tool, limit, background))
  \/ Command \/ Tool \/ Again

(* The tool's own thread and its clock run; the command owes nothing.      *)
ShellSpec == ShellInit /\ [][ShellNext]_shellVars /\ WF_shellVars(Tool)

-----------------------------------------------------------------------------
ShellTypeOK ==
  /\ pipe \in 0 .. Capacity /\ stdin \in 0 .. Capacity
  /\ ~call.background /\ answer # "timeout" => wrote = pipe + got
  /\ phase \in {"idle", "prepared"} => child = "none"

(* Output that is reported as complete is all of it, and the process and   *)
(* everyone it handed its pipe to are over.                                *)
DoneIsWhole == answer = "done" => got = wrote /\ child = "exited" /\ left = 0

(* A PowerShell call that ran out of time reports all that was written and *)
(* leaves no process; only a bash call leaves its command running.         *)
TimeoutReports ==
  answer = "timeout" /\ call.tool = "powershell" => got = wrote /\ child # "running"
StraysAreBash ==
  phase = "answered" /\ child = "running" =>
    call.background \/ (call.tool = "bash" /\ answer = "timeout")

(* A PowerShell command with a limit that writes more than a pipe holds    *)
(* never completes: it waits for a reader that waits for its end.          *)
LongOutputTimesOut == answer = "done" /\ Polls => wrote <= Capacity

(* A sandbox that is reported as active has all the isolation that was     *)
(* asked for, and one that lacks some says so.                             *)
SandboxIsHonest ==
  phase = "prepared" =>
    LET r == sandbox.requested
    IN  /\ sandbox.active => (r.namespace => sandbox.namespace) /\ (r.network => sandbox.network)
        /\ r.enabled /\ ~sandbox.active => sandbox.reasons # {}
        /\ r.enabled /\ r.network /\ ~sandbox.network => "network" \in sandbox.reasons
        /\ ~r.enabled => Launcher(sandbox) = "sh"
        /\ sandbox.network => Launcher(sandbox) = "unshare"

ShellInv ==
  /\ ShellTypeOK /\ DoneIsWhole /\ TimeoutReports /\ StraysAreBash /\ LongOutputTimesOut /\ SandboxIsHonest

(* A bash call with a limit always returns.  A PowerShell call may be held *)
(* past its limit only by a process its command started.                   *)
LimitsHold ==
  (phase = "waiting" /\ call.limit) ~> (phase = "answered" \/ (call.tool = "powershell" /\ holds))

=============================================================================
