-------------------------- MODULE ExtensionsProofs --------------------------
(***************************************************************************)
(* Theorems about what extends claw: the commands of a hook, for any       *)
(* number of them, pipes and payloads of any size; the registry of tools,  *)
(* for any plugins, names and words after --allowedTools; the plugins on   *)
(* disk, whatever is cut short and however often; what they declare; and   *)
(* the settings, whichever of the files say what.                          *)
(***************************************************************************)
EXTENDS HookCommands, ToolRegistry, Plugins, PluginManifest, Settings, SequenceTheorems, FiniteSetTheorems,
        WellFoundedInduction, TLAPS

-----------------------------------------------------------------------------
(* The commands of a hook.  A command has heard no more than was written   *)
(* and claw has taken no more than was printed, each within what the       *)
(* command reads and prints; ...                                           *)
OutcomesOfHooks == {"allow", "deny", "warn"}
VerdictsOfHooks == [is : OutcomesOfHooks, told : BOOLEAN, script : Scripts, started : BOOLEAN]

HooksTyped ==
  /\ runner \in {"idle", "writing", "waiting", "over"} /\ child \in {"none", "runs", "ended"}
  /\ script \in Scripts
  /\ input \in [written : Nat, heard : Nat] /\ output \in [printed : Nat, taken : Nat]
  /\ verdicts \in Seq(VerdictsOfHooks) /\ denied \in BOOLEAN

PipesAreSound ==
  /\ input.heard <= input.written /\ input.written - input.heard <= Pipe
  /\ input.heard <= script.reads
  /\ output.taken <= output.printed /\ output.printed <= script.prints

(* ... the command is gone only with all of that done, and all the payload *)
(* is written when claw waits for it; ...                                  *)
ProgressIsKnown ==
  /\ child = "ended" => HasRead /\ HasPrinted
  /\ child # "none" <=> runner \in {"writing", "waiting"}
  /\ runner = "writing" => input.written < Payload
  /\ runner = "waiting" => input.written = Payload

(* ... while commands are left none denied.                                *)
CommandsAreLeft ==
  /\ runner # "over" => ~denied
  /\ runner \in {"writing", "waiting"} => Len(verdicts) < Hooks
  /\ runner = "idle" => Len(verdicts) < Hooks \/ (Hooks = 0 /\ Len(verdicts) = 0)

HooksIInv ==
  /\ HooksTyped /\ PipesAreSound /\ ProgressIsKnown /\ CommandsAreLeft
  /\ StatusDecides /\ FirstDenialWins

LEMMA HooksIInvInit == HooksInit => HooksIInv
<1> SUFFICES ASSUME HooksInit PROVE HooksIInv
  OBVIOUS
<1>1. /\ runner = "idle" /\ script = NoScript /\ child = "none" /\ verdicts = <<>> /\ denied = FALSE
      /\ input = [written |-> 0, heard |-> 0] /\ output = [printed |-> 0, taken |-> 0]
  BY DEF HooksInit
<1>2. NoScript \in Scripts /\ NoScript.reads = 0 /\ NoScript.prints = 0
  BY DEF NoScript, Scripts
<1>3. Len(verdicts) = 0 /\ DOMAIN verdicts = {} /\ verdicts \in Seq(VerdictsOfHooks)
  BY <1>1
<1>4. HooksTyped
  <2>1. denied \in BOOLEAN
    BY <1>1
  <2> QED
    BY <1>1, <1>2, <1>3, <2>1 DEF HooksTyped
<1>5. PipesAreSound /\ ProgressIsKnown
  BY <1>1, <1>2, HooksAssumption DEF PipesAreSound, ProgressIsKnown
<1>6. ~denied
  BY <1>1
<1> QED
  BY <1>1, <1>3, <1>4, <1>5, <1>6, HooksAssumption
     DEF HooksIInv, CommandsAreLeft, StatusDecides, FirstDenialWins

(* What an exit status means, of any command.                              *)
LEMMA OutcomesAreTyped ==
  ASSUME NEW code, NEW printed \in Nat
  PROVE  /\ OutcomeOf(code, printed) \in [is : OutcomesOfHooks, told : BOOLEAN]
         /\ OutcomeOf(code, printed).is = "deny" => code = 2 /\ OutcomeOf(code, printed).told
         /\ OutcomeOf(code, printed).is = "allow" => code = 0
         /\ Failed \in [is : OutcomesOfHooks, told : BOOLEAN] /\ Failed.is = "warn"
BY DEF OutcomeOf, OutcomesOfHooks, Failed

(* A verdict more: those before it stay, and it is the last.               *)
LEMMA VerdictIsNoted ==
  ASSUME HooksTyped, NEW outcome \in [is : OutcomesOfHooks, told : BOOLEAN], NEW began \in BOOLEAN,
         Judge(outcome, began)
  PROVE  /\ verdicts' \in Seq(VerdictsOfHooks) /\ Len(verdicts') = Len(verdicts) + 1
         /\ Len(verdicts) \in Nat
         /\ DOMAIN verdicts' = 1 .. Len(verdicts) + 1 /\ DOMAIN verdicts = 1 .. Len(verdicts)
         /\ \A k \in 1 .. Len(verdicts) : verdicts'[k] = verdicts[k]
         /\ verdicts'[Len(verdicts) + 1].is = outcome.is
         /\ verdicts'[Len(verdicts) + 1].told = outcome.told
         /\ verdicts'[Len(verdicts) + 1].script = script
         /\ verdicts'[Len(verdicts) + 1].started = began
<1> DEFINE v == [is |-> outcome.is, told |-> outcome.told, script |-> script, started |-> began]
<1>1. /\ v \in VerdictsOfHooks /\ v.is = outcome.is /\ v.told = outcome.told /\ v.script = script
      /\ v.started = began
  BY DEF HooksTyped, VerdictsOfHooks
<1>2. verdicts' = Append(verdicts, v) /\ verdicts \in Seq(VerdictsOfHooks)
  BY DEF Judge, HooksTyped
<1> HIDE DEF v
<1>3. /\ verdicts' \in Seq(VerdictsOfHooks) /\ Len(verdicts') = Len(verdicts) + 1
      /\ Len(verdicts) \in Nat /\ verdicts'[Len(verdicts) + 1] = v
      /\ \A k \in 1 .. Len(verdicts) : verdicts'[k] = verdicts[k]
  BY <1>1, <1>2, AppendProperties, LenProperties
<1>4. DOMAIN verdicts' = 1 .. Len(verdicts) + 1 /\ DOMAIN verdicts = 1 .. Len(verdicts)
  BY <1>2, <1>3, LenProperties
<1> QED
  BY <1>1, <1>3, <1>4

(* A command is judged: nobody was denied before, and the verdict is the   *)
(* one of its status or that of a command that could not be run.           *)
LEMMA JudgeKeeps ==
  ASSUME HooksIInv, NEW outcome \in [is : OutcomesOfHooks, told : BOOLEAN], NEW began \in BOOLEAN,
         Judge(outcome, began), runner \in {"writing", "waiting"},
         UNCHANGED <<script, input, output>>,
         began /\ script.reads = Payload => outcome = OutcomeOf(script.code, script.prints),
         outcome.is = "deny" => script.code = 2 /\ outcome.told,
         outcome.is = "allow" => script.code = 0
  PROVE  HooksIInv'
<1> DEFINE n == Len(verdicts)
<1>1. /\ verdicts' \in Seq(VerdictsOfHooks) /\ Len(verdicts') = n + 1 /\ n \in Nat
      /\ DOMAIN verdicts' = 1 .. n + 1 /\ DOMAIN verdicts = 1 .. n
      /\ \A k \in 1 .. n : verdicts'[k] = verdicts[k]
      /\ verdicts'[n + 1].is = outcome.is /\ verdicts'[n + 1].told = outcome.told
      /\ verdicts'[n + 1].script = script /\ verdicts'[n + 1].started = began
  BY VerdictIsNoted DEF HooksIInv
<1> HIDE DEF n
<1>2. /\ denied' \in BOOLEAN
      /\ denied' <=> outcome.is = "deny"
      /\ child' = "none"
  BY DEF Judge
<1>3. /\ ~denied /\ Len(verdicts) < Hooks /\ \A k \in 1 .. n : verdicts[k].is # "deny"
  BY <1>1 DEF HooksIInv, CommandsAreLeft, FirstDenialWins
<1>4. /\ runner' \in {"over", "idle"}
      /\ runner' = "over" <=> outcome.is = "deny" \/ n + 1 = Hooks
  BY <1>1, <1>2 DEF Judge
<1>5. n < Hooks
  BY <1>3 DEF n
<1>6. HooksTyped'
  <2>1. /\ script' = script /\ input' = input /\ output' = output
        /\ script \in Scripts
        /\ input \in [written : Nat, heard : Nat] /\ output \in [printed : Nat, taken : Nat]
    BY DEF HooksIInv, HooksTyped
  <2>2. denied' \in BOOLEAN
    BY <1>2, Zenon
  <2>3. runner' \in {"idle", "writing", "waiting", "over"} /\ child' \in {"none", "runs", "ended"}
    BY <1>2, <1>4
  <2>4. /\ script' \in Scripts
        /\ input' \in [written : Nat, heard : Nat] /\ output' \in [printed : Nat, taken : Nat]
    BY <2>1, Zenon
  <2> QED
    BY <1>1, <2>2, <2>3, <2>4, Zenon DEF HooksTyped
<1>7. PipesAreSound' /\ ProgressIsKnown'
  BY <1>2, <1>4 DEF HooksIInv, PipesAreSound, ProgressIsKnown
<1>8. CommandsAreLeft'
  <2>1. runner' # "over" => ~denied'
    BY <1>2, <1>4
  <2>2. runner' \notin {"writing", "waiting"}
    BY <1>4
  <2>3. runner' = "idle" => Len(verdicts') < Hooks
    <3> DEFINE m == Len(verdicts')
    <3>1. m = n + 1 /\ (runner' = "idle" => n + 1 # Hooks)
      BY <1>1, <1>4
    <3> HIDE DEF m
    <3>2. runner' = "idle" => m < Hooks
      BY <1>1, <1>5, <3>1, HooksAssumption
    <3> QED
      BY <3>2 DEF m
  <2> QED
    BY <2>1, <2>2, <2>3 DEF CommandsAreLeft
<1>9. StatusDecides'
  <2>1. ASSUME NEW k \in 1 .. n + 1
        PROVE  LET v == verdicts'[k]
               IN  /\ v.started /\ v.script.reads = Payload =>
                        [is |-> v.is, told |-> v.told] = OutcomeOf(v.script.code, v.script.prints)
                   /\ v.is = "deny" => v.script.code = 2 /\ v.told
                   /\ v.is = "allow" => v.script.code = 0
    <3>1. CASE k = n + 1
      <4>1. [is |-> outcome.is, told |-> outcome.told] = outcome
        OBVIOUS
      <4> QED
        BY <1>1, <3>1, <4>1
    <3>2. CASE k # n + 1
      <4>1. k \in 1 .. n /\ verdicts'[k] = verdicts[k]
        BY <1>1, <3>2
      <4> QED
        BY <1>1, <4>1 DEF HooksIInv, StatusDecides
    <3> QED
      BY <3>1, <3>2
  <2> QED
    BY <1>1, <2>1 DEF StatusDecides
<1>10. FirstDenialWins'
  <2>1. \A k \in 1 .. n + 1 : k \in 1 .. n \/ k = n + 1
    BY <1>1
  <2>2. \A k \in 1 .. n + 1 : verdicts'[k].is = "deny" => k = n + 1 /\ outcome.is = "deny"
    BY <1>1, <1>3, <2>1
  <2>3. n + 1 \in 1 .. n + 1
    BY <1>1
  <2> QED
    BY <1>1, <1>2, <1>4, <2>2, <2>3 DEF FirstDenialWins
<1> QED
  BY <1>6, <1>7, <1>8, <1>9, <1>10 DEF HooksIInv

(* The pipes move: nothing is judged.                                      *)
LEMMA MovingKeeps ==
  ASSUME HooksIInv, UNCHANGED <<verdicts, denied, script>>,
         runner \in {"writing", "waiting"}, runner' \in {"writing", "waiting"},
         child' \in {"runs", "ended"},
         input' \in [written : Nat, heard : Nat], output' \in [printed : Nat, taken : Nat],
         PipesAreSound', ProgressIsKnown'
  PROVE  HooksIInv'
<1>1. HooksTyped' /\ CommandsAreLeft'
  BY DEF HooksIInv, HooksTyped, CommandsAreLeft
<1>2. StatusDecides' /\ FirstDenialWins'
  BY DEF HooksIInv, StatusDecides, FirstDenialWins, CommandsAreLeft
<1> QED
  BY <1>1, <1>2 DEF HooksIInv

LEMMA HooksIInvStep == HooksIInv /\ [HooksNext]_hookVars => HooksIInv'
<1> SUFFICES ASSUME HooksIInv, [HooksNext]_hookVars PROVE HooksIInv'
  OBVIOUS
<1> USE HooksAssumption
<1>1. /\ input.written \in Nat /\ input.heard \in Nat /\ output.printed \in Nat /\ output.taken \in Nat
      /\ input \in [written : Nat, heard : Nat] /\ output \in [printed : Nat, taken : Nat]
      /\ script \in Scripts /\ script.prints \in Nat /\ script.reads \in Nat
  BY DEF HooksIInv, HooksTyped, Scripts
<1>2. /\ PipesAreSound /\ ProgressIsKnown /\ CommandsAreLeft /\ StatusDecides /\ FirstDenialWins
      /\ HooksTyped
  BY DEF HooksIInv
<1>3. CASE RunCommands
  <2>1. CASE Hooks = 0
    <3>1. /\ runner' = "over" /\ runner = "idle" /\ script' = script /\ child' = child
          /\ input' = input /\ output' = output /\ verdicts' = verdicts /\ denied' = denied
          /\ child = "none" /\ Len(verdicts) = 0
      <4>1. Len(verdicts) \in Nat
        BY <1>2, LenProperties DEF HooksTyped
      <4> QED
        BY <1>2, <1>3, <2>1, <4>1 DEF RunCommands, ProgressIsKnown, CommandsAreLeft, HooksTyped
    <3>2. HooksTyped' /\ PipesAreSound' /\ ProgressIsKnown' /\ CommandsAreLeft'
      BY <1>2, <3>1 DEF HooksTyped, PipesAreSound, ProgressIsKnown, CommandsAreLeft
    <3>3. StatusDecides' /\ FirstDenialWins'
      BY <1>2, <2>1, <3>1 DEF StatusDecides, FirstDenialWins
    <3> QED
      BY <3>2, <3>3 DEF HooksIInv
  <2>2. CASE Hooks # 0
    <3>1. /\ runner' = "writing" /\ child' = "runs" /\ script' \in Scripts /\ runner = "idle"
          /\ input' = [written |-> 0, heard |-> 0] /\ output' = [printed |-> 0, taken |-> 0]
          /\ verdicts' = verdicts /\ denied' = denied
      BY <1>3, <2>2 DEF RunCommands
    <3>2. script'.reads \in Nat /\ script'.prints \in Nat
      BY <3>1 DEF Scripts
    <3>3. HooksTyped' /\ PipesAreSound' /\ ProgressIsKnown'
      BY <1>2, <3>1, <3>2 DEF HooksTyped, PipesAreSound, ProgressIsKnown
    <3>4. CommandsAreLeft' /\ StatusDecides' /\ FirstDenialWins'
      BY <1>2, <2>2, <3>1 DEF CommandsAreLeft, StatusDecides, FirstDenialWins
    <3> QED
      BY <3>3, <3>4 DEF HooksIInv
  <2> QED
    BY <2>1, <2>2
<1>4. CASE SpawnFails
  BY <1>1, <1>4, JudgeKeeps, OutcomesAreTyped DEF SpawnFails
<1>5. CASE WriteFails
  <2>1. /\ Judge(Failed, TRUE) /\ runner = "writing" /\ child = "ended"
        /\ UNCHANGED <<script, input, output>>
    BY <1>5 DEF WriteFails
  <2>4. script.reads # Payload
    BY <1>1, <1>2, <2>1 DEF ProgressIsKnown, PipesAreSound, HasRead
  <2>2. /\ Failed \in [is : OutcomesOfHooks, told : BOOLEAN] /\ Failed.is = "warn" /\ TRUE \in BOOLEAN
    BY DEF Failed, OutcomesOfHooks
  <2>3. HooksIInv /\ runner \in {"writing", "waiting"}
    BY <2>1
  <2> QED
    BY <2>1, <2>2, <2>3, <2>4, JudgeKeeps
<1>6. CASE Wait
  <2>1. /\ output.taken = script.prints /\ runner = "waiting"
        /\ Judge(OutcomeOf(script.code, script.prints), TRUE) /\ UNCHANGED <<script, input, output>>
    BY <1>1, <1>2, <1>6 DEF Wait, ProgressIsKnown, HasPrinted
  <2> QED
    BY <1>1, <2>1, JudgeKeeps, OutcomesAreTyped
<1>7. CASE WritePiece
  <2>1. /\ runner = "writing" /\ child' = child /\ child = "runs" /\ script' = script /\ output' = output
        /\ verdicts' = verdicts /\ denied' = denied /\ input.written - input.heard < Pipe
        /\ input' = [input EXCEPT !.written = @ + 1]
        /\ runner' = IF input.written + 1 = Payload THEN "waiting" ELSE "writing"
    BY <1>7 DEF WritePiece
  <2>2. /\ input' \in [written : Nat, heard : Nat] /\ input'.written = input.written + 1
        /\ input'.heard = input.heard
    BY <1>1, <2>1
  <2>3. PipesAreSound' /\ ProgressIsKnown'
    BY <1>1, <1>2, <2>1, <2>2 DEF PipesAreSound, ProgressIsKnown
  <2> QED
    BY <1>1, <2>1, <2>2, <2>3, MovingKeeps
<1>8. CASE TakePiece
  <2>1. /\ runner = "waiting" /\ runner' = runner /\ child' = child /\ script' = script /\ input' = input
        /\ verdicts' = verdicts /\ denied' = denied /\ output.taken < output.printed
        /\ output' = [output EXCEPT !.taken = @ + 1]
    BY <1>8 DEF TakePiece
  <2>2. /\ output' \in [printed : Nat, taken : Nat] /\ output'.taken = output.taken + 1
        /\ output'.printed = output.printed
    BY <1>1, <2>1
  <2>3. PipesAreSound' /\ ProgressIsKnown'
    BY <1>1, <1>2, <2>1, <2>2 DEF PipesAreSound, ProgressIsKnown, HasRead, HasPrinted
  <2>4. child' \in {"runs", "ended"}
    BY <1>2, <2>1 DEF ProgressIsKnown, HooksTyped
  <2> QED
    BY <1>1, <2>1, <2>2, <2>3, <2>4, MovingKeeps
<1>9. CASE Read
  <2>1. /\ child = "runs" /\ child' = child /\ runner' = runner /\ script' = script /\ output' = output
        /\ verdicts' = verdicts /\ denied' = denied /\ input.heard < input.written
        /\ input.heard # script.reads /\ input' = [input EXCEPT !.heard = @ + 1]
    BY <1>9 DEF Read, HasRead
  <2>2. /\ input' \in [written : Nat, heard : Nat] /\ input'.heard = input.heard + 1
        /\ input'.written = input.written
    BY <1>1, <2>1
  <2>3. PipesAreSound' /\ ProgressIsKnown' /\ runner \in {"writing", "waiting"}
    BY <1>1, <1>2, <2>1, <2>2 DEF PipesAreSound, ProgressIsKnown
  <2> QED
    BY <1>1, <2>1, <2>2, <2>3, MovingKeeps
<1>10. CASE Write
  <2>1. /\ child = "runs" /\ child' = child /\ runner' = runner /\ script' = script /\ input' = input
        /\ verdicts' = verdicts /\ denied' = denied
        /\ output.printed # script.prints /\ output' = [output EXCEPT !.printed = @ + 1]
    BY <1>10 DEF Write, HasPrinted
  <2>2. /\ output' \in [printed : Nat, taken : Nat] /\ output'.printed = output.printed + 1
        /\ output'.taken = output.taken
    BY <1>1, <2>1
  <2>3. PipesAreSound' /\ ProgressIsKnown' /\ runner \in {"writing", "waiting"}
    BY <1>1, <1>2, <2>1, <2>2 DEF PipesAreSound, ProgressIsKnown
  <2> QED
    BY <1>1, <2>1, <2>2, <2>3, MovingKeeps
<1>11. CASE End
  <2>1. /\ child = "runs" /\ HasRead /\ HasPrinted /\ child' = "ended"
        /\ UNCHANGED <<runner, script, input, output, verdicts, denied>>
    BY <1>11 DEF End
  <2>2. PipesAreSound' /\ ProgressIsKnown' /\ runner \in {"writing", "waiting"}
    BY <1>1, <1>2, <2>1 DEF PipesAreSound, ProgressIsKnown, HasRead, HasPrinted
  <2> QED
    BY <1>1, <2>1, <2>2, MovingKeeps
<1>12. CASE UNCHANGED hookVars
  BY <1>2, <1>12 DEF hookVars, HooksIInv, HooksTyped, PipesAreSound, ProgressIsKnown, HasRead, HasPrinted,
     CommandsAreLeft, StatusDecides, FirstDenialWins
<1> QED
  BY <1>3, <1>4, <1>5, <1>6, <1>7, <1>8, <1>9, <1>10, <1>11, <1>12 DEF HooksNext

(* claw and a command block each other only over pipes that are both full. *)
LEMMA BlockedIsFull == HooksIInv => OnlyFullPipesBlock
<1> SUFFICES ASSUME HooksIInv, Blocked
             PROVE  script.prints > Pipe /\ Payload > Pipe /\ (script.first = "reads" => script.reads < Payload)
  BY DEF OnlyFullPipesBlock
<1>1. /\ input.written \in Nat /\ input.heard \in Nat /\ output.printed \in Nat /\ output.taken \in Nat
      /\ script.prints \in Nat /\ script.reads \in Nat
  BY HooksAssumption DEF HooksIInv, HooksTyped, Scripts
<1>2. /\ input.heard <= input.written /\ output.printed <= script.prints /\ input.written < Payload
      /\ Pipe \in Nat \ {0} /\ input.written - input.heard = Pipe /\ Payload \in Nat
  BY HooksAssumption DEF HooksIInv, PipesAreSound, ProgressIsKnown, Blocked
<1>3. HasRead \/ (script.first = "prints" /\ ~HasPrinted)
  BY <1>1, <1>2 DEF Blocked
<1>4. output.printed # script.prints /\ output.printed - output.taken = Pipe
  BY <1>3 DEF Blocked, HasPrinted
<1>5. script.first = "reads" => input.heard = script.reads
  BY <1>3 DEF HasRead
<1> QED
  BY <1>1, <1>2, <1>4, <1>5

(* What the run checks of the commands of a hook, for any number of        *)
(* commands, pipes and payloads of any size: a command that reads its      *)
(* payload is judged by its status, the first denial is the last verdict,  *)
(* and claw hangs only on a command that fills one pipe and not reads the  *)
(* other.                                                                  *)
THEOREM HooksAreJudged == HooksSpec => []HooksInv
<1>1. HooksIInv => HooksInv
  BY BlockedIsFull DEF HooksIInv, HooksInv
<1>2. HooksIInv /\ [HooksNext]_hookVars => HooksIInv'
  BY HooksIInvStep
<1>3. QED
  BY <1>1, <1>2, HooksIInvInit, PTL DEF HooksSpec

-----------------------------------------------------------------------------
(* The registry of tools.  What the invariant rests on: plugins are in     *)
(* some order, ...                                                         *)
Listed(tools) == \E n \in Nat : DOMAIN tools = 1 .. n

(* ... --allowedTools was resolved, every word of it, against some of      *)
(* them, ...                                                               *)
AllowedIsResolved ==
  /\ cli.written = {} \/ cli.allowed = {Canonical(cli.against, t) : t \in cli.written}
  /\ cli.allowed = Everything \/ cli.allowed = {Canonical(cli.against, t) : t \in cli.written}
  /\ \A t \in cli.written : KnownTools(cli.against, t)

(* ... and a session that is up runs tools that do not share a name.       *)
RegistryIInv ==
  /\ Listed(enabled) /\ Listed(runtime) /\ Listed(cli.against)
  /\ DOMAIN cli = {"step", "allowed", "written", "against"}
  /\ AllowedIsResolved
  /\ cli.step = "up" => Accepted(runtime)

LEMMA LeastExists ==
  ASSUME NEW T, T \subseteq Nat, T # {}
  PROVE  \E x \in T : \A y \in T : x <= y
<1> DEFINE R == OpToRel(<, Nat)
<1>1. IsWellFoundedOn(R, Nat)
  BY NatLessThanWellFounded
<1>2. \A x, y \in Nat : y < x => <<y, x>> \in R
  BY DEF OpToRel
<1> HIDE DEF R
<1>3. PICK x \in T : \A y \in T : <<y, x>> \notin R
  BY <1>1, WFMin
<1>4. \A y \in T : x \in Nat /\ y \in Nat /\ ~(y < x)
  BY <1>2, <1>3, Zenon
<1> QED
  BY <1>4

(* Places in a list have a first and a last.                               *)
LEMMA FirstAndLastExist ==
  ASSUME NEW tools, Listed(tools), NEW T, T \subseteq DOMAIN tools, T # {}
  PROVE  Max(T) \in T /\ Min(T) \in T
<1>1. PICK n \in Nat : DOMAIN tools = 1 .. n
  BY DEF Listed
<1>2. T \subseteq 1 .. n
  BY <1>1
<1>3. PICK x \in T : \A y \in T : x <= y
  BY <1>2, LeastExists
<1> DEFINE U == {n - k : k \in T}
<1>4. U \subseteq Nat /\ U # {}
  BY <1>2
<1> HIDE DEF U
<1>5. PICK u \in U : \A v \in U : u <= v
  BY <1>4, LeastExists
<1>6. PICK z \in T : u = n - z
  BY <1>5 DEF U
<1>7. \A y \in T : z >= y
  <2> TAKE y \in T
  <2>1. u <= n - y
    BY <1>5 DEF U
  <2> QED
    BY <1>2, <1>6, <2>1
<1>8. \E w \in T : \A y \in T : w >= y
  BY <1>7
<1>9. Max(T) \in T
  <2>1. (CHOOSE w \in T : \A y \in T : w >= y) \in T
    BY <1>8
  <2> QED
    BY <2>1 DEF Max
<1>10. Min(T) \in T
  <2>1. (CHOOSE w \in T : \A y \in T : w <= y) \in T
    BY <1>3
  <2> QED
    BY <2>1 DEF Min
<1> QED
  BY <1>9, <1>10

(* A word that is known is resolved to a tool it stands for.               *)
LEMMA WordsAreResolved ==
  ASSUME NEW tools, Listed(tools), NEW token, KnownTools(tools, token)
  PROVE  \/ Alias(Normal[token]) # "none" /\ Canonical(tools, token) = Alias(Normal[token])
         \/ /\ Canonical(tools, token) \in NamesOf(tools)
            /\ Normal[Canonical(tools, token)] = Normal[token]
<1> DEFINE alias == Alias(Normal[token])
           like == Like(tools, token)
<1>1. CASE alias # "none"
  BY <1>1 DEF Canonical
<1>2. CASE alias = "none" /\ like # {}
  <2>1. Max(like) \in like
    <3>1. like \subseteq DOMAIN tools
      BY DEF Like
    <3> QED
      BY <1>2, <3>1, FirstAndLastExist, Zenon
  <2>2. Canonical(tools, token) = tools[Max(like)].name
    BY <1>2 DEF Canonical
  <2>3. Max(like) \in DOMAIN tools /\ Normal[tools[Max(like)].name] = Normal[token]
    BY <2>1 DEF Like
  <2>4. tools[Max(like)].name \in NamesOf(tools)
    BY <2>3 DEF NamesOf
  <2> QED
    BY <2>2, <2>3, <2>4
<1>3. CASE alias = "none" /\ like = {}
  <2>1. PICK n \in NamesOf(tools) : Normal[n] = Normal[token]
    BY <1>3 DEF KnownTools
  <2>2. n \in SpecNames
    BY <1>3, <2>1 DEF NamesOf, Like
  <2>3. Canonical(tools, token) = CHOOSE m \in SpecNames : Normal[m] = Normal[token]
    BY <1>3 DEF Canonical
  <2>4. \E m \in SpecNames : Normal[m] = Normal[token]
    BY <2>1, <2>2
  <2>5. Canonical(tools, token) \in SpecNames /\ Normal[Canonical(tools, token)] = Normal[token]
    BY <2>3, <2>4, Zenon
  <2> QED
    BY <2>5 DEF NamesOf
<1> QED
  BY <1>1, <1>2, <1>3

LEMMA RegistryIInvInit ==
  ASSUME RegistryInit
  PROVE  RegistryIInv
<1>1. enabled = <<>> /\ runtime = <<>> /\ cli = NotParsed
  BY DEF RegistryInit
<1>2. Listed(<<>>)
  <2>1. DOMAIN <<>> = 1 .. 0
    OBVIOUS
  <2> QED
    BY <2>1 DEF Listed
<1>3. /\ DOMAIN cli = {"step", "allowed", "written", "against"}
      /\ cli.step = "shell" /\ cli.written = {} /\ cli.allowed = Everything /\ cli.against = <<>>
  BY <1>1 DEF NotParsed
<1> QED
  BY <1>1, <1>2, <1>3 DEF RegistryIInv, AllowedIsResolved

LEMMA RegistryIInvStep ==
  ASSUME RegistryIInv, [RegistryNext]_registryVars
  PROVE  RegistryIInv'
<1> USE DEF RegistryIInv
<1>0. Listed(<<>>)
  <2>1. DOMAIN <<>> = 1 .. 0
    OBVIOUS
  <2> QED
    BY <2>1 DEF Listed
<1>1. ASSUME cli' = NotParsed \/ cli' = [NotParsed EXCEPT !.step = "refused"], Listed(enabled)', Listed(runtime)'
      PROVE  RegistryIInv'
  <2>1. /\ DOMAIN cli' = {"step", "allowed", "written", "against"}
        /\ cli'.step # "up" /\ cli'.written = {} /\ cli'.allowed = Everything /\ cli'.against = <<>>
    BY <1>1 DEF NotParsed
  <2> QED
    BY <1>0, <1>1, <2>1 DEF AllowedIsResolved
<1>2. CASE Configure
  <2>1. cli' = cli /\ runtime' = runtime
    BY <1>2 DEF Configure
  <2>2. Listed(enabled)'
    BY <1>2 DEF Configure, Listed
  <2> QED
    BY <2>1, <2>2 DEF AllowedIsResolved
<1>3. CASE \E given \in BOOLEAN, tokens \in SUBSET Tokens : (tokens # {} => given) /\ ParseArgs(given, tokens)
  <2>1. PICK given \in BOOLEAN, tokens \in SUBSET Tokens : (tokens # {} => given) /\ ParseArgs(given, tokens)
    BY <1>3
  <2>2. enabled' = enabled /\ runtime' = runtime
    BY <2>1 DEF ParseArgs
  <2>3. CASE ~Accepted(enabled) \/ \E t \in tokens : ~KnownTools(enabled, t)
    <3>1. cli' = [NotParsed EXCEPT !.step = "refused"]
      BY <2>1, <2>3, Zenon DEF ParseArgs
    <3> QED
      BY <1>1, <2>2, <3>1
  <2>4. CASE \A t \in tokens : KnownTools(enabled, t)
    <3> DEFINE resolved == {Canonical(enabled, t) : t \in tokens}
               allowed == IF ~given THEN Everything ELSE resolved
    <3>1. CASE cli' = [step |-> "parsed", written |-> tokens, against |-> enabled, allowed |-> allowed]
      <4> HIDE DEF allowed
      <4>1. /\ DOMAIN cli' = {"step", "allowed", "written", "against"} /\ cli'.step = "parsed"
            /\ cli'.written = tokens /\ cli'.against = enabled /\ cli'.allowed = allowed
        BY <3>1
      <4>2. tokens = {} \/ allowed = resolved
        BY <2>1 DEF allowed
      <4>3. allowed = Everything \/ allowed = resolved
        BY DEF allowed
      <4>4. AllowedIsResolved'
        BY <2>4, <4>1, <4>2, <4>3 DEF AllowedIsResolved
      <4> QED
        BY <2>2, <4>1, <4>4
    <3>2. CASE cli' = [NotParsed EXCEPT !.step = "refused"]
      BY <1>1, <2>2, <3>2
    <3>3. cli' = IF ~Accepted(enabled) \/ \E t \in tokens : ~KnownTools(enabled, t)
                 THEN [NotParsed EXCEPT !.step = "refused"]
                 ELSE [step |-> "parsed", written |-> tokens, against |-> enabled, allowed |-> allowed]
      BY <2>1, Zenon DEF ParseArgs
    <3> QED
      BY <3>1, <3>2, <3>3, Zenon
  <2> QED
    BY <2>3, <2>4
<1>4. CASE BuildRuntime
  <2>1. enabled' = enabled
    BY <1>4 DEF BuildRuntime
  <2>2. CASE Accepted(enabled)
    <3>1. cli' = [cli EXCEPT !.step = "up"] /\ runtime' = enabled
      BY <1>4, <2>2 DEF BuildRuntime
    <3>2. /\ DOMAIN cli' = DOMAIN cli
          /\ cli'.written = cli.written /\ cli'.against = cli.against /\ cli'.allowed = cli.allowed
      BY <3>1
    <3> QED
      BY <2>1, <2>2, <3>1, <3>2 DEF AllowedIsResolved
  <2>3. CASE ~Accepted(enabled)
    <3>1. cli' = [NotParsed EXCEPT !.step = "refused"] /\ runtime' = <<>>
      BY <1>4, <2>3 DEF BuildRuntime
    <3> QED
      BY <1>0, <1>1, <2>1, <3>1
  <2> QED
    BY <2>2, <2>3
<1>5. CASE Restart
  <2>1. cli' = NotParsed /\ runtime' = <<>> /\ enabled' = enabled
    BY <1>5 DEF Restart
  <2> QED
    BY <1>0, <1>1, <2>1
<1>6. CASE \/ \E required, optional \in SUBSET Terms, blank \in BOOLEAN, asked \in {0, 2} :
                Search(required, optional, blank, asked)
           \/ UNCHANGED registryVars
  <2>1. cli' = cli /\ runtime' = runtime /\ enabled' = enabled
    BY <1>6 DEF Search, registryVars
  <2> QED
    BY <2>1 DEF AllowedIsResolved
<1> QED
  BY <1>2, <1>3, <1>4, <1>5, <1>6 DEF RegistryNext

(* A name has one entry in a registry that was accepted.                   *)
LEMMA NamesAreOfOneTool ==
  ASSUME NEW tools, Listed(tools), Accepted(tools), NEW name
  PROVE  LET given == {k \in DOMAIN tools : tools[k].name = name}
         IN  /\ name \in SpecNames => given = {}
             /\ name \in NamesOf(tools) \ SpecNames => given # {}
             /\ name \notin NamesOf(tools) => given = {}
             /\ given # {} => Max(given) = Min(given)
<1> DEFINE given == {k \in DOMAIN tools : tools[k].name = name}
<1>1. PICK n \in Nat : DOMAIN tools = 1 .. n
  BY DEF Listed
<1>2. name \in SpecNames => given = {}
  BY DEF Accepted
<1>3. name \in NamesOf(tools) \ SpecNames => given # {}
  BY DEF NamesOf
<1>4. name \notin NamesOf(tools) => given = {}
  BY DEF NamesOf
<1>5. \A j, k \in given : j = k
  <2> SUFFICES ASSUME NEW j \in given, NEW k \in given, j < k
      PROVE  FALSE
    BY <1>1
  <2>1. j \in 1 .. k - 1 /\ k \in DOMAIN tools
    BY <1>1
  <2> QED
    BY <2>1 DEF Accepted
<1>6. given # {} => Max(given) \in given /\ Min(given) \in given
  BY FirstAndLastExist
<1> HIDE DEF given
<1>7. given # {} => Max(given) = Min(given)
  BY <1>5, <1>6
<1> QED
  BY <1>2, <1>3, <1>4, <1>7 DEF given

(* Tools that are offered are those that run, under the permission that is *)
(* asked for; no tool is offered that --allowedTools does not stand for,   *)
(* and its exact names count.                                              *)
THEOREM OffersAreKept == RegistrySpec => []RegistryInv
<1>1. ASSUME RegistryIInv
      PROVE  OfferedIsReached
  <2> SUFFICES ASSUME cli.step = "up", NEW n \in NamesOf(runtime) \cup NamesOf(enabled)
      PROVE  LET reached == Executes(runtime, cli.allowed, n)
             IN  /\ n \in Definitions(runtime, cli.allowed) <=> reached # Unsupported
                 /\ reached # Unsupported => reached.permission = Requirement(runtime, n)
    BY DEF OfferedIsReached
  <2> DEFINE given == {k \in DOMAIN runtime : runtime[k].name = n}
             reached == Executes(runtime, cli.allowed, n)
             allows == Allows(runtime, cli.allowed, n)
  <2>1. /\ n \in SpecNames => given = {}
        /\ n \in NamesOf(runtime) \ SpecNames => given # {}
        /\ n \notin NamesOf(runtime) => given = {}
        /\ given # {} => Max(given) = Min(given)
    BY <1>1, NamesAreOfOneTool, Zenon DEF RegistryIInv
  <2>2. SpecNames \subseteq NamesOf(runtime)
    BY DEF NamesOf
  <2>3. n \in Definitions(runtime, cli.allowed) <=> n \in NamesOf(runtime) /\ allows
    BY DEF Definitions
  <2>4. /\ ~allows => reached = Unsupported
        /\ allows /\ n \in SpecNames => reached = [from |-> "claw", permission |-> RequiredPermission(n)]
        /\ allows /\ n \notin SpecNames /\ given = {} => reached = Unsupported
        /\ allows /\ n \notin SpecNames /\ given # {} =>
             reached = [from |-> "plugin", permission |-> runtime[Min(given)].permission]
    BY Zenon DEF Executes
  <2>5. /\ given # {} => Requirement(runtime, n) = runtime[Max(given)].permission
        /\ given = {} => Requirement(runtime, n) = RequiredPermission(n)
    BY Zenon DEF Requirement
  <2> HIDE DEF given, reached, allows
  <2>6. CASE n \in SpecNames
    BY <2>1, <2>2, <2>3, <2>4, <2>5, <2>6 DEF Unsupported, reached
  <2>7. CASE n \notin SpecNames
    BY <2>1, <2>2, <2>3, <2>4, <2>5, <2>7 DEF Unsupported, reached
  <2> QED
    BY <2>6, <2>7 DEF reached
<1>2. ASSUME RegistryIInv
      PROVE  NothingWidened
  <2> SUFFICES ASSUME cli.allowed # Everything, NEW n \in Definitions(runtime, cli.allowed)
      PROVE  \E t \in cli.written : Normal[t] = Normal[n] \/ Alias(Normal[t]) = n
    BY DEF NothingWidened
  <2>1. n \in cli.allowed
    BY DEF Definitions, Allows
  <2>2. PICK t \in cli.written : n = Canonical(cli.against, t)
    BY <1>2, <2>1 DEF RegistryIInv, AllowedIsResolved
  <2>3. KnownTools(cli.against, t) /\ Listed(cli.against)
    BY <1>2 DEF RegistryIInv, AllowedIsResolved
  <2> QED
    BY <2>2, <2>3, WordsAreResolved
<1>3. ASSUME RegistryIInv
      PROVE  ExactNamesCount
  <2> SUFFICES ASSUME NEW t \in cli.written, t \in NamesOf(cli.against)
      PROVE  \/ t \in cli.allowed
             \/ Alias(Normal[t]) # "none"
             \/ \E n \in NamesOf(cli.against) \ {t} : Normal[n] = Normal[t]
    BY DEF ExactNamesCount
  <2>1. Canonical(cli.against, t) \in cli.allowed /\ KnownTools(cli.against, t) /\ Listed(cli.against)
    BY <1>3 DEF RegistryIInv, AllowedIsResolved
  <2> QED
    BY <2>1, WordsAreResolved
<1>4. ASSUME RegistryIInv
      PROVE  RegistryInv
  BY <1>1, <1>2, <1>3, <1>4 DEF RegistryInv
<1> QED
  BY <1>4, RegistryIInvInit, RegistryIInvStep, PTL DEF RegistrySpec

-----------------------------------------------------------------------------
(* The plugins.  An invariant of the files alone is not enough: what an    *)
(* operation has still to do belongs to it.  The values, ...               *)
Versioned == Versions \cup {0}
Records == UNION {[ids -> Versions] : ids \in SUBSET Ids}
SwitchSets == UNION {[ids -> BOOLEAN] : ids \in SUBSET Ids}
Wishes == {"none", "on", "off", "unsure"}
Copies == {Absent, Bare, Broken, Partial} \cup {Whole(v) : v \in Versions}
PluginSteps ==
  [do : {"remove"}, id : Ids] \cup [do : {"copy"}, id : Ids, version : Versions]
  \cup [do : {"store"}, records : Records] \cup [do : {"switches"}, switches : SwitchSets]
  \cup [do : {"ack"}, id : Ids, version : Versioned, wish : Wishes]
  \cup [do : {"sync", "scan", "load"}]

PluginsTyped ==
  /\ session \in {"down", "up", "refused"} /\ half \in BOOLEAN /\ todo \in Seq(PluginSteps)
  /\ copy \in [Ids -> Copies] /\ registry \in Records /\ settings \in SwitchSets
  /\ torn \subseteq {"registry", "settings"}
  /\ source \in [Names -> Versioned] /\ bundle \in [Names -> Versioned]
  /\ loaded \subseteq [id : Ids, from : Ids]
  /\ wish \in [Ids -> Wishes] /\ acked \in [Ids -> Versioned]
  /\ session # "up" => todo = <<>> /\ loaded = {}

(* ... the order of the steps, which end in a load, ...                    *)
After(do) ==
  CASE do = "ack" -> {"sync", "scan", "load"} [] do = "sync" -> {"scan", "load"}
    [] do = "scan" -> {"load"} [] do = "load" -> {}
    [] OTHER -> {"remove", "copy", "store", "switches", "ack", "sync", "scan", "load"}
InOrder(p) ==
  /\ p # <<>> => p[Len(p)].do = "load"
  /\ \A i, j \in 1 .. Len(p) : i < j => p[j].do \in After(p[i].do)

(* ... what is half done, and what was left half done, ...                 *)
Under(do) == half /\ todo # <<>> /\ todo[1].do = do
Touches(s, id) == s.do \in {"remove", "copy"} /\ s.id = id
WhatIsCutIsKnown ==
  /\ half => todo # <<>> /\ todo[1].do \in {"remove", "copy", "store", "switches"}
  /\ \A id \in Ids : copy[id].is \in {"bare", "broken", "partial"} =>
       id \in cut \/ (half /\ todo # <<>> /\ Touches(todo[1], id))
  /\ "registry" \in torn => "registry" \in lost \/ Under("store")
  /\ "settings" \in torn => "settings" \in lost \/ Under("switches")

(* ... that the first m steps leave the copy of a plugin in this version   *)
(* if they touch it, ...                                                   *)
Renews(p, m, id, v) ==
  \A i \in 1 .. m : Touches(p[i], id) =>
    \E j \in i .. m : p[j].do = "copy" /\ p[j].id = id /\ p[j].version = v
Untouched(p, m, id) == \A i \in 1 .. m : ~Touches(p[i], id)
WillBeWhole(p, m, id, v) ==
  Renews(p, m, id, v) /\ (Untouched(p, m, id) => copy[id] = Whole(v))

(* ... that they leave its record and its switch, unless those were lost,  *)
Maps(f, id, v) == id \in DOMAIN f /\ f[id] = v
Stores(p, m) == \E i \in 1 .. m : p[i].do = "store"
WillBeRecorded(p, m, id, v) ==
  /\ \A i \in 1 .. m : p[i].do = "store" => Maps(p[i].records, id, v)
  /\ ~Stores(p, m) => Maps(registry, id, v)

OnlyIfWanted(w, s, id) == Maps(s, id, TRUE) => w \in {"on", "unsure"}
AsWished(w, s, id) == (w = "on" => Maps(s, id, TRUE)) /\ (w = "off" => Maps(s, id, FALSE))
Agrees(w, s, id) == OnlyIfWanted(w, s, id) /\ ("settings" \in lost \/ AsWished(w, s, id))
WillAgree(p, m, w, id) ==
  /\ \A i \in 1 .. m : p[i].do = "switches" => Agrees(w, p[i].switches, id)
  /\ (\A i \in 1 .. m : p[i].do # "switches") => Agrees(w, settings, id)

(* ... so that a command that returns has done what it reports, ...        *)
AcksAreEarned ==
  \A k \in 1 .. Len(todo) : todo[k].do = "ack" =>
    LET id == todo[k].id
        v == todo[k].version
    IN  /\ ~IsBundled(id) /\ v # 0 =>
             /\ WillBeWhole(todo, k - 1, id, v)
             /\ "registry" \in lost \/ WillBeRecorded(todo, k - 1, id, v)
        /\ WillAgree(todo, k - 1, todo[k].wish, id)

(* ... what was reported stays so, as the steps do not touch it, ...       *)
AckedIsKept ==
  /\ \A id \in Ids : ~IsBundled(id) /\ acked[id] # 0 =>
       /\ copy[id] = Whole(acked[id])
       /\ "registry" \in lost \/ Under("store") \/ Maps(registry, id, acked[id])
  /\ \A k \in 1 .. Len(todo) : \A id \in Ids : ~IsBundled(id) /\ acked[id] # 0 =>
       /\ ~Touches(todo[k], id)
       /\ todo[k].do = "store" => "registry" \in lost \/ Maps(todo[k].records, id, acked[id])
WishesAreKept ==
  /\ \A id \in Ids :
       /\ OnlyIfWanted(wish[id], settings, id)
       /\ "settings" \in lost \/ Under("switches") \/ AsWished(wish[id], settings, id)
  /\ \A k \in 1 .. Len(todo) : todo[k].do = "switches" =>
       \A id \in Ids : Agrees(wish[id], todo[k].switches, id)

(* ... and that the scan after a sync finds what comes with claw.          *)
BundledAreRenewed ==
  (\E k \in 1 .. Len(todo) : todo[k].do = "scan") /\ (\A k \in 1 .. Len(todo) : todo[k].do # "sync") =>
    \A n \in Names : bundle[n] # 0 =>
      /\ Renews(todo, Len(todo), Bundled(n), bundle[n])
      /\ Untouched(todo, Len(todo), Bundled(n)) => copy[Bundled(n)].is \in {"whole", "partial"}

AckedIsLoaded ==
  todo = <<>> /\ session = "up" /\ "settings" \notin lost =>
    \A id \in Ids : ~IsBundled(id) /\ acked[id] # 0 /\ wish[id] = "on" =>
      [id |-> id, from |-> id] \in loaded \/ Shadowed(id)

PluginsIInv ==
  /\ PluginsTyped /\ InOrder(todo) /\ WhatIsCutIsKnown
  /\ AcksAreEarned /\ AckedIsKept /\ WishesAreKept /\ BundledAreRenewed
  /\ StartsAgain /\ LoadedIsWanted /\ AckedIsLoaded

(* What a step carries with it.                                            *)
LEMMA StepsAreTyped ==
  ASSUME NEW s \in PluginSteps
  PROVE  /\ s.do \in {"remove", "copy", "store", "switches", "ack", "sync", "scan", "load"}
         /\ s.do \in {"remove", "copy", "ack"} => s.id \in Ids
         /\ s.do = "copy" => s.version \in Versions
         /\ s.do = "store" => s.records \in Records
         /\ s.do = "switches" => s.switches \in SwitchSets
         /\ s.do = "ack" => s.version \in Versioned /\ s.wish \in Wishes
  BY DEF PluginSteps

LEMMA StepsAreMade ==
  /\ \A id \in Ids : Removal(id) \in PluginSteps
  /\ \A id \in Ids : \A v \in Versions : Copying(id, v) \in PluginSteps
  /\ \A r \in Records : Store(r) \in PluginSteps
  /\ \A s \in SwitchSets : Switches(s) \in PluginSteps
  /\ \A id \in Ids : \A v \in Versioned : \A w \in Wishes : Ack(id, v, w) \in PluginSteps
  /\ Sync \in PluginSteps /\ Scan \in PluginSteps /\ Load \in PluginSteps
  BY DEF PluginSteps, Removal, Copying, Store, Switches, Ack, Sync, Scan, Load

LEMMA CopiesAreTyped ==
  /\ {Absent, Bare, Broken, Partial} \subseteq Copies
  /\ \A v \in Versions : Whole(v) \in Copies /\ Whole(v).is = "whole"
  /\ \A c \in Copies : /\ c.is \in {"absent", "bare", "broken", "partial", "whole"}
                       /\ (c = Broken) <=> (c.is = "broken")
                       /\ (c = Absent) <=> (c.is = "absent")
  /\ Absent.is = "absent" /\ Bare.is = "bare" /\ Broken.is = "broken" /\ Partial.is = "partial"
<1>1. Absent.is = "absent" /\ Bare.is = "bare" /\ Broken.is = "broken" /\ Partial.is = "partial"
  BY DEF Absent, Bare, Broken, Partial
<1>2. \A v \in Versions : Whole(v).is = "whole"
  BY DEF Whole
<1>3. \A c \in Copies : c \in {Absent, Bare, Broken, Partial} \/ \E v \in Versions : c = Whole(v)
  BY DEF Copies
<1>4. {Absent, Bare, Broken, Partial} \subseteq Copies /\ \A v \in Versions : Whole(v) \in Copies
  BY DEF Copies
<1> QED
  BY <1>1, <1>2, <1>3, <1>4

(* A plan without its first step.                                          *)
LEMMA RestOfPlan ==
  ASSUME NEW p \in Seq(PluginSteps), p # <<>>
  PROVE  /\ Len(p) \in Nat /\ Len(p) >= 1 /\ p[1] \in PluginSteps /\ Head(p) = p[1]
         /\ Tail(p) \in Seq(PluginSteps) /\ Len(Tail(p)) = Len(p) - 1
         /\ \A k \in 1 .. Len(p) - 1 : Tail(p)[k] = p[k + 1]
         /\ \A k \in 1 .. Len(p) : p[k] \in PluginSteps
         /\ Tail(p) = <<>> => Len(p) = 1
<1>1. Len(p) \in Nat /\ Len(p) >= 1
  BY LenProperties, EmptySeq
<1>2. \A k \in 1 .. Len(p) : p[k] \in PluginSteps
  BY ElementOfSeq
<1>3. Tail(p) \in Seq(PluginSteps) /\ Len(Tail(p)) = Len(p) - 1 /\ \A k \in 1 .. Len(p) - 1 : Tail(p)[k] = p[k + 1]
  BY HeadTailProperties, <1>1
<1>4. Tail(p) = <<>> => Len(p) = 1
  BY <1>1, <1>3, EmptySeq
<1> QED
  BY <1>1, <1>2, <1>3, <1>4

LEMMA RestIsInOrder ==
  ASSUME NEW p \in Seq(PluginSteps), p # <<>>, InOrder(p)
  PROVE  /\ InOrder(Tail(p))
         /\ Tail(p) = <<>> => p[1].do = "load"
         /\ \A k \in 1 .. Len(Tail(p)) : Tail(p)[k].do \in After(p[1].do)
<1> DEFINE t == Tail(p)
<1>1. /\ Len(p) \in Nat /\ Len(p) >= 1 /\ Len(t) = Len(p) - 1
      /\ \A k \in 1 .. Len(p) - 1 : t[k] = p[k + 1]
      /\ t = <<>> => Len(p) = 1
  BY RestOfPlan
<1>2. t # <<>> => Len(t) \in Nat /\ Len(t) >= 1
  BY RestOfPlan, LenProperties, EmptySeq
<1> HIDE DEF t
<1>3. t # <<>> => t[Len(t)].do = "load"
  BY <1>1, <1>2 DEF InOrder
<1>4. \A i, j \in 1 .. Len(t) : i < j => t[j].do \in After(t[i].do)
  <2> SUFFICES ASSUME NEW i \in 1 .. Len(t), NEW j \in 1 .. Len(t), i < j
      PROVE  t[j].do \in After(t[i].do)
    OBVIOUS
  <2>1. i + 1 \in 1 .. Len(p) /\ j + 1 \in 1 .. Len(p) /\ i + 1 < j + 1 /\ t[i] = p[i + 1] /\ t[j] = p[j + 1]
    BY <1>1
  <2>2. p[j + 1].do \in After(p[i + 1].do)
    BY <2>1 DEF InOrder
  <2> QED
    BY <2>1, <2>2, Zenon
<1>5. t = <<>> => p[1].do = "load"
  BY <1>1 DEF InOrder
<1>6. \A k \in 1 .. Len(t) : t[k].do \in After(p[1].do)
  <2> SUFFICES ASSUME NEW k \in 1 .. Len(t)
      PROVE  t[k].do \in After(p[1].do)
    OBVIOUS
  <2>1. k + 1 \in 1 .. Len(p) /\ 1 \in 1 .. Len(p) /\ 1 < k + 1 /\ t[k] = p[k + 1]
    BY <1>1
  <2>2. p[k + 1].do \in After(p[1].do)
    BY <2>1 DEF InOrder
  <2> QED
    BY <2>1, <2>2, Zenon
<1> QED
  BY <1>3, <1>4, <1>5, <1>6 DEF InOrder, t

(* What the first m steps do to a copy is what the first does, and then    *)
(* the others.                                                             *)
LEMMA RestRenews ==
  ASSUME NEW p \in Seq(PluginSteps), p # <<>>, NEW m \in 1 .. Len(p), NEW id, NEW v, Renews(p, m, id, v)
  PROVE  /\ Renews(Tail(p), m - 1, id, v)
         /\ Untouched(Tail(p), m - 1, id) /\ ~Touches(p[1], id) => Untouched(p, m, id)
         /\ Untouched(Tail(p), m - 1, id) /\ Touches(p[1], id) => p[1].do = "copy" /\ p[1].version = v
<1> DEFINE t == Tail(p)
<1>1. /\ Len(p) \in Nat /\ Len(p) >= 1 /\ Len(t) = Len(p) - 1
      /\ \A k \in 1 .. Len(p) - 1 : t[k] = p[k + 1]
  BY RestOfPlan
<1> HIDE DEF t
<1>2. Renews(t, m - 1, id, v)
  <2> SUFFICES ASSUME NEW i \in 1 .. m - 1, Touches(t[i], id)
      PROVE  \E j \in i .. m - 1 : t[j].do = "copy" /\ t[j].id = id /\ t[j].version = v
    BY DEF Renews
  <2>1. i + 1 \in 1 .. m /\ t[i] = p[i + 1]
    BY <1>1
  <2>2. PICK j \in i + 1 .. m : p[j].do = "copy" /\ p[j].id = id /\ p[j].version = v
    BY <2>1 DEF Renews
  <2>3. j - 1 \in i .. m - 1 /\ j - 1 \in 1 .. Len(p) - 1 /\ (j - 1) + 1 = j
    BY <1>1, <2>1, <2>2
  <2>4. t[j - 1] = p[j]
    BY <1>1, <2>3
  <2> QED
    BY <2>2, <2>3, <2>4
<1>3. ASSUME Untouched(t, m - 1, id), NEW i \in 2 .. m
      PROVE  ~Touches(p[i], id)
  <2>1. i - 1 \in 1 .. m - 1 /\ i - 1 \in 1 .. Len(p) - 1 /\ (i - 1) + 1 = i
    BY <1>1
  <2>2. t[i - 1] = p[i]
    BY <1>1, <2>1
  <2> QED
    BY <1>3, <2>1, <2>2 DEF Untouched
<1>4. ASSUME Untouched(t, m - 1, id), ~Touches(p[1], id)
      PROVE  Untouched(p, m, id)
  <2> SUFFICES ASSUME NEW i \in 1 .. m PROVE ~Touches(p[i], id)
    BY DEF Untouched
  <2>1. i = 1 \/ i \in 2 .. m
    OBVIOUS
  <2> QED
    BY <1>3, <1>4, <2>1
<1>5. ASSUME Untouched(t, m - 1, id), Touches(p[1], id)
      PROVE  p[1].do = "copy" /\ p[1].version = v
  <2>1. PICK j \in 1 .. m : p[j].do = "copy" /\ p[j].id = id /\ p[j].version = v
    BY <1>5 DEF Renews
  <2>2. Touches(p[j], id)
    BY <2>1 DEF Touches
  <2>3. j = 1 \/ j \in 2 .. m
    OBVIOUS
  <2> QED
    BY <1>3, <1>5, <2>1, <2>2, <2>3
<1> QED
  BY <1>2, <1>4, <1>5 DEF t

(* While the first step is half done, nothing is claimed of what it works  *)
(* on.                                                                     *)
LEMMA HalfDone ==
  ASSUME PluginsIInv, PluginsTyped', todo # <<>>, todo' = todo, half',
         todo[1].do \in {"remove", "copy", "store", "switches"},
         \A id \in Ids : ~Touches(todo[1], id) => copy'[id] = copy[id],
         registry' = registry \/ todo[1].do = "store",
         settings' = settings \/ (settings' = <<>> /\ todo[1].do = "switches"),
         \/ torn' = torn
         \/ todo[1].do = "store" /\ torn' = torn \cup {"registry"}
         \/ todo[1].do = "switches" /\ torn' = torn \cup {"settings"},
         session' = session, bundle' = bundle, acked' = acked, wish' = wish, cut' = cut, lost' = lost
  PROVE  PluginsIInv'
<1> USE DEF PluginsIInv
<1>1. /\ todo \in Seq(PluginSteps) /\ Len(todo) \in Nat /\ Len(todo) >= 1
      /\ \A k \in 1 .. Len(todo) : todo[k] \in PluginSteps
  BY RestOfPlan DEF PluginsTyped
<1>2. InOrder(todo)'
  BY DEF InOrder
<1>3. WhatIsCutIsKnown'
  <2>1. \A id \in Ids : copy'[id].is \in {"bare", "broken", "partial"} => id \in cut' \/ Touches(todo[1], id)
    <3> SUFFICES ASSUME NEW id \in Ids, copy'[id].is \in {"bare", "broken", "partial"}, ~Touches(todo[1], id)
        PROVE  id \in cut'
      OBVIOUS
    <3>1. copy'[id] = copy[id]
      OBVIOUS
    <3> QED
      BY <3>1 DEF WhatIsCutIsKnown
  <2>2. "registry" \in torn' => "registry" \in lost' \/ todo[1].do = "store"
    BY DEF WhatIsCutIsKnown, Under
  <2>3. "settings" \in torn' => "settings" \in lost' \/ todo[1].do = "switches"
    BY DEF WhatIsCutIsKnown, Under
  <2> QED
    BY <2>1, <2>2, <2>3 DEF WhatIsCutIsKnown, Under
<1>4. AcksAreEarned'
  <2> SUFFICES ASSUME NEW k \in 1 .. Len(todo), todo[k].do = "ack"
      PROVE  /\ ~IsBundled(todo[k].id) /\ todo[k].version # 0 =>
                  /\ WillBeWhole(todo, k - 1, todo[k].id, todo[k].version)'
                  /\ "registry" \in lost' \/ WillBeRecorded(todo, k - 1, todo[k].id, todo[k].version)'
             /\ WillAgree(todo, k - 1, todo[k].wish, todo[k].id)'
    BY DEF AcksAreEarned
  <2>1. k # 1 /\ 1 \in 1 .. k - 1 /\ k - 1 \in Nat /\ todo[k].id \in Ids
    BY <1>1, StepsAreTyped
  <2>2. ~IsBundled(todo[k].id) /\ todo[k].version # 0 =>
          /\ WillBeWhole(todo, k - 1, todo[k].id, todo[k].version)
          /\ "registry" \in lost \/ WillBeRecorded(todo, k - 1, todo[k].id, todo[k].version)
    BY DEF AcksAreEarned
  <2>3. WillAgree(todo, k - 1, todo[k].wish, todo[k].id)
    BY DEF AcksAreEarned
  <2>4. ASSUME WillBeWhole(todo, k - 1, todo[k].id, todo[k].version)
        PROVE  WillBeWhole(todo, k - 1, todo[k].id, todo[k].version)'
    <3>1. Untouched(todo, k - 1, todo[k].id) => copy'[todo[k].id] = copy[todo[k].id]
      BY <2>1 DEF Untouched
    <3> QED
      BY <2>4, <3>1 DEF WillBeWhole, Renews, Untouched
  <2>5. ASSUME WillBeRecorded(todo, k - 1, todo[k].id, todo[k].version)
        PROVE  WillBeRecorded(todo, k - 1, todo[k].id, todo[k].version)'
    <3>1. ~Stores(todo, k - 1) => registry' = registry
      BY <2>1 DEF Stores
    <3> QED
      BY <2>5, <3>1 DEF WillBeRecorded, Stores, Maps
  <2>6. WillAgree(todo, k - 1, todo[k].wish, todo[k].id)'
    <3>1. (\A i \in 1 .. k - 1 : todo[i].do # "switches") => settings' = settings
      BY <2>1
    <3> QED
      BY <2>3, <3>1 DEF WillAgree, Agrees, OnlyIfWanted, AsWished, Maps
  <2> QED
    BY <2>2, <2>4, <2>5, <2>6
<1>5. AckedIsKept'
  <2>1. ASSUME NEW id \in Ids, ~IsBundled(id), acked[id] # 0
        PROVE  /\ copy'[id] = Whole(acked[id])
               /\ "registry" \in lost \/ Under("store")' \/ Maps(registry, id, acked[id])'
    <3>1. ~Touches(todo[1], id) /\ copy[id] = Whole(acked[id])
      BY <1>1, <2>1 DEF AckedIsKept
    <3>2. "registry" \in lost \/ Under("store") \/ Maps(registry, id, acked[id])
      BY <2>1 DEF AckedIsKept
    <3> QED
      BY <3>1, <3>2 DEF Under, Maps
  <2>2. \A k \in 1 .. Len(todo) : \A id \in Ids : ~IsBundled(id) /\ acked[id] # 0 =>
          /\ ~Touches(todo[k], id)
          /\ todo[k].do = "store" => "registry" \in lost \/ Maps(todo[k].records, id, acked[id])
    BY DEF AckedIsKept
  <2> QED
    BY <2>1, <2>2 DEF AckedIsKept
<1>6. WishesAreKept'
  <2>1. ASSUME NEW id \in Ids
        PROVE  /\ OnlyIfWanted(wish[id], settings, id)'
               /\ "settings" \in lost \/ Under("switches")' \/ AsWished(wish[id], settings, id)'
    <3>1. /\ OnlyIfWanted(wish[id], settings, id)
          /\ "settings" \in lost \/ Under("switches") \/ AsWished(wish[id], settings, id)
      BY DEF WishesAreKept
    <3> QED
      BY <3>1 DEF OnlyIfWanted, AsWished, Maps, Under
  <2>2. \A k \in 1 .. Len(todo) : todo[k].do = "switches" => \A id \in Ids : Agrees(wish[id], todo[k].switches, id)'
    BY DEF WishesAreKept, Agrees
  <2> QED
    BY <2>1, <2>2 DEF WishesAreKept
<1>7. BundledAreRenewed'
  <2>0. 1 \in 1 .. Len(todo)
    BY <1>1
  <2> SUFFICES ASSUME \E k \in 1 .. Len(todo) : todo[k].do = "scan", \A k \in 1 .. Len(todo) : todo[k].do # "sync",
                      NEW n \in Names, bundle[n] # 0
      PROVE  /\ Renews(todo, Len(todo), Bundled(n), bundle[n])
             /\ Untouched(todo, Len(todo), Bundled(n)) => copy'[Bundled(n)].is \in {"whole", "partial"}
    BY DEF BundledAreRenewed, Renews, Untouched
  <2>1. /\ Renews(todo, Len(todo), Bundled(n), bundle[n])
        /\ Untouched(todo, Len(todo), Bundled(n)) => copy[Bundled(n)].is \in {"whole", "partial"}
    BY DEF BundledAreRenewed
  <2>2. Untouched(todo, Len(todo), Bundled(n)) => ~Touches(todo[1], Bundled(n))
    BY <2>0 DEF Untouched
  <2>3. Bundled(n) \in Ids
    BY DEF Bundled, Ids
  <2> QED
    BY <2>1, <2>2, <2>3
<1>8. session' = "up"
  BY DEF PluginsTyped
<1>9. StartsAgain' /\ LoadedIsWanted' /\ AckedIsLoaded'
  BY <1>8 DEF StartsAgain, LoadedIsWanted, AckedIsLoaded
<1> QED
  BY <1>2, <1>3, <1>4, <1>5, <1>6, <1>7, <1>9

(* A step that is done hands over to the rest of the plan what the plan    *)
(* promised.                                                               *)
LEMMA StepDone ==
  ASSUME PluginsIInv, PluginsTyped', todo # <<>>, todo' = Tail(todo), ~half',
         todo[1].do \in {"remove", "copy", "store", "switches", "ack", "load"},
         \A id \in Ids : IF ~Touches(todo[1], id) THEN copy'[id] = copy[id] /\ (id \in cut => id \in cut')
                         ELSE IF todo[1].do = "copy" THEN copy'[id] = Whole(todo[1].version)
                         ELSE copy'[id] = Absent,
         registry' = IF todo[1].do = "store" THEN todo[1].records ELSE registry,
         settings' = IF todo[1].do = "switches" THEN todo[1].switches ELSE settings,
         torn' = IF todo[1].do = "store" THEN torn \ {"registry"}
                 ELSE IF todo[1].do = "switches" THEN torn \ {"settings"} ELSE torn,
         \A id \in Ids : IF todo[1].do = "ack" /\ todo[1].id = id
                         THEN acked'[id] = todo[1].version /\ wish'[id] = todo[1].wish
                         ELSE acked'[id] = acked[id] /\ wish'[id] = wish[id],
         session' = "up", bundle' = bundle, lost' = lost,
         todo[1].do = "load" => LoadedIsWanted' /\ AckedIsLoaded'
  PROVE  PluginsIInv'
<1> USE DEF PluginsIInv
<1>0. PICK t : t = Tail(todo)
  OBVIOUS
<1>1. /\ todo \in Seq(PluginSteps) /\ Len(todo) \in Nat /\ Len(todo) >= 1
      /\ \A k \in 1 .. Len(todo) : todo[k] \in PluginSteps
      /\ t \in Seq(PluginSteps) /\ Len(t) = Len(todo) - 1
      /\ \A k \in 1 .. Len(t) : t[k] = todo[k + 1] /\ k + 1 \in 1 .. Len(todo) /\ t[k] \in PluginSteps
      /\ 1 \in 1 .. Len(todo)
  BY RestOfPlan, <1>0 DEF PluginsTyped
<1>2. /\ InOrder(t) /\ (t = <<>> => todo[1].do = "load")
      /\ \A k \in 1 .. Len(t) : t[k].do \in After(todo[1].do)
  BY RestIsInOrder, <1>0, <1>1
<1>t. todo' = t
  BY <1>0
<1>3. WhatIsCutIsKnown'
  <2>1. ASSUME NEW id \in Ids, copy'[id].is \in {"bare", "broken", "partial"} PROVE id \in cut'
    <3>1. \A v : Whole(v).is = "whole"
      BY DEF Whole
    <3>2. Absent.is = "absent"
      BY DEF Absent
    <3>3. ~Touches(todo[1], id)
      BY <2>1, <3>1, <3>2
    <3>4. copy'[id] = copy[id] /\ (id \in cut => id \in cut')
      BY <3>3
    <3>5. id \in cut \/ Touches(todo[1], id)
      BY <2>1, <3>4 DEF WhatIsCutIsKnown
    <3> QED
      BY <3>3, <3>4, <3>5
  <2>2. "registry" \in torn' => "registry" \in lost'
    BY DEF WhatIsCutIsKnown, Under
  <2>3. "settings" \in torn' => "settings" \in lost'
    BY DEF WhatIsCutIsKnown, Under
  <2> QED
    BY <2>1, <2>2, <2>3 DEF WhatIsCutIsKnown
<1>4. AcksAreEarned'
  <2> SUFFICES ASSUME NEW k \in 1 .. Len(t), t[k].do = "ack"
      PROVE  /\ ~IsBundled(t[k].id) /\ t[k].version # 0 =>
                  /\ WillBeWhole(t, k - 1, t[k].id, t[k].version)'
                  /\ "registry" \in lost \/ WillBeRecorded(t, k - 1, t[k].id, t[k].version)'
             /\ WillAgree(t, k - 1, t[k].wish, t[k].id)'
    BY <1>t DEF AcksAreEarned
  <2>0. PICK id, v, w : id = t[k].id /\ v = t[k].version /\ w = t[k].wish
    OBVIOUS
  <2>1. /\ id \in Ids /\ k \in 1 .. Len(todo) /\ k + 1 \in 1 .. Len(todo) /\ (k + 1) - 1 = k /\ t[k] = todo[k + 1]
        /\ k - 1 \in Nat /\ 1 \in 1 .. k
        /\ \A i \in 1 .. k - 1 : i + 1 \in 1 .. k /\ i \in 1 .. Len(t) /\ t[i] = todo[i + 1]
        /\ \A i \in 1 .. k : i = 1 \/ (i - 1 \in 1 .. k - 1 /\ todo[i] = t[i - 1])
    <3>1. id \in Ids
      BY <1>1, <2>0, StepsAreTyped
    <3>2. /\ k \in 1 .. Len(todo) /\ k + 1 \in 1 .. Len(todo) /\ (k + 1) - 1 = k /\ t[k] = todo[k + 1]
          /\ k - 1 \in Nat /\ 1 \in 1 .. k
      BY <1>1
    <3>3. \A i \in 1 .. k - 1 : i + 1 \in 1 .. k /\ i \in 1 .. Len(t) /\ t[i] = todo[i + 1]
      BY <1>1
    <3>4. ASSUME NEW i \in 1 .. k, i # 1 PROVE i - 1 \in 1 .. k - 1 /\ todo[i] = t[i - 1]
      <4>1. i - 1 \in 1 .. k - 1 /\ i - 1 \in 1 .. Len(t) /\ (i - 1) + 1 = i
        BY <3>4, <1>1
      <4> QED
        BY <4>1, <1>1
    <3> QED
      BY <3>1, <3>2, <3>3, <3>4
  <2>2. ~IsBundled(id) /\ v # 0 =>
          /\ WillBeWhole(todo, k, id, v)
          /\ "registry" \in lost \/ WillBeRecorded(todo, k, id, v)
    <3>1. LET i == todo[k + 1].id  u == todo[k + 1].version
          IN  ~IsBundled(i) /\ u # 0 =>
                /\ WillBeWhole(todo, (k + 1) - 1, i, u)
                /\ "registry" \in lost \/ WillBeRecorded(todo, (k + 1) - 1, i, u)
      BY <2>1 DEF AcksAreEarned
    <3> QED
      BY <2>0, <2>1, <3>1
  <2>3. WillAgree(todo, k, w, id)
    <3>1. WillAgree(todo, (k + 1) - 1, todo[k + 1].wish, todo[k + 1].id)
      BY <2>1 DEF AcksAreEarned
    <3> QED
      BY <2>0, <2>1, <3>1
  <2>4. ASSUME WillBeWhole(todo, k, id, v)
        PROVE  WillBeWhole(t, k - 1, id, v)'
    <3>1. /\ Renews(t, k - 1, id, v)
          /\ Untouched(t, k - 1, id) /\ ~Touches(todo[1], id) => Untouched(todo, k, id)
          /\ Untouched(t, k - 1, id) /\ Touches(todo[1], id) => todo[1].do = "copy" /\ todo[1].version = v
      BY RestRenews, <1>0, <1>1, <2>1, <2>4 DEF WillBeWhole
    <3>2. Untouched(t, k - 1, id) => copy'[id] = Whole(v)
      BY <2>1, <2>4, <3>1 DEF WillBeWhole
    <3> QED
      BY <3>1, <3>2 DEF WillBeWhole, Renews, Untouched
  <2>5. ASSUME WillBeRecorded(todo, k, id, v)
        PROVE  WillBeRecorded(t, k - 1, id, v)'
    <3>1. \A i \in 1 .. k - 1 : t[i].do = "store" => Maps(t[i].records, id, v)
      BY <2>1, <2>5 DEF WillBeRecorded
    <3>2. ASSUME ~Stores(t, k - 1) PROVE Maps(registry', id, v)
      <4>1. CASE todo[1].do = "store"
        BY <2>1, <2>5, <4>1 DEF WillBeRecorded
      <4>2. CASE todo[1].do # "store"
        <5>1. ~Stores(todo, k)
          <6>1. SUFFICES ASSUME NEW i \in 1 .. k, todo[i].do = "store" PROVE FALSE
            BY DEF Stores
          <6>2. i - 1 \in 1 .. k - 1 /\ todo[i] = t[i - 1]
            BY <2>1, <4>2, <6>1
          <6> QED
            BY <3>2, <6>1, <6>2 DEF Stores
        <5> QED
          BY <2>5, <4>2, <5>1 DEF WillBeRecorded
      <4> QED
        BY <4>1, <4>2
    <3> QED
      BY <3>1, <3>2 DEF WillBeRecorded, Stores, Maps
  <2>6. WillAgree(t, k - 1, w, id)'
    <3>1. \A i \in 1 .. k - 1 : t[i].do = "switches" => Agrees(w, t[i].switches, id)
      <4> SUFFICES ASSUME NEW i \in 1 .. k - 1, t[i].do = "switches" PROVE Agrees(w, t[i].switches, id)
        OBVIOUS
      <4>1. i + 1 \in 1 .. k /\ t[i] = todo[i + 1]
        BY <2>1
      <4>2. todo[i + 1].do = "switches" => Agrees(w, todo[i + 1].switches, id)
        BY <2>3, <4>1 DEF WillAgree
      <4> QED
        BY <4>1, <4>2
    <3>2. ASSUME \A i \in 1 .. k - 1 : t[i].do # "switches" PROVE Agrees(w, settings', id)
      <4>1. CASE todo[1].do = "switches"
        BY <2>1, <2>3, <4>1 DEF WillAgree
      <4>2. CASE todo[1].do # "switches"
        <5>1. \A i \in 1 .. k : todo[i].do # "switches"
          BY <2>1, <3>2, <4>2
        <5> QED
          BY <2>3, <4>2, <5>1 DEF WillAgree
      <4> QED
        BY <4>1, <4>2
    <3> QED
      BY <3>1, <3>2 DEF WillAgree, Agrees, OnlyIfWanted, AsWished, Maps
  <2> QED
    BY <2>0, <2>2, <2>4, <2>5, <2>6
<1>5. todo[1].do = "ack" =>
        /\ todo[1].id \in Ids
        /\ ~IsBundled(todo[1].id) /\ todo[1].version # 0 =>
             /\ copy[todo[1].id] = Whole(todo[1].version)
             /\ "registry" \in lost \/ Maps(registry, todo[1].id, todo[1].version)
        /\ Agrees(todo[1].wish, settings, todo[1].id)
        /\ \A k \in 1 .. Len(t) : t[k].do \notin {"remove", "copy", "store", "switches"}
  <2> SUFFICES ASSUME todo[1].do = "ack"
      PROVE  /\ todo[1].id \in Ids
             /\ ~IsBundled(todo[1].id) /\ todo[1].version # 0 =>
                  /\ copy[todo[1].id] = Whole(todo[1].version)
                  /\ "registry" \in lost \/ Maps(registry, todo[1].id, todo[1].version)
             /\ Agrees(todo[1].wish, settings, todo[1].id)
             /\ \A k \in 1 .. Len(t) : t[k].do \notin {"remove", "copy", "store", "switches"}
    OBVIOUS
  <2>1. 1 .. 1 - 1 = {}
    OBVIOUS
  <2>2. todo[1].id \in Ids
    BY <1>1, StepsAreTyped
  <2>3. ~IsBundled(todo[1].id) /\ todo[1].version # 0 =>
          /\ WillBeWhole(todo, 1 - 1, todo[1].id, todo[1].version)
          /\ "registry" \in lost \/ WillBeRecorded(todo, 1 - 1, todo[1].id, todo[1].version)
    BY <1>1 DEF AcksAreEarned
  <2>4. WillAgree(todo, 1 - 1, todo[1].wish, todo[1].id)
    BY <1>1 DEF AcksAreEarned
  <2>5. \A k \in 1 .. Len(t) : t[k].do \in {"sync", "scan", "load"}
    BY <1>2 DEF After
  <2>6. Agrees(todo[1].wish, settings, todo[1].id)
    BY <2>1, <2>4 DEF WillAgree
  <2>7. ~IsBundled(todo[1].id) /\ todo[1].version # 0 =>
             /\ copy[todo[1].id] = Whole(todo[1].version)
             /\ "registry" \in lost \/ Maps(registry, todo[1].id, todo[1].version)
    BY <2>1, <2>3 DEF WillBeWhole, WillBeRecorded, Untouched, Stores
  <2> QED
    BY <2>2, <2>5, <2>6, <2>7
<1>6. AckedIsKept'
  <2>1. ASSUME NEW id \in Ids, ~IsBundled(id), acked'[id] # 0
        PROVE  /\ copy'[id] = Whole(acked'[id])
               /\ "registry" \in lost \/ Maps(registry', id, acked'[id])
               /\ \A k \in 1 .. Len(t) :
                    /\ ~Touches(t[k], id)
                    /\ t[k].do = "store" => "registry" \in lost \/ Maps(t[k].records, id, acked'[id])
    <3>1. CASE todo[1].do = "ack" /\ todo[1].id = id
      <4>1. ~Touches(todo[1], id) /\ acked'[id] = todo[1].version /\ registry' = registry
        BY <3>1 DEF Touches
      <4> QED
        BY <1>5, <2>1, <3>1, <4>1 DEF Touches
    <3>2. CASE ~(todo[1].do = "ack" /\ todo[1].id = id)
      <4>1. acked'[id] = acked[id]
        BY <3>2
      <4>2. /\ copy[id] = Whole(acked[id])
            /\ "registry" \in lost \/ Under("store") \/ Maps(registry, id, acked[id])
            /\ \A k \in 1 .. Len(todo) :
                 /\ ~Touches(todo[k], id)
                 /\ todo[k].do = "store" => "registry" \in lost \/ Maps(todo[k].records, id, acked[id])
        BY <2>1, <4>1 DEF AckedIsKept
      <4>3. copy'[id] = copy[id]
        BY <1>1, <4>2
      <4>4. "registry" \in lost \/ Maps(registry', id, acked[id])
        BY <1>1, <4>2 DEF Under
      <4> QED
        BY <1>1, <4>1, <4>2, <4>3, <4>4
    <3> QED
      BY <3>1, <3>2
  <2> QED
    <3>1. \A id \in Ids : ~IsBundled(id) /\ acked'[id] # 0 =>
            /\ copy'[id] = Whole(acked'[id])
            /\ "registry" \in lost' \/ Maps(registry, id, acked[id])'
      BY <2>1 DEF Maps
    <3>2. \A k \in 1 .. Len(todo') : \A id \in Ids : ~IsBundled(id) /\ acked'[id] # 0 =>
            /\ ~Touches(todo'[k], id)
            /\ todo'[k].do = "store" => "registry" \in lost' \/ Maps(todo[k].records, id, acked[id])'
      <4>1. \A k \in 1 .. Len(t) : \A id \in Ids : ~IsBundled(id) /\ acked'[id] # 0 =>
              /\ ~Touches(t[k], id)
              /\ t[k].do = "store" => "registry" \in lost \/ Maps(t[k].records, id, acked'[id])
        BY <2>1
      <4>2. lost' = lost
        OBVIOUS
      <4> QED
        <5> SUFFICES ASSUME NEW k \in 1 .. Len(todo'), NEW id \in Ids, ~IsBundled(id), acked'[id] # 0
            PROVE  /\ ~Touches(todo'[k], id)
                   /\ todo'[k].do = "store" => "registry" \in lost' \/ Maps(todo[k].records, id, acked[id])'
          OBVIOUS
        <5>1. k \in 1 .. Len(t) /\ todo'[k] = t[k]
          BY <1>t
        <5>2. /\ ~Touches(t[k], id)
              /\ t[k].do = "store" => "registry" \in lost \/ Maps(t[k].records, id, acked'[id])
          BY <4>1, <5>1
        <5> QED
          BY <4>2, <5>1, <5>2 DEF Maps
    <3> QED
      BY <3>1, <3>2, Zenon DEF AckedIsKept
<1>7. WishesAreKept'
  <2>1. ASSUME NEW id \in Ids
        PROVE  /\ Agrees(wish'[id], settings', id)
               /\ \A k \in 1 .. Len(t) : t[k].do = "switches" => Agrees(wish'[id], t[k].switches, id)
    <3>1. CASE todo[1].do = "ack" /\ todo[1].id = id
      BY <1>5, <3>1
    <3>2. CASE ~(todo[1].do = "ack" /\ todo[1].id = id)
      <4>1. wish'[id] = wish[id]
        BY <3>2
      <4>2. /\ OnlyIfWanted(wish[id], settings, id)
            /\ "settings" \in lost \/ Under("switches") \/ AsWished(wish[id], settings, id)
            /\ \A k \in 1 .. Len(todo) : todo[k].do = "switches" => Agrees(wish[id], todo[k].switches, id)
        BY DEF WishesAreKept
      <4>3. Agrees(wish[id], settings', id)
        BY <1>1, <4>2 DEF Under, Agrees
      <4> QED
        BY <1>1, <4>1, <4>2, <4>3
    <3> QED
      BY <3>1, <3>2
  <2> QED
    <3>1. \A id \in Ids :
            /\ OnlyIfWanted(wish[id], settings, id)'
            /\ "settings" \in lost' \/ AsWished(wish[id], settings, id)'
      BY <2>1 DEF Agrees, OnlyIfWanted, AsWished, Maps
    <3>2. \A k \in 1 .. Len(todo') : todo'[k].do = "switches" =>
            \A id \in Ids : Agrees(wish[id], todo[k].switches, id)'
      <4>1. \A k \in 1 .. Len(t) : t[k].do = "switches" => \A id \in Ids : Agrees(wish'[id], t[k].switches, id)
        BY <2>1
      <4>2. lost' = lost
        OBVIOUS
      <4> QED
        <5> SUFFICES ASSUME NEW k \in 1 .. Len(todo'), todo'[k].do = "switches", NEW id \in Ids
            PROVE  Agrees(wish[id], todo[k].switches, id)'
          OBVIOUS
        <5>1. k \in 1 .. Len(t) /\ todo'[k] = t[k]
          BY <1>t
        <5>2. Agrees(wish'[id], t[k].switches, id)
          BY <4>1, <5>1
        <5> QED
          BY <4>2, <5>1, <5>2 DEF Agrees, OnlyIfWanted, AsWished, Maps
    <3> QED
      BY <3>1, <3>2, Zenon DEF WishesAreKept
<1>8. BundledAreRenewed'
  <2>a. SUFFICES ASSUME \E k \in 1 .. Len(todo') : todo'[k].do = "scan",
                        \A k \in 1 .. Len(todo') : todo'[k].do # "sync",
                        NEW n \in Names, bundle'[n] # 0
        PROVE  /\ Renews(todo, Len(todo), Bundled(n), bundle[n])'
               /\ Untouched(todo, Len(todo), Bundled(n))' => copy'[Bundled(n)].is \in {"whole", "partial"}
    BY Zenon DEF BundledAreRenewed
  <2>b. /\ \E k \in 1 .. Len(t) : t[k].do = "scan"
        /\ \A k \in 1 .. Len(t) : t[k].do # "sync"
        /\ bundle[n] # 0
    BY <1>t, <2>a
  <2>c. SUFFICES /\ Renews(t, Len(t), Bundled(n), bundle[n])
                 /\ Untouched(t, Len(t), Bundled(n)) => copy'[Bundled(n)].is \in {"whole", "partial"}
    <3>1. Renews(t, Len(t), Bundled(n), bundle[n]) => Renews(todo, Len(todo), Bundled(n), bundle[n])'
      <4>1. bundle'[n] = bundle[n]
        OBVIOUS
      <4> SUFFICES ASSUME Renews(t, Len(t), Bundled(n), bundle[n]), NEW i \in 1 .. Len(todo'), Touches(todo'[i], Bundled(n))
          PROVE  \E j \in i .. Len(todo') : todo'[j].do = "copy" /\ todo'[j].id = Bundled(n) /\ todo'[j].version = bundle[n]
        BY <4>1, Zenon DEF Renews, Bundled
      <4>2. i \in 1 .. Len(t) /\ Touches(t[i], Bundled(n))
        BY <1>t, Zenon
      <4>3. PICK j \in i .. Len(t) : t[j].do = "copy" /\ t[j].id = Bundled(n) /\ t[j].version = bundle[n]
        BY <4>2 DEF Renews
      <4>4. j \in i .. Len(todo') /\ todo'[j] = t[j]
        BY <1>t, Zenon
      <4> QED
        BY <4>3, <4>4
    <3>2. Untouched(todo, Len(todo), Bundled(n))' => Untouched(t, Len(t), Bundled(n))
      BY <1>t DEF Untouched
    <3> QED
      BY <3>1, <3>2
  <2>1. \E k \in 1 .. Len(todo) : todo[k].do = "scan"
    BY <1>1, <2>b
  <2>2. \A k \in 1 .. Len(todo) : todo[k].do # "sync"
    <3> SUFFICES ASSUME NEW k \in 1 .. Len(todo), todo[k].do = "sync" PROVE FALSE
      OBVIOUS
    <3>1. k # 1
      OBVIOUS
    <3>2. k - 1 \in 1 .. Len(t) /\ (k - 1) + 1 = k
      BY <1>1, <3>1
    <3> QED
      BY <1>1, <2>b, <3>2
  <2>3. /\ Renews(todo, Len(todo), Bundled(n), bundle[n])
        /\ Untouched(todo, Len(todo), Bundled(n)) => copy[Bundled(n)].is \in {"whole", "partial"}
    BY <2>1, <2>2, <2>b DEF BundledAreRenewed
  <2>4. Len(todo) \in 1 .. Len(todo) /\ Len(todo) - 1 = Len(t) /\ Bundled(n) \in Ids
    BY <1>1 DEF Bundled, Ids
  <2>5. /\ Renews(t, Len(t), Bundled(n), bundle[n])
        /\ Untouched(t, Len(t), Bundled(n)) /\ ~Touches(todo[1], Bundled(n)) => Untouched(todo, Len(todo), Bundled(n))
        /\ Untouched(t, Len(t), Bundled(n)) /\ Touches(todo[1], Bundled(n)) => todo[1].do = "copy"
    BY RestRenews, <1>0, <1>1, <2>3, <2>4
  <2>6. \A v : Whole(v).is = "whole"
    BY DEF Whole
  <2> QED
    BY <2>3, <2>4, <2>5, <2>6
<1>9. InOrder(todo)'
  BY <1>t, <1>2 DEF InOrder
<1>10. StartsAgain'
  BY DEF StartsAgain
<1>11. LoadedIsWanted' /\ AckedIsLoaded'
  BY <1>t, <1>2 DEF LoadedIsWanted, AckedIsLoaded
<1> QED
  BY <1>3, <1>4, <1>6, <1>7, <1>8, <1>9, <1>10, <1>11

(* An operation that ends, finished or not, leaves what was lost known.    *)
LEMMA Stopped ==
  ASSUME PluginsIInv, PluginsTyped', todo' = <<>>, ~half', loaded' = {}, session' # "up", StartsAgain',
         copy' = copy, registry' = registry, settings' = settings, torn' = torn, bundle' = bundle,
         acked' = acked, wish' = wish, cut \subseteq cut', lost \subseteq lost',
         half => /\ \A id \in Ids : Touches(todo[1], id) => id \in cut'
                 /\ todo[1].do = "store" => "registry" \in lost'
                 /\ todo[1].do = "switches" => "settings" \in lost'
  PROVE  PluginsIInv'
<1> USE DEF PluginsIInv
<1>1. Len(todo') = 0 /\ 1 .. Len(todo') = {}
  OBVIOUS
<1>2. InOrder(todo)'
  BY <1>1 DEF InOrder
<1>3. WhatIsCutIsKnown'
  BY DEF WhatIsCutIsKnown, Under
<1>4. AcksAreEarned'
  BY <1>1 DEF AcksAreEarned
<1>5. AckedIsKept'
  <2>1. \A id \in Ids : ~IsBundled(id) /\ acked[id] # 0 =>
          /\ copy[id] = Whole(acked[id])
          /\ "registry" \in lost' \/ Maps(registry, id, acked[id])
    BY DEF AckedIsKept, Under
  <2> QED
    BY <1>1, <2>1 DEF AckedIsKept, Maps
<1>6. WishesAreKept'
  <2>1. \A id \in Ids :
          /\ OnlyIfWanted(wish[id], settings, id)
          /\ "settings" \in lost' \/ AsWished(wish[id], settings, id)
    BY DEF WishesAreKept, Under
  <2> QED
    BY <1>1, <2>1 DEF WishesAreKept, OnlyIfWanted, AsWished, Maps
<1>7. BundledAreRenewed'
  BY <1>1 DEF BundledAreRenewed
<1>8. LoadedIsWanted' /\ AckedIsLoaded'
  BY DEF LoadedIsWanted, AckedIsLoaded
<1> QED
  BY <1>2, <1>3, <1>4, <1>5, <1>6, <1>7, <1>8

(* Of two plans put together, every step is a step of one of them.         *)
LEMMA PlansJoin ==
  ASSUME NEW q \in Seq(PluginSteps), NEW r \in Seq(PluginSteps), NEW p, p = q \o r
  PROVE  /\ Len(q) \in Nat /\ Len(r) \in Nat
         /\ p \in Seq(PluginSteps) /\ Len(p) = Len(q) + Len(r)
         /\ \A k \in 1 .. Len(q) : k \in 1 .. Len(p) /\ p[k] = q[k]
         /\ \A k \in 1 .. Len(r) : Len(q) + k \in 1 .. Len(p) /\ p[Len(q) + k] = r[k]
         /\ \A k \in 1 .. Len(p) : k \in 1 .. Len(q) \/ (k - Len(q) \in 1 .. Len(r) /\ p[k] = r[k - Len(q)])
<1>1. Len(q) \in Nat /\ Len(r) \in Nat
  BY LenProperties
<1>2. /\ p \in Seq(PluginSteps) /\ Len(p) = Len(q) + Len(r)
      /\ \A k \in 1 .. Len(q) + Len(r) : p[k] = IF k <= Len(q) THEN q[k] ELSE r[k - Len(q)]
  BY ConcatProperties
<1>3. \A k \in 1 .. Len(q) : k \in 1 .. Len(p) /\ p[k] = q[k]
  BY <1>1, <1>2
<1>4. ASSUME NEW k \in 1 .. Len(r) PROVE Len(q) + k \in 1 .. Len(p) /\ p[Len(q) + k] = r[k]
  <2>1. Len(q) + k \in 1 .. Len(q) + Len(r) /\ ~(Len(q) + k <= Len(q)) /\ (Len(q) + k) - Len(q) = k
    BY <1>1
  <2> QED
    BY <1>2, <2>1
<1>5. \A k \in 1 .. Len(p) : k \in 1 .. Len(q) \/ (k - Len(q) \in 1 .. Len(r) /\ p[k] = r[k - Len(q)])
  BY <1>1, <1>2
<1> QED
  BY <1>1, <1>2, <1>3, <1>4, <1>5

(* What a sync or a scan finds to do comes before the rest of the plan.    *)
LEMMA PlanGrows ==
  ASSUME PluginsIInv, PluginsTyped', todo # <<>>, todo[1].do \in {"sync", "scan"},
         NEW q \in Seq(PluginSteps), todo' = q \o Tail(todo), ~half', session' = "up",
         copy' = copy, registry' = registry, settings' = settings, torn' = torn, bundle' = bundle,
         acked' = acked, wish' = wish, cut' = cut, lost' = lost,
         \A k \in 1 .. Len(q) :
           /\ q[k].do \in {"remove", "copy", "store"}
           /\ q[k].do \in {"remove", "copy"} => IsBundled(q[k].id)
           /\ q[k].do = "store" => \A id \in Ids : ~IsBundled(id) /\ acked[id] # 0 =>
                "registry" \in lost \/ Maps(q[k].records, id, acked[id]),
         todo[1].do = "sync" => \A n \in Names : bundle[n] # 0 =>
           /\ Renews(q, Len(q), Bundled(n), bundle[n])
           /\ Untouched(q, Len(q), Bundled(n)) => copy[Bundled(n)].is \in {"whole", "partial"}
  PROVE  PluginsIInv'
<1>0. PICK t : t = Tail(todo)
  OBVIOUS
<1>1. /\ todo \in Seq(PluginSteps) /\ t \in Seq(PluginSteps) /\ Len(todo) \in Nat /\ Len(todo) >= 1 /\ Len(t) = Len(todo) - 1
      /\ \A k \in 1 .. Len(t) : t[k] = todo[k + 1]
  BY RestOfPlan, <1>0 DEF PluginsTyped, PluginsIInv
<1>2. /\ InOrder(t) /\ t # <<>>
      /\ \A k \in 1 .. Len(t) : t[k].do \in After(todo[1].do)
  BY RestIsInOrder, <1>0, <1>1 DEF PluginsIInv
<1>3. PICK p : p = q \o t
  OBVIOUS
<1>4. todo' = p
  BY <1>0, <1>3
<1>5. /\ Len(q) \in Nat /\ Len(t) \in Nat
      /\ p \in Seq(PluginSteps) /\ Len(p) = Len(q) + Len(t)
      /\ \A k \in 1 .. Len(q) : k \in 1 .. Len(p) /\ p[k] = q[k]
      /\ \A k \in 1 .. Len(t) : Len(q) + k \in 1 .. Len(p) /\ p[Len(q) + k] = t[k]
      /\ \A k \in 1 .. Len(p) : k \in 1 .. Len(q) \/ (k - Len(q) \in 1 .. Len(t) /\ p[k] = t[k - Len(q)])
  <2> HIDE <1>0, <1>3
  <2>1. q \in Seq(PluginSteps) /\ t \in Seq(PluginSteps)
    BY <1>1
  <2> QED
    BY <2>1, <1>3, PlansJoin
<1> USE DEF PluginsIInv
<1>6. /\ todo[1].do = "sync" => \A k \in 1 .. Len(t) : t[k].do \in {"scan", "load"}
      /\ todo[1].do = "scan" => \A k \in 1 .. Len(t) : t[k].do = "load"
  BY <1>2 DEF After
<1>7. \A k \in 1 .. Len(p) :
        \/ k \in 1 .. Len(q) /\ p[k] = q[k]
        \/ p[k].do \in {"scan", "load"} /\ (todo[1].do = "scan" => p[k].do = "load")
  <2> SUFFICES ASSUME NEW k \in 1 .. Len(p), k \notin 1 .. Len(q)
      PROVE  p[k].do \in {"scan", "load"} /\ (todo[1].do = "scan" => p[k].do = "load")
    BY <1>5
  <2>1. k - Len(q) \in 1 .. Len(t) /\ p[k] = t[k - Len(q)]
    BY <1>5, Zenon
  <2> HIDE <1>5
  <2>2. /\ todo[1].do = "sync" => t[k - Len(q)].do \in {"scan", "load"}
        /\ todo[1].do = "scan" => t[k - Len(q)].do = "load"
    BY <1>6, <2>1, Zenon
  <2> QED
    BY <2>1, <2>2
<1>8. ~half /\ Len(t) >= 1 /\ p # <<>>
  <2>1. ~half
    BY DEF WhatIsCutIsKnown
  <2>2. Len(t) # 0
    BY <1>1, <1>2, EmptySeq
  <2> QED
    BY <1>5, <2>1, <2>2
<1>9. InOrder(todo)'
  <2>1. p[Len(p)].do = "load"
    <3>1. t[Len(t)].do = "load"
      BY <1>2 DEF InOrder
    <3> QED
      BY <1>5, <1>8, <3>1
  <2>2. ASSUME NEW i \in 1 .. Len(p), NEW j \in 1 .. Len(p), i < j
        PROVE  p[j].do \in After(p[i].do)
    <3>1. p[j].do \in {"remove", "copy", "store", "scan", "load"}
      BY <1>7
    <3>2. CASE i \in 1 .. Len(q)
      <4>1. p[i].do \in {"remove", "copy", "store"}
        BY <1>5, <3>2
      <4> QED
        BY <3>1, <4>1 DEF After
    <3>3. CASE i \notin 1 .. Len(q)
      <4>1. /\ i - Len(q) \in 1 .. Len(t) /\ j - Len(q) \in 1 .. Len(t) /\ i - Len(q) < j - Len(q)
            /\ p[i] = t[i - Len(q)] /\ p[j] = t[j - Len(q)]
        BY <1>5, <2>2, <3>3
      <4>2. t[j - Len(q)].do \in After(t[i - Len(q)].do)
        BY <1>2, <4>1 DEF InOrder
      <4> QED
        BY <4>1, <4>2, Zenon
    <3> QED
      BY <3>2, <3>3
  <2> QED
    BY <1>4, <2>1, <2>2 DEF InOrder
<1>10. WhatIsCutIsKnown'
  <2>1. /\ \A id \in Ids : copy[id].is \in {"bare", "broken", "partial"} => id \in cut
        /\ "registry" \in torn => "registry" \in lost
        /\ "settings" \in torn => "settings" \in lost
    BY <1>8 DEF WhatIsCutIsKnown, Under
  <2> QED
    BY <2>1 DEF WhatIsCutIsKnown
<1>11. AcksAreEarned'
  <2>1. \A k \in 1 .. Len(p) : p[k].do # "ack"
    BY <1>7
  <2> QED
    BY <1>4, <2>1 DEF AcksAreEarned
<1>12. AckedIsKept'
  <2>1. ASSUME NEW id \in Ids, ~IsBundled(id), acked[id] # 0
        PROVE  /\ copy[id] = Whole(acked[id])
               /\ "registry" \in lost \/ Maps(registry, id, acked[id])
               /\ \A k \in 1 .. Len(p) :
                    /\ ~Touches(p[k], id)
                    /\ p[k].do = "store" => "registry" \in lost \/ Maps(p[k].records, id, acked[id])
    <3>1. /\ copy[id] = Whole(acked[id])
          /\ "registry" \in lost \/ Maps(registry, id, acked[id])
      BY <1>8, <2>1 DEF AckedIsKept, Under
    <3>2. \A k \in 1 .. Len(p) :
                    /\ ~Touches(p[k], id)
                    /\ p[k].do = "store" => "registry" \in lost \/ Maps(p[k].records, id, acked[id])
      BY <1>7, <2>1 DEF Touches
    <3> QED
      BY <3>1, <3>2
  <2>2. \A id \in Ids : ~IsBundled(id) /\ acked'[id] # 0 =>
          copy'[id] = Whole(acked'[id]) /\ ("registry" \in lost' \/ Maps(registry, id, acked[id])')
    BY <2>1 DEF Maps
  <2>3. \A k \in 1 .. Len(todo') : \A id \in Ids : ~IsBundled(id) /\ acked'[id] # 0 =>
          /\ ~Touches(todo'[k], id)
          /\ todo'[k].do = "store" => "registry" \in lost' \/ Maps(todo[k].records, id, acked[id])'
    <3> SUFFICES ASSUME NEW k \in 1 .. Len(todo'), NEW id \in Ids, ~IsBundled(id), acked'[id] # 0
        PROVE  /\ ~Touches(todo'[k], id)
               /\ todo'[k].do = "store" => "registry" \in lost' \/ Maps(todo[k].records, id, acked[id])'
      OBVIOUS
    <3>1. k \in 1 .. Len(p) /\ todo'[k] = p[k] /\ acked'[id] = acked[id] /\ lost' = lost
      BY <1>4
    <3>2. /\ ~Touches(p[k], id)
          /\ p[k].do = "store" => "registry" \in lost \/ Maps(p[k].records, id, acked[id])
      BY <2>1, <3>1
    <3> QED
      BY <3>1, <3>2 DEF Maps
  <2> QED
    BY <2>2, <2>3, Zenon DEF AckedIsKept
<1>13. WishesAreKept'
  <2>1. \A id \in Ids :
          /\ OnlyIfWanted(wish[id], settings, id)
          /\ "settings" \in lost \/ AsWished(wish[id], settings, id)
    BY <1>8 DEF WishesAreKept, Under
  <2>2. \A k \in 1 .. Len(p) : p[k].do # "switches"
    BY <1>7
  <2> QED
    BY <1>4, <2>1, <2>2 DEF WishesAreKept, OnlyIfWanted, AsWished, Maps
<1>14. BundledAreRenewed'
  <2>a. SUFFICES ASSUME \E k \in 1 .. Len(todo') : todo'[k].do = "scan",
                        NEW n \in Names, bundle'[n] # 0
        PROVE  /\ Renews(todo, Len(todo), Bundled(n), bundle[n])'
               /\ Untouched(todo, Len(todo), Bundled(n))' => copy'[Bundled(n)].is \in {"whole", "partial"}
    BY Zenon DEF BundledAreRenewed
  <2>1. bundle[n] # 0 /\ bundle'[n] = bundle[n] /\ Len(todo') = Len(p)
    BY <1>4, <2>a
  <2>2. todo[1].do = "sync"
    <3>1. PICK k \in 1 .. Len(p) : p[k].do = "scan"
      BY <1>4, <2>a, Zenon
    <3> QED
      BY <1>7, <3>1
  <2>3. /\ Renews(q, Len(q), Bundled(n), bundle[n])
        /\ Untouched(q, Len(q), Bundled(n)) => copy[Bundled(n)].is \in {"whole", "partial"}
    BY <2>1, <2>2
  <2>4. ASSUME NEW i \in 1 .. Len(todo'), Touches(todo'[i], Bundled(n))
        PROVE  \E j \in i .. Len(todo') : todo'[j].do = "copy" /\ todo'[j].id = Bundled(n) /\ todo'[j].version = bundle[n]
    <3>1. i \in 1 .. Len(p) /\ Touches(p[i], Bundled(n))
      BY <1>4, <2>4, Zenon
    <3>2. i \in 1 .. Len(q) /\ Touches(q[i], Bundled(n))
      BY <1>7, <3>1 DEF Touches
    <3>3. PICK j \in i .. Len(q) : q[j].do = "copy" /\ q[j].id = Bundled(n) /\ q[j].version = bundle[n]
      BY <2>3, <3>2 DEF Renews
    <3>4. j \in i .. Len(p) /\ p[j] = q[j]
      BY <1>5, <3>2, <3>3
    <3>5. j \in i .. Len(todo') /\ todo'[j] = q[j]
      BY <1>4, <3>4, Zenon
    <3> QED
      BY <3>3, <3>5
  <2>5. ASSUME \A i \in 1 .. Len(todo') : ~Touches(todo'[i], Bundled(n))
        PROVE  Untouched(q, Len(q), Bundled(n))
    <3> SUFFICES ASSUME NEW i \in 1 .. Len(q) PROVE ~Touches(q[i], Bundled(n))
      BY DEF Untouched
    <3>1. i \in 1 .. Len(p) /\ p[i] = q[i]
      BY <1>5
    <3>2. i \in 1 .. Len(todo') /\ todo'[i] = q[i]
      BY <1>4, <3>1, Zenon
    <3> QED
      BY <2>5, <3>2
  <2>6. Renews(todo, Len(todo), Bundled(n), bundle[n])'
    BY <2>1, <2>4, Zenon DEF Renews, Bundled
  <2>7. Untouched(todo, Len(todo), Bundled(n))' => Untouched(q, Len(q), Bundled(n))
    BY <2>5, Zenon DEF Untouched, Bundled
  <2> QED
    BY <2>3, <2>6, <2>7
<1>15. StartsAgain'
  BY DEF StartsAgain
<1>16. LoadedIsWanted' /\ AckedIsLoaded'
  BY <1>4, <1>8 DEF LoadedIsWanted, AckedIsLoaded
<1> QED
  BY <1>9, <1>10, <1>11, <1>12, <1>13, <1>14, <1>15, <1>16

(* A finite set as a sequence: each element is somewhere in it.            *)
LEMMA SetInOrder ==
  ASSUME NEW S, IsFiniteSet(S)
  PROVE  /\ SetToSeq(S) \in Seq(S) /\ Len(SetToSeq(S)) = Cardinality(S) /\ Cardinality(S) \in Nat
         /\ \A x \in S : \E k \in 1 .. Len(SetToSeq(S)) : SetToSeq(S)[k] = x
<1>1. Cardinality(S) \in Nat /\ ExistsBijection(1 .. Cardinality(S), S)
  BY FS_CardinalityType
<1>2. PICK g \in Bijection(1 .. Cardinality(S), S) : TRUE
  BY <1>1 DEF ExistsBijection
<1>3. g \in [1 .. Cardinality(S) -> S] /\ IsInjective(g)
  BY <1>2 DEF Bijection, Injection, IsInjective
<1>4. SetToSeq(S) \in [1 .. Cardinality(S) -> S] /\ IsInjective(SetToSeq(S))
  BY <1>3 DEF SetToSeq
<1>5. SetToSeq(S) \in Seq(S) /\ Len(SetToSeq(S)) = Cardinality(S)
  BY <1>1, <1>4
<1>6. SetToSeq(S) \in Injection(1 .. Cardinality(S), S)
  BY <1>4 DEF Injection, IsInjective
<1>7. IsFiniteSet(1 .. Cardinality(S)) /\ Cardinality(1 .. Cardinality(S)) = Cardinality(S)
  BY <1>1, FS_Interval
<1>8. SetToSeq(S) \in Surjection(1 .. Cardinality(S), S)
  BY <1>6, <1>7, FS_Injection
<1> QED
  BY <1>1, <1>5, <1>8 DEF Surjection

LEMMA IdsAreFinite == IsFiniteSet(Ids)
<1>1. IsFiniteSet({"bundled", "external"})
  <2>1. IsFiniteSet({})
    BY FS_EmptySet
  <2>2. IsFiniteSet({} \cup {"bundled"})
    BY <2>1, FS_AddElement
  <2>3. IsFiniteSet(({} \cup {"bundled"}) \cup {"external"})
    BY <2>2, FS_AddElement, Zenon
  <2>4. ({} \cup {"bundled"}) \cup {"external"} = {"bundled", "external"}
    OBVIOUS
  <2> QED
    BY <2>3, <2>4, Zenon
<1> QED
  BY <1>1, FS_Product, PluginsAssumption DEF Ids

LEMMA IdsOfNames ==
  /\ \A n \in Names : /\ Bundled(n) \in Ids /\ IsBundled(Bundled(n)) /\ Bundled(n)[1] = n
                      /\ External(n) \in Ids /\ ~IsBundled(External(n)) /\ External(n)[1] = n
  /\ \A id \in Ids : /\ id[1] \in Names
                     /\ IsBundled(id) => id = Bundled(id[1])
                     /\ ~IsBundled(id) => id = External(id[1])
  BY DEF Ids, Bundled, External, IsBundled

(* A sync copies again every plugin of claw that is not in order.          *)
LEMMA RenewalsRenew ==
  ASSUME NEW p, p = Renewals, PluginsTyped
  PROVE  /\ p \in Seq(PluginSteps)
         /\ \A k \in 1 .. Len(p) : \E n \in Behind : p[k] \in {Removal(Bundled(n)), Copying(Bundled(n), bundle[n])}
         /\ \A n \in Names : \A i \in 1 .. Len(p) : Touches(p[i], Bundled(n)) =>
              \E j \in i .. Len(p) : p[j] = Copying(Bundled(n), bundle[n])
         /\ \A n \in Behind : \E k \in 1 .. Len(p) : p[k] = Copying(Bundled(n), bundle[n])
<1>0. PICK order : order = SetToSeq(Behind)
  OBVIOUS
<1>1. PICK c \in Nat : c = Len(order)
  BY <1>0, SetInOrder, FS_Subset, PluginsAssumption DEF Behind
<1>2. /\ \A k \in 1 .. c : order[k] \in Behind
      /\ \A n \in Behind : \E k \in 1 .. c : order[k] = n
  <2>1. IsFiniteSet(Behind)
    BY FS_Subset, PluginsAssumption DEF Behind
  <2> QED
    BY <1>0, <1>1, <2>1, SetInOrder, ElementOfSeq
<1>3. p = [k \in 1 .. 2 * c |-> Renewal(order[(k + 1) \div 2])[IF k % 2 = 1 THEN 1 ELSE 2]]
  BY <1>0, <1>1, Zenon DEF Renewals
<1>4. ASSUME NEW k \in 1 .. c
      PROVE  /\ 2 * k \in 1 .. 2 * c /\ 2 * k - 1 \in 1 .. 2 * c
             /\ p[2 * k] = Copying(Bundled(order[k]), bundle[order[k]])
             /\ p[2 * k - 1] = Removal(Bundled(order[k]))
  <2>1. /\ 2 * k \in 1 .. 2 * c /\ 2 * k - 1 \in 1 .. 2 * c
        /\ (2 * k + 1) \div 2 = k /\ ((2 * k - 1) + 1) \div 2 = k
        /\ (2 * k) % 2 # 1 /\ (2 * k - 1) % 2 = 1
    OBVIOUS
  <2>2. p[2 * k] = Renewal(order[k])[2]
    BY <1>3, <2>1
  <2>3. p[2 * k - 1] = Renewal(order[k])[1]
    BY <1>3, <2>1
  <2> QED
    BY <2>1, <2>2, <2>3 DEF Renewal
<1>5. ASSUME NEW i \in 1 .. 2 * c
      PROVE  \E k \in 1 .. c : i = 2 * k \/ i = 2 * k - 1
  <2>1. (i + 1) \div 2 \in 1 .. c /\ (i = 2 * ((i + 1) \div 2) \/ i = 2 * ((i + 1) \div 2) - 1)
    OBVIOUS
  <2> QED
    BY <2>1
<1>6. \A n \in Behind : n \in Names /\ bundle[n] \in Versions
  BY DEF Behind, NeedsSync, PluginsTyped, Versioned
<1>7. \A i \in 1 .. 2 * c : \E n \in Behind : p[i] \in {Removal(Bundled(n)), Copying(Bundled(n), bundle[n])}
  <2> SUFFICES ASSUME NEW i \in 1 .. 2 * c
      PROVE  \E n \in Behind : p[i] \in {Removal(Bundled(n)), Copying(Bundled(n), bundle[n])}
    OBVIOUS
  <2>1. PICK k \in 1 .. c : i = 2 * k \/ i = 2 * k - 1
    BY <1>5
  <2>2. order[k] \in Behind
    BY <1>2
  <2>3. p[i] = Copying(Bundled(order[k]), bundle[order[k]]) \/ p[i] = Removal(Bundled(order[k]))
    BY <1>4, <2>1
  <2> QED
    BY <2>2, <2>3, Zenon
<1>8. p \in Seq(PluginSteps) /\ Len(p) = 2 * c
  <2>1. \A i \in 1 .. 2 * c : p[i] \in PluginSteps
    BY <1>6, <1>7, IdsOfNames, StepsAreMade
  <2>2. p \in [1 .. 2 * c -> PluginSteps]
    BY <1>3, <2>1
  <2>3. 2 * c \in Nat
    OBVIOUS
  <2> QED
    BY <2>2, <2>3
<1>9. ASSUME NEW n \in Names, NEW i \in 1 .. Len(p), Touches(p[i], Bundled(n))
      PROVE  \E j \in i .. Len(p) : p[j] = Copying(Bundled(n), bundle[n])
  <2>1. PICK k \in 1 .. c : i = 2 * k \/ i = 2 * k - 1
    BY <1>5, <1>8
  <2>2. p[i].id = Bundled(order[k])
    <3>1. p[i] = Copying(Bundled(order[k]), bundle[order[k]]) \/ p[i] = Removal(Bundled(order[k]))
      BY <1>4, <2>1
    <3> QED
      BY <3>1 DEF Copying, Removal
  <2>3. order[k] = n
    BY <1>9, <2>2 DEF Touches, Bundled
  <2>4. 2 * k \in i .. Len(p) /\ p[2 * k] = Copying(Bundled(n), bundle[n])
    BY <1>4, <1>8, <2>1, <2>3
  <2> QED
    BY <2>4
<1>10. ASSUME NEW n \in Behind
       PROVE  \E k \in 1 .. Len(p) : p[k] = Copying(Bundled(n), bundle[n])
  <2>1. PICK k \in 1 .. c : order[k] = n
    BY <1>2
  <2> QED
    BY <1>4, <1>8, <2>1
<1> QED
  BY <1>7, <1>8, <1>9, <1>10

(* What a sync has to do.                                                  *)
LEMMA SyncPlanned ==
  ASSUME PluginsIInv, ~half, NEW q, q = SyncPlan
  PROVE  /\ q \in Seq(PluginSteps)
         /\ \A k \in 1 .. Len(q) :
              /\ q[k].do \in {"remove", "copy", "store"}
              /\ q[k].do \in {"remove", "copy"} => IsBundled(q[k].id)
              /\ q[k].do = "store" => \A id \in Ids : ~IsBundled(id) /\ acked[id] # 0 =>
                   "registry" \in lost \/ Maps(q[k].records, id, acked[id])
         /\ \A n \in Names : bundle[n] # 0 =>
              /\ Renews(q, Len(q), Bundled(n), bundle[n])
              /\ Untouched(q, Len(q), Bundled(n)) => copy[Bundled(n)].is \in {"whole", "partial"}
<1>0. PluginsTyped /\ AckedIsKept
  BY DEF PluginsIInv
<1>1. PICK a : a = Renewals
  OBVIOUS
<1>2. PICK b : b = SetToSeq({Removal(id) : id \in StaleBundled})
  OBVIOUS
<1>3. PICK c : c = IF Behind = {} /\ StaleBundled = {} THEN <<>> ELSE <<Store(Renewed)>>
  OBVIOUS
<1>4. q = (a \o b) \o c
  BY <1>1, <1>2, <1>3, Zenon DEF SyncPlan
<1>5. /\ a \in Seq(PluginSteps)
      /\ \A k \in 1 .. Len(a) : \E n \in Behind : a[k] \in {Removal(Bundled(n)), Copying(Bundled(n), bundle[n])}
      /\ \A n \in Names : \A i \in 1 .. Len(a) : Touches(a[i], Bundled(n)) =>
           \E j \in i .. Len(a) : a[j] = Copying(Bundled(n), bundle[n])
      /\ \A n \in Behind : \E k \in 1 .. Len(a) : a[k] = Copying(Bundled(n), bundle[n])
  <2> HIDE <1>4
  <2> QED
    BY <1>0, <1>1, RenewalsRenew
<1>r. /\ DOMAIN registry \subseteq Ids /\ \A id \in DOMAIN registry : registry[id] \in Versions
      /\ \A n \in Names : bundle[n] = 0 \/ bundle[n] \in Versions
  BY <1>0 DEF PluginsTyped, Records, Versioned
<1>6. /\ b \in Seq(PluginSteps)
      /\ \A k \in 1 .. Len(b) : \E id \in StaleBundled : b[k] = Removal(id)
  <2>1. StaleBundled \subseteq Ids
    BY <1>r DEF StaleBundled
  <2>2. IsFiniteSet(StaleBundled)
    BY <2>1, IdsAreFinite, FS_Subset
  <2>3. IsFiniteSet({Removal(id) : id \in StaleBundled})
    <3>1. [id \in StaleBundled |-> Removal(id)] \in Surjection(StaleBundled, {Removal(id) : id \in StaleBundled})
      BY DEF Surjection
    <3> QED
      BY <2>2, <3>1, FS_Surjection
  <2>4. b \in Seq({Removal(id) : id \in StaleBundled})
    BY <1>2, <2>3, SetInOrder
  <2>5. \A k \in 1 .. Len(b) : b[k] \in {Removal(id) : id \in StaleBundled}
    BY <2>4, ElementOfSeq
  <2>6. {Removal(id) : id \in StaleBundled} \subseteq PluginSteps
    BY <2>1, StepsAreMade
  <2>7. b \in Seq(PluginSteps)
    BY <2>4, <2>6
  <2> QED
    BY <2>5, <2>7
<1>7. Renewed \in Records
  <2>1. DOMAIN Renewed \subseteq Ids
    BY <1>r, IdsOfNames DEF Renewed, Behind
  <2>2. \A id \in DOMAIN Renewed : Renewed[id] \in Versions
    <3> SUFFICES ASSUME NEW id \in DOMAIN Renewed PROVE Renewed[id] \in Versions
      OBVIOUS
    <3>1. /\ Renewed[id] = IF IsBundled(id) THEN bundle[id[1]] ELSE registry[id]
          /\ id \in DOMAIN registry \ StaleBundled \/ \E n \in Behind : id = Bundled(n)
      BY DEF Renewed
    <3>2. CASE id \in DOMAIN registry \ StaleBundled
      <4>1. IsBundled(id) => bundle[id[1]] # 0
        BY <3>2 DEF StaleBundled
      <4>2. id[1] \in Names
        BY <1>r, <3>2, IdsOfNames
      <4> QED
        BY <1>r, <3>1, <3>2, <4>1, <4>2
    <3>3. ASSUME NEW n \in Behind, id = Bundled(n) PROVE Renewed[id] \in Versions
      <4>1. n \in Names /\ bundle[n] # 0
        BY DEF Behind, NeedsSync
      <4> QED
        BY <1>r, <3>1, <3>3, <4>1, IdsOfNames
    <3> QED
      BY <3>1, <3>2, <3>3
  <2>3. Renewed \in [DOMAIN Renewed -> Versions]
    BY <2>2 DEF Renewed
  <2> QED
    BY <2>1, <2>3 DEF Records
<1>8. /\ c \in Seq(PluginSteps)
      /\ \A k \in 1 .. Len(c) : c[k] = Store(Renewed)
  <2>1. Store(Renewed) \in PluginSteps
    BY <1>7, StepsAreMade
  <2>2. CASE c = <<>>
    BY <2>2
  <2>3. CASE c = <<Store(Renewed)>>
    BY <2>1, <2>3
  <2> QED
    BY <1>3, <2>2, <2>3
<1>9. PICK d : d = a \o b
  OBVIOUS
<1>10. /\ Len(a) \in Nat /\ d \in Seq(PluginSteps) /\ Len(d) = Len(a) + Len(b) /\ Len(b) \in Nat
       /\ \A k \in 1 .. Len(a) : k \in 1 .. Len(d) /\ d[k] = a[k]
       /\ \A k \in 1 .. Len(d) : k \in 1 .. Len(a) \/ (k - Len(a) \in 1 .. Len(b) /\ d[k] = b[k - Len(a)])
  <2> HIDE <1>1, <1>2, <1>3, <1>4
  <2>1. a \in Seq(PluginSteps) /\ b \in Seq(PluginSteps)
    BY <1>5, <1>6
  <2> QED
    BY <1>9, <2>1, PlansJoin
<1>11. /\ q \in Seq(PluginSteps) /\ Len(q) = Len(d) + Len(c) /\ Len(c) \in Nat
       /\ \A k \in 1 .. Len(d) : k \in 1 .. Len(q) /\ q[k] = d[k]
       /\ \A k \in 1 .. Len(q) : k \in 1 .. Len(d) \/ (k - Len(d) \in 1 .. Len(c) /\ q[k] = c[k - Len(d)])
  <2>1. q = d \o c
    BY <1>4, <1>9
  <2> HIDE <1>1, <1>2, <1>3, <1>4, <1>9
  <2>2. d \in Seq(PluginSteps) /\ c \in Seq(PluginSteps)
    BY <1>8, <1>10
  <2> QED
    BY <2>1, <2>2, PlansJoin
<1>12. \A k \in 1 .. Len(a) : k \in 1 .. Len(q) /\ q[k] = a[k]
  BY <1>10, <1>11
<1>13. \A k \in 1 .. Len(q) :
         \/ k \in 1 .. Len(a) /\ q[k] = a[k]
         \/ k > Len(a) /\ \E id \in StaleBundled : q[k] = Removal(id)
         \/ k > Len(a) /\ q[k] = Store(Renewed)
  <2> SUFFICES ASSUME NEW k \in 1 .. Len(q), k \notin 1 .. Len(a)
      PROVE  k > Len(a) /\ ((\E id \in StaleBundled : q[k] = Removal(id)) \/ q[k] = Store(Renewed))
    BY <1>12
  <2>0. k > Len(a)
    BY <1>10, <1>11
  <2>1. CASE k \in 1 .. Len(d)
    <3>1. k - Len(a) \in 1 .. Len(b) /\ q[k] = b[k - Len(a)]
      BY <1>10, <1>11, <2>1
    <3> QED
      BY <1>6, <2>0, <3>1
  <2>2. CASE k \notin 1 .. Len(d)
    <3>1. k - Len(d) \in 1 .. Len(c) /\ q[k] = c[k - Len(d)]
      BY <1>11, <2>2
    <3> QED
      BY <1>8, <2>0, <3>1
  <2> QED
    BY <2>1, <2>2
<1>14. /\ \A id : Removal(id).do = "remove" /\ Removal(id).id = id
       /\ \A id, v : Copying(id, v).do = "copy" /\ Copying(id, v).id = id /\ Copying(id, v).version = v
       /\ \A r : Store(r).do = "store" /\ Store(r).records = r
  BY DEF Removal, Copying, Store
<1>15. \A id \in Ids : ~IsBundled(id) /\ acked[id] # 0 => "registry" \in lost \/ Maps(Renewed, id, acked[id])
  <2> SUFFICES ASSUME NEW id \in Ids, ~IsBundled(id), acked[id] # 0, "registry" \notin lost
      PROVE  Maps(Renewed, id, acked[id])
    OBVIOUS
  <2>1. Maps(registry, id, acked[id])
    BY <1>0 DEF AckedIsKept, Under
  <2>2. id \notin StaleBundled
    BY DEF StaleBundled
  <2> QED
    BY <2>1, <2>2 DEF Maps, Renewed
<1>16. ASSUME NEW k \in 1 .. Len(q)
       PROVE  /\ q[k].do \in {"remove", "copy", "store"}
              /\ q[k].do \in {"remove", "copy"} => IsBundled(q[k].id)
              /\ q[k].do = "store" => \A id \in Ids : ~IsBundled(id) /\ acked[id] # 0 =>
                   "registry" \in lost \/ Maps(q[k].records, id, acked[id])
  <2>1. CASE k \in 1 .. Len(a) /\ q[k] = a[k]
    <3>1. PICK n \in Behind : a[k] \in {Removal(Bundled(n)), Copying(Bundled(n), bundle[n])}
      BY <1>5, <2>1
    <3> QED
      BY <1>14, <2>1, <3>1, IdsOfNames DEF Behind
  <2>2. ASSUME NEW id \in StaleBundled, q[k] = Removal(id)
        PROVE  q[k].do = "remove" /\ IsBundled(q[k].id)
    BY <1>14, <2>2 DEF StaleBundled
  <2>3. CASE q[k] = Store(Renewed)
    BY <1>14, <1>15, <2>3
  <2> QED
    BY <1>13, <2>1, <2>2, <2>3
<1>17. ASSUME NEW n \in Names, bundle[n] # 0
       PROVE  /\ Renews(q, Len(q), Bundled(n), bundle[n])
              /\ Untouched(q, Len(q), Bundled(n)) => copy[Bundled(n)].is \in {"whole", "partial"}
  <2>1. ASSUME NEW i \in 1 .. Len(q), Touches(q[i], Bundled(n))
        PROVE  \E j \in i .. Len(q) : q[j].do = "copy" /\ q[j].id = Bundled(n) /\ q[j].version = bundle[n]
    <3>1. \A id \in StaleBundled : q[i] # Removal(id)
      <4> SUFFICES ASSUME NEW id \in StaleBundled, q[i] = Removal(id) PROVE FALSE
        OBVIOUS
      <4>1. id = Bundled(n)
        BY <1>14, <2>1 DEF Touches
      <4> QED
        BY <1>17, <4>1, IdsOfNames DEF StaleBundled
    <3>2. q[i] # Store(Renewed)
      BY <1>14, <2>1 DEF Touches
    <3>3. i \in 1 .. Len(a) /\ q[i] = a[i]
      BY <1>13, <3>1, <3>2
    <3>4. PICK j \in i .. Len(a) : a[j] = Copying(Bundled(n), bundle[n])
      BY <1>5, <2>1, <3>3
    <3>5. j \in i .. Len(q) /\ q[j] = a[j]
      BY <1>10, <1>12, <3>3, <3>4
    <3> QED
      BY <1>14, <3>4, <3>5
  <2>2. ASSUME Untouched(q, Len(q), Bundled(n)) PROVE copy[Bundled(n)].is \in {"whole", "partial"}
    <3>1. n \notin Behind
      <4> SUFFICES ASSUME n \in Behind PROVE FALSE
        OBVIOUS
      <4>1. PICK k \in 1 .. Len(a) : a[k] = Copying(Bundled(n), bundle[n])
        BY <1>5
      <4>2. Touches(q[k], Bundled(n)) /\ k \in 1 .. Len(q)
        BY <1>12, <1>14, <4>1 DEF Touches
      <4> QED
        BY <2>2, <4>2 DEF Untouched
    <3> QED
      BY <1>17, <3>1 DEF Behind, NeedsSync
  <2> QED
    BY <2>1, <2>2 DEF Renews
<1> QED
  BY <1>11, <1>16, <1>17

(* Every way to end leaves nothing to do and nothing loaded.               *)
LEMMA StoppedIsTyped ==
  ASSUME PluginsTyped, todo' = <<>>, half' = FALSE, loaded' = {}, session' \in {"down", "refused"},
         copy' = copy, registry' = registry, settings' = settings, torn' = torn, bundle' = bundle,
         source' = source, acked' = acked, wish' = wish
  PROVE  PluginsTyped'
<1>1. todo' \in Seq(PluginSteps)
  OBVIOUS
<1>2. half' \in BOOLEAN
  OBVIOUS
<1>3. loaded' \subseteq [id : Ids, from : Ids]
  OBVIOUS
<1> QED
  BY <1>1, <1>2, <1>3, Zenon DEF PluginsTyped

(* The three steps of a reload: each ends the session or goes on.          *)
LEMMA SyncKeeps ==
  ASSUME PluginsIInv, SyncBundledPlugins
  PROVE  PluginsIInv'
<1> USE DEF PluginsIInv
<1>1. /\ todo # <<>> /\ todo[1].do = "sync" /\ todo \in Seq(PluginSteps) /\ Tail(todo) \in Seq(PluginSteps)
      /\ session = "up" /\ ~half
  <2>1. todo # <<>> /\ Head(todo).do = "sync"
    BY DEF SyncBundledPlugins, Does
  <2>2. todo \in Seq(PluginSteps) /\ session = "up"
    BY <2>1 DEF PluginsTyped
  <2>3. todo[1].do = "sync" /\ Tail(todo) \in Seq(PluginSteps)
    BY <2>1, <2>2, RestOfPlan
  <2> QED
    BY <2>1, <2>2, <2>3 DEF WhatIsCutIsKnown
<1>2. /\ copy' = copy /\ registry' = registry /\ settings' = settings /\ torn' = torn /\ bundle' = bundle
      /\ source' = source /\ acked' = acked /\ wish' = wish /\ cut' = cut /\ lost' = lost
  BY DEF SyncBundledPlugins, disk, history
<1>3. CASE torn # {} /\ Refused
  <2>1. todo' = <<>> /\ half' = FALSE /\ loaded' = {} /\ session' = "refused"
    BY <1>3 DEF Refused
  <2>2. PluginsTyped'
    BY <1>2, <2>1, StoppedIsTyped
  <2>3. torn \subseteq {"registry", "settings"}
    BY DEF PluginsTyped
  <2>4. torn \subseteq lost
    BY <1>1, <2>3 DEF WhatIsCutIsKnown, Under
  <2>5. StartsAgain'
    BY <1>2, <1>3, <2>4 DEF StartsAgain
  <2> QED
    BY <1>1, <1>2, <2>1, <2>2, <2>5, Stopped
<1>4. CASE torn = {} /\ Goes(SyncPlan \o Tail(todo)) /\ UNCHANGED <<session, loaded>>
  <2>1. PICK q : q = SyncPlan
    OBVIOUS
  <2>2. todo' = q \o Tail(todo) /\ half' = FALSE /\ session' = "up" /\ loaded' = loaded
    BY <1>1, <1>4, <2>1 DEF Goes
  <2>3. /\ q \in Seq(PluginSteps)
        /\ \A k \in 1 .. Len(q) :
             /\ q[k].do \in {"remove", "copy", "store"}
             /\ q[k].do \in {"remove", "copy"} => IsBundled(q[k].id)
             /\ q[k].do = "store" => \A id \in Ids : ~IsBundled(id) /\ acked[id] # 0 =>
                  "registry" \in lost \/ Maps(q[k].records, id, acked[id])
        /\ \A n \in Names : bundle[n] # 0 =>
             /\ Renews(q, Len(q), Bundled(n), bundle[n])
             /\ Untouched(q, Len(q), Bundled(n)) => copy[Bundled(n)].is \in {"whole", "partial"}
    <3> HIDE <2>2 DEF PluginsIInv
    <3> QED
      BY <1>1, <2>1, SyncPlanned
  <2>4. q \o Tail(todo) \in Seq(PluginSteps)
    BY <1>1, <2>3, ConcatProperties
  <2>5. PluginsTyped'
    BY <1>1, <1>2, <2>2, <2>4 DEF PluginsTyped
  <2>6. PluginsIInv
    OBVIOUS
  <2> HIDE <2>1 DEF PluginsIInv
  <2> QED
    BY <1>1, <1>2, <2>2, <2>3, <2>5, <2>6, PlanGrows
<1> QED
  BY <1>3, <1>4 DEF SyncBundledPlugins

LEMMA ScanKeeps ==
  ASSUME PluginsIInv, DiscoverInstalledPlugins
  PROVE  PluginsIInv'
<1> USE DEF PluginsIInv
<1>1. /\ todo # <<>> /\ todo[1].do = "scan" /\ todo \in Seq(PluginSteps) /\ Tail(todo) \in Seq(PluginSteps)
      /\ session = "up" /\ ~half /\ 1 \in 1 .. Len(todo) /\ \A k \in 1 .. Len(todo) : todo[k].do \in {"scan", "load"}
  <2>1. todo # <<>> /\ Head(todo).do = "scan"
    BY DEF DiscoverInstalledPlugins, Does
  <2>2. todo \in Seq(PluginSteps) /\ session = "up"
    BY <2>1 DEF PluginsTyped
  <2>3. todo[1].do = "scan" /\ Tail(todo) \in Seq(PluginSteps) /\ Len(todo) \in Nat /\ Len(todo) >= 1
    BY <2>1, <2>2, RestOfPlan
  <2>4. \A k \in 1 .. Len(todo) : 1 < k => todo[k].do \in After(todo[1].do)
    BY <2>3 DEF InOrder
  <2>5. \A k \in 1 .. Len(todo) : todo[k].do \in {"scan", "load"}
    BY <2>3, <2>4 DEF After
  <2> QED
    BY <2>1, <2>2, <2>3, <2>5 DEF WhatIsCutIsKnown
<1>2. /\ copy' = copy /\ registry' = registry /\ settings' = settings /\ torn' = torn /\ bundle' = bundle
      /\ source' = source /\ acked' = acked /\ wish' = wish /\ cut' = cut /\ lost' = lost
  BY DEF DiscoverInstalledPlugins, disk, history
<1>3. PICK q : q = IF StaleRecords = {} THEN <<>> ELSE <<Store(Without(registry, StaleRecords))>>
  OBVIOUS
<1>4. \/ (\E d \in Ids : copy[d] = Broken) /\ Refused
      \/ Goes(q \o Tail(todo)) /\ UNCHANGED <<session, loaded>>
  BY <1>3, Zenon DEF DiscoverInstalledPlugins
<1>5. ASSUME NEW d \in Ids, copy[d] = Broken, Refused
      PROVE  PluginsIInv'
  <2>1. todo' = <<>> /\ half' = FALSE /\ loaded' = {} /\ session' = "refused"
    BY <1>5 DEF Refused
  <2>2. PluginsTyped'
    BY <1>2, <2>1, StoppedIsTyped
  <2>3. d \in cut /\ copy[d].is = "broken"
    BY <1>1, <1>5 DEF WhatIsCutIsKnown, Broken
  <2>4. ASSUME IsBundled(d) PROVE bundle[d[1]] = 0
    <3> SUFFICES ASSUME bundle[d[1]] # 0 PROVE FALSE
      OBVIOUS
    <3>1. d[1] \in Names /\ d = Bundled(d[1])
      BY <2>4, IdsOfNames
    <3>2. Untouched(todo, Len(todo), Bundled(d[1]))
      BY <1>1 DEF Untouched, Touches
    <3>3. copy[Bundled(d[1])].is \in {"whole", "partial"}
      BY <1>1, <3>1, <3>2 DEF BundledAreRenewed
    <3> QED
      BY <2>3, <3>1, <3>3
  <2>5. StartsAgain'
    BY <1>2, <1>5, <2>3, <2>4 DEF StartsAgain
  <2> QED
    BY <1>1, <1>2, <2>1, <2>2, <2>5, Stopped
<1>6. CASE Goes(q \o Tail(todo)) /\ UNCHANGED <<session, loaded>>
  <2>2. todo' = q \o Tail(todo) /\ half' = FALSE /\ session' = "up" /\ loaded' = loaded
    BY <1>1, <1>6 DEF Goes
  <2>3. PICK r : r = Without(registry, StaleRecords)
    OBVIOUS
  <2>4. r = [id \in DOMAIN registry \ StaleRecords |-> registry[id]]
    BY <2>3 DEF Without, Restrict, StaleRecords
  <2>5. r \in Records
    <3>1. PICK ids \in SUBSET Ids : registry \in [ids -> Versions]
      BY DEF PluginsTyped, Records
    <3>2. r \in [DOMAIN registry \ StaleRecords -> Versions] /\ DOMAIN registry \ StaleRecords \in SUBSET Ids
      BY <2>4, <3>1
    <3> QED
      BY <3>2 DEF Records
  <2>6. \A id \in Ids : ~IsBundled(id) /\ acked[id] # 0 => "registry" \in lost \/ Maps(r, id, acked[id])
    <3> SUFFICES ASSUME NEW id \in Ids, ~IsBundled(id), acked[id] # 0, "registry" \notin lost
        PROVE  Maps(r, id, acked[id])
      OBVIOUS
    <3>1. Maps(registry, id, acked[id]) /\ copy[id] = Whole(acked[id])
      BY <1>1 DEF AckedIsKept, Under
    <3>2. HasManifest(id)
      BY <3>1 DEF HasManifest, Whole
    <3>3. id \notin StaleRecords
      BY <3>2 DEF StaleRecords
    <3> QED
      BY <2>4, <3>1, <3>3 DEF Maps
  <2>7. /\ q \in Seq(PluginSteps)
        /\ \A k \in 1 .. Len(q) : q[k] = Store(r)
    <3>1. Store(r) \in PluginSteps
      BY <2>5, StepsAreMade
    <3>2. CASE q = <<>>
      BY <3>2
    <3>3. CASE q = <<Store(r)>>
      BY <3>1, <3>3
    <3> QED
      BY <1>3, <2>3, <3>2, <3>3
  <2>8. \A k \in 1 .. Len(q) :
             /\ q[k].do \in {"remove", "copy", "store"}
             /\ q[k].do \in {"remove", "copy"} => IsBundled(q[k].id)
             /\ q[k].do = "store" => \A id \in Ids : ~IsBundled(id) /\ acked[id] # 0 =>
                  "registry" \in lost \/ Maps(q[k].records, id, acked[id])
    <3>1. Store(r).do = "store" /\ Store(r).records = r
      BY DEF Store
    <3> QED
      BY <2>6, <2>7, <3>1
  <2>9. q \o Tail(todo) \in Seq(PluginSteps)
    BY <1>1, <2>7, ConcatProperties
  <2>10. PluginsTyped'
    BY <1>1, <1>2, <2>2, <2>9 DEF PluginsTyped
  <2>11. PluginsIInv /\ todo[1].do # "sync"
    BY <1>1
  <2> HIDE <1>3 DEF PluginsIInv
  <2> QED
    BY <1>1, <1>2, <2>2, <2>7, <2>8, <2>10, <2>11, PlanGrows
<1> QED
  BY <1>4, <1>5, <1>6

LEMMA LoadKeeps ==
  ASSUME PluginsIInv, AggregatedTools
  PROVE  PluginsIInv'
<1> USE DEF PluginsIInv
<1>1. /\ todo # <<>> /\ todo[1].do = "load" /\ todo \in Seq(PluginSteps) /\ Tail(todo) \in Seq(PluginSteps)
      /\ session = "up" /\ ~half
  <2>1. todo # <<>> /\ Head(todo).do = "load"
    BY DEF AggregatedTools, Does
  <2>2. todo \in Seq(PluginSteps) /\ session = "up"
    BY <2>1 DEF PluginsTyped
  <2>3. todo[1].do = "load" /\ Tail(todo) \in Seq(PluginSteps)
    BY <2>1, <2>2, RestOfPlan
  <2> QED
    BY <2>1, <2>2, <2>3 DEF WhatIsCutIsKnown
<1>2. /\ copy' = copy /\ registry' = registry /\ settings' = settings /\ torn' = torn /\ bundle' = bundle
      /\ source' = source /\ acked' = acked /\ wish' = wish /\ cut' = cut /\ lost' = lost
  BY DEF AggregatedTools, disk, history
<1>3. CASE ToolsClash /\ Refused
  <2>1. todo' = <<>> /\ half' = FALSE /\ loaded' = {} /\ session' = "refused"
    BY <1>3 DEF Refused
  <2>2. PluginsTyped'
    BY <1>2, <2>1, StoppedIsTyped
  <2>3. ToolsClash' <=> ToolsClash
    <3>1. \A d : HasManifest(d)' <=> HasManifest(d)
      BY <1>2 DEF HasManifest
    <3>2. \A d : IdOf(d)' = IdOf(d)
      BY <1>2 DEF IdOf
    <3>3. \A d : Shadowed(d)' <=> Shadowed(d)
      BY <3>1, <3>2, Zenon DEF Shadowed
    <3>4. Discovered' = Discovered
      BY <3>1, <3>2, <3>3 DEF Discovered
    <3>5. \A id : IsEnabled(id)' <=> IsEnabled(id)
      BY <1>2 DEF IsEnabled
    <3>6. Enabled' = Enabled
      BY <3>4, <3>5 DEF Enabled
    <3> QED
      BY <3>6, Zenon DEF ToolsClash
  <2>4. StartsAgain'
    BY <1>3, <2>3 DEF StartsAgain
  <2> QED
    BY <1>1, <1>2, <2>1, <2>2, <2>4, Stopped
<1>4. CASE loaded' = Enabled /\ Goes(Tail(todo)) /\ UNCHANGED session
  <2>1. todo' = Tail(todo) /\ half' = FALSE /\ session' = "up"
    BY <1>1, <1>4 DEF Goes
  <2>2. ASSUME NEW p \in Enabled
        PROVE  /\ p.id \in Ids /\ p.from \in Ids /\ HasManifest(p.from) /\ IsEnabled(p.id)
               /\ p = [id |-> p.id, from |-> p.from]
    <3>1. PICK d \in Ids : HasManifest(d) /\ p = [id |-> IdOf(d), from |-> d]
      BY DEF Enabled, Discovered
    <3>2. IdOf(d) \in Ids
      BY <3>1, IdsOfNames DEF IdOf
    <3> QED
      BY <3>1, <3>2 DEF Enabled
  <2>3. loaded' \subseteq [id : Ids, from : Ids]
    BY <1>4, <2>2
  <2>4. PluginsTyped'
    BY <1>1, <1>2, <2>1, <2>3 DEF PluginsTyped
  <2>5. LoadedIsWanted'
    <3>1. ASSUME NEW p \in Enabled
          PROVE  /\ \/ wish[p.id] \in {"on", "unsure"}
                    \/ /\ IsBundled(p.id) /\ p.id[1] \in DefaultEnabled
                       /\ wish[p.id] = "off" => "settings" \in lost
                 /\ copy[p.from].is = "whole" \/ p.from \in cut
      <4>1. p.id \in Ids /\ p.from \in Ids /\ HasManifest(p.from) /\ IsEnabled(p.id)
        BY <2>2
      <4>2. copy[p.from].is = "whole" \/ p.from \in cut
        BY <1>1, <4>1 DEF HasManifest, WhatIsCutIsKnown
      <4>3. /\ OnlyIfWanted(wish[p.id], settings, p.id)
            /\ "settings" \in lost \/ AsWished(wish[p.id], settings, p.id)
        BY <1>1, <4>1 DEF WishesAreKept, Under
      <4>4. CASE p.id \in DOMAIN settings
        <5>1. settings[p.id] \in BOOLEAN /\ settings[p.id]
          BY <4>1, <4>4 DEF IsEnabled, PluginsTyped, SwitchSets
        <5>2. Maps(settings, p.id, TRUE)
          BY <4>4, <5>1 DEF Maps
        <5> QED
          BY <4>2, <4>3, <5>2 DEF OnlyIfWanted
      <4>5. CASE p.id \notin DOMAIN settings
        <5>1. IsBundled(p.id) /\ p.id[1] \in DefaultEnabled
          BY <4>1, <4>5 DEF IsEnabled
        <5>2. wish[p.id] = "off" => "settings" \in lost
          BY <4>3, <4>5 DEF AsWished, Maps
        <5> QED
          BY <4>2, <5>1, <5>2
      <4> QED
        BY <4>4, <4>5
    <3> QED
      BY <1>2, <1>4, <3>1 DEF LoadedIsWanted
  <2>6. AckedIsLoaded'
    <3>1. ASSUME NEW id \in Ids, ~IsBundled(id), acked[id] # 0, wish[id] = "on", "settings" \notin lost, ~Shadowed(id)
          PROVE  [id |-> id, from |-> id] \in Enabled
      <4>1. AsWished(wish[id], settings, id) /\ copy[id] = Whole(acked[id])
        BY <1>1, <3>1 DEF WishesAreKept, AckedIsKept, Under
      <4>2. Maps(settings, id, TRUE)
        BY <3>1, <4>1 DEF AsWished
      <4>3. IsEnabled(id)
        BY <4>2 DEF IsEnabled, Maps
      <4>4. HasManifest(id)
        BY <4>1 DEF HasManifest, Whole
      <4>5. IdOf(id) = id
        BY <3>1, IdsOfNames DEF IdOf
      <4>6. [id |-> id, from |-> id] \in Discovered
        BY <3>1, <4>4, <4>5 DEF Discovered
      <4> QED
        BY <4>3, <4>6 DEF Enabled
    <3>2. \A id : Shadowed(id)' <=> Shadowed(id)
      BY <1>2, Zenon DEF Shadowed, IdOf, HasManifest
    <3> QED
      BY <1>2, <1>4, <3>1, <3>2 DEF AckedIsLoaded
  <2>7. \A id : ~Touches(todo[1], id)
    BY <1>1 DEF Touches
  <2>8. PluginsIInv
    OBVIOUS
  <2> HIDE DEF PluginsIInv
  <2> QED
    BY <1>1, <1>2, <2>1, <2>4, <2>5, <2>6, <2>7, <2>8, StepDone
<1> QED
  BY <1>3, <1>4 DEF AggregatedTools

LEMMA ReloadIs ==
  /\ Reload \in Seq(PluginSteps) /\ Len(Reload) = 3
  /\ Reload[1].do = "sync" /\ Reload[2].do = "scan" /\ Reload[3].do = "load"
<1>1. Reload = <<Sync, Scan, Load>> /\ Sync \in PluginSteps /\ Scan \in PluginSteps /\ Load \in PluginSteps
  BY StepsAreMade DEF Reload
<1>2. Sync.do = "sync" /\ Scan.do = "scan" /\ Load.do = "load"
  BY DEF Sync, Scan, Load
<1> QED
  BY <1>1, <1>2

(* A command, or a start, that has all its steps before it.                *)
LEMMA CommandStarts ==
  ASSUME PluginsIInv, PluginsTyped', todo = <<>>,
         NEW c \in Seq(PluginSteps), todo' = c \o Reload, ~half', session' = "up",
         copy' = copy, registry' = registry, settings' = settings, torn' = torn, bundle' = bundle,
         cut' = cut, lost' = lost,
         \A i \in Ids : (acked'[i] # 0 => acked'[i] = acked[i]) /\ wish'[i] \in {wish[i], "unsure"},
         \A k \in 1 .. Len(c) : c[k].do \in {"remove", "copy", "store", "switches"} \/ (c[k].do = "ack" /\ k = Len(c)),
         \A k \in 1 .. Len(c) : \A i \in Ids : ~IsBundled(i) /\ acked'[i] # 0 =>
           /\ ~Touches(c[k], i)
           /\ c[k].do = "store" => "registry" \in lost \/ Maps(c[k].records, i, acked[i]),
         \A k \in 1 .. Len(c) : c[k].do = "switches" => \A i \in Ids : Agrees(wish'[i], c[k].switches, i),
         \A k \in 1 .. Len(c) : c[k].do = "ack" =>
           /\ ~IsBundled(c[k].id) /\ c[k].version # 0 =>
                /\ WillBeWhole(c, k - 1, c[k].id, c[k].version)
                /\ "registry" \in lost \/ WillBeRecorded(c, k - 1, c[k].id, c[k].version)
           /\ WillAgree(c, k - 1, c[k].wish, c[k].id)
  PROVE  PluginsIInv'
<1>3. PICK p : p = c \o Reload
  OBVIOUS
<1>4. todo' = p
  BY <1>3
<1>5. /\ Len(c) \in Nat /\ Len(p) = Len(c) + 3
      /\ \A k \in 1 .. Len(c) : k \in 1 .. Len(p) /\ p[k] = c[k]
      /\ \A k \in 1 .. Len(p) : \/ k \in 1 .. Len(c)
                                \/ k = Len(c) + 1 /\ p[k].do = "sync"
                                \/ k = Len(c) + 2 /\ p[k].do = "scan"
                                \/ k = Len(c) + 3 /\ p[k].do = "load"
  <2>1. /\ Len(c) \in Nat /\ Len(p) = Len(c) + Len(Reload)
        /\ \A k \in 1 .. Len(c) : k \in 1 .. Len(p) /\ p[k] = c[k]
        /\ \A k \in 1 .. Len(p) : k \in 1 .. Len(c) \/ (k - Len(c) \in 1 .. Len(Reload) /\ p[k] = Reload[k - Len(c)])
    <3>1. Reload \in Seq(PluginSteps) /\ c \in Seq(PluginSteps)
      BY ReloadIs
    <3> QED
      BY <1>3, <3>1, PlansJoin
  <2>2. ASSUME NEW k \in 1 .. Len(p), k \notin 1 .. Len(c)
        PROVE  \/ k = Len(c) + 1 /\ p[k].do = "sync"
               \/ k = Len(c) + 2 /\ p[k].do = "scan"
               \/ k = Len(c) + 3 /\ p[k].do = "load"
    <3>1. k - Len(c) \in 1 .. 3 /\ p[k] = Reload[k - Len(c)]
      BY <2>1, <2>2, ReloadIs
    <3>2. k - Len(c) = 1 \/ k - Len(c) = 2 \/ k - Len(c) = 3
      BY <3>1
    <3>3. \A j \in 1 .. 3 : k - Len(c) = j => k = Len(c) + j
      BY <2>1
    <3> QED
      BY <3>1, <3>2, <3>3, ReloadIs
  <2> QED
    BY <2>1, <2>2, ReloadIs
<1> USE DEF PluginsIInv
<1>6. ~half
  BY DEF WhatIsCutIsKnown
<1>9. InOrder(todo)'
  <2>1. p[Len(p)].do = "load"
    BY <1>5
  <2>2. ASSUME NEW i \in 1 .. Len(p), NEW j \in 1 .. Len(p), i < j
        PROVE  p[j].do \in After(p[i].do)
    <3>0. p[j].do \in {"remove", "copy", "store", "switches", "ack", "sync", "scan", "load"}
      BY <1>5
    <3>1. CASE i \in 1 .. Len(c)
      <4>1. CASE c[i].do \in {"remove", "copy", "store", "switches"}
        BY <1>5, <3>0, <3>1, <4>1 DEF After
      <4>2. CASE c[i].do = "ack" /\ i = Len(c)
        <5>1. p[j].do \in {"sync", "scan", "load"}
          BY <1>5, <2>2, <4>2
        <5> QED
          BY <1>5, <3>1, <4>2, <5>1 DEF After
      <4> QED
        BY <3>1, <4>1, <4>2
    <3>2. CASE i = Len(c) + 1 /\ p[i].do = "sync"
      <4>1. p[j].do \in {"scan", "load"}
        BY <1>5, <2>2, <3>2
      <4> QED
        BY <3>2, <4>1 DEF After
    <3>3. CASE i = Len(c) + 2 /\ p[i].do = "scan"
      <4>1. p[j].do = "load"
        BY <1>5, <2>2, <3>3
      <4> QED
        BY <3>3, <4>1 DEF After
    <3>4. i # Len(c) + 3
      BY <1>5, <2>2
    <3> QED
      BY <1>5, <3>1, <3>2, <3>3, <3>4
  <2> QED
    BY <1>4, <2>1, <2>2 DEF InOrder
<1>10. WhatIsCutIsKnown'
  <2>1. /\ \A id \in Ids : copy[id].is \in {"bare", "broken", "partial"} => id \in cut
        /\ "registry" \in torn => "registry" \in lost
        /\ "settings" \in torn => "settings" \in lost
    BY <1>6 DEF WhatIsCutIsKnown, Under
  <2> QED
    BY <2>1 DEF WhatIsCutIsKnown
<1>11. AcksAreEarned'
  <2>1. ASSUME NEW k \in 1 .. Len(p), p[k].do = "ack"
        PROVE  /\ ~IsBundled(p[k].id) /\ p[k].version # 0 =>
                    /\ WillBeWhole(p, k - 1, p[k].id, p[k].version)'
                    /\ "registry" \in lost \/ WillBeRecorded(p, k - 1, p[k].id, p[k].version)'
               /\ WillAgree(p, k - 1, p[k].wish, p[k].id)'
    <3>1. k \in 1 .. Len(c) /\ p[k] = c[k]
      BY <1>5, <2>1
    <3>2. \A i \in 1 .. k - 1 : i \in 1 .. Len(c) /\ p[i] = c[i]
      BY <1>5, <3>1
    <3>3. PICK id, v, w : id = c[k].id /\ v = c[k].version /\ w = c[k].wish
      OBVIOUS
    <3>4. /\ ~IsBundled(id) /\ v # 0 =>
               /\ WillBeWhole(c, k - 1, id, v)
               /\ "registry" \in lost \/ WillBeRecorded(c, k - 1, id, v)
          /\ WillAgree(c, k - 1, w, id)
      BY <2>1, <3>1, <3>3
    <3>5. WillBeWhole(c, k - 1, id, v) => WillBeWhole(p, k - 1, id, v)'
      <4>1. Renews(c, k - 1, id, v) => Renews(p, k - 1, id, v)
        <5> SUFFICES ASSUME Renews(c, k - 1, id, v), NEW i \in 1 .. k - 1, Touches(p[i], id)
            PROVE  \E j \in i .. k - 1 : p[j].do = "copy" /\ p[j].id = id /\ p[j].version = v
          BY DEF Renews
        <5>1. PICK j \in i .. k - 1 : c[j].do = "copy" /\ c[j].id = id /\ c[j].version = v
          BY <3>2 DEF Renews
        <5>2. j \in 1 .. k - 1
          BY <3>1
        <5> QED
          BY <3>2, <5>1, <5>2
      <4>2. Untouched(p, k - 1, id) => Untouched(c, k - 1, id)
        BY <3>2 DEF Untouched
      <4> QED
        BY <4>1, <4>2 DEF WillBeWhole, Renews, Untouched
    <3>6. WillBeRecorded(c, k - 1, id, v) => WillBeRecorded(p, k - 1, id, v)'
      <4>1. Stores(c, k - 1) => Stores(p, k - 1)
        BY <3>2 DEF Stores
      <4>2. ASSUME WillBeRecorded(c, k - 1, id, v)
            PROVE  /\ \A i \in 1 .. k - 1 : p[i].do = "store" => Maps(p[i].records, id, v)
                   /\ ~Stores(p, k - 1) => Maps(registry, id, v)
        BY <3>2, <4>1, <4>2 DEF WillBeRecorded
      <4> QED
        BY <4>2 DEF WillBeRecorded, Stores, Maps
    <3>7. WillAgree(c, k - 1, w, id) => WillAgree(p, k - 1, w, id)'
      <4>1. ASSUME WillAgree(c, k - 1, w, id)
            PROVE  /\ \A i \in 1 .. k - 1 : p[i].do = "switches" => Agrees(w, p[i].switches, id)
                   /\ (\A i \in 1 .. k - 1 : p[i].do # "switches") => Agrees(w, settings, id)
        BY <3>2, <4>1 DEF WillAgree
      <4> QED
        BY <4>1 DEF WillAgree, Agrees, OnlyIfWanted, AsWished, Maps
    <3> QED
      BY <3>1, <3>3, <3>4, <3>5, <3>6, <3>7
  <2> QED
    BY <1>4, <2>1 DEF AcksAreEarned
<1>12. AckedIsKept'
  <2>1. \A id \in Ids : ~IsBundled(id) /\ acked'[id] # 0 =>
          copy'[id] = Whole(acked'[id]) /\ ("registry" \in lost' \/ Maps(registry, id, acked[id])')
    <3> SUFFICES ASSUME NEW id \in Ids, ~IsBundled(id), acked'[id] # 0
        PROVE  copy'[id] = Whole(acked'[id]) /\ ("registry" \in lost' \/ Maps(registry, id, acked[id])')
      OBVIOUS
    <3>1. acked'[id] = acked[id]
      OBVIOUS
    <3>2. copy[id] = Whole(acked[id]) /\ ("registry" \in lost \/ Maps(registry, id, acked[id]))
      BY <1>6, <3>1 DEF AckedIsKept, Under
    <3> QED
      BY <3>1, <3>2 DEF Maps
  <2>2. \A k \in 1 .. Len(todo') : \A id \in Ids : ~IsBundled(id) /\ acked'[id] # 0 =>
          /\ ~Touches(todo'[k], id)
          /\ todo'[k].do = "store" => "registry" \in lost' \/ Maps(todo[k].records, id, acked[id])'
    <3> SUFFICES ASSUME NEW k \in 1 .. Len(todo'), NEW id \in Ids, ~IsBundled(id), acked'[id] # 0
        PROVE  /\ ~Touches(todo'[k], id)
               /\ todo'[k].do = "store" => "registry" \in lost' \/ Maps(todo[k].records, id, acked[id])'
      OBVIOUS
    <3>1. k \in 1 .. Len(p) /\ todo'[k] = p[k] /\ acked'[id] = acked[id] /\ lost' = lost
      BY <1>4
    <3>2. /\ ~Touches(p[k], id)
          /\ p[k].do = "store" => "registry" \in lost \/ Maps(p[k].records, id, acked[id])
      <4>1. CASE k \in 1 .. Len(c)
        BY <1>5, <4>1
      <4>2. CASE k \notin 1 .. Len(c)
        <5>1. p[k].do \in {"sync", "scan", "load"}
          BY <1>5, <3>1, <4>2
        <5> QED
          BY <5>1 DEF Touches
      <4> QED
        BY <4>1, <4>2
    <3> QED
      BY <3>1, <3>2 DEF Maps
  <2> QED
    BY <2>1, <2>2, Zenon DEF AckedIsKept
<1>13. WishesAreKept'
  <2>1. \A id \in Ids :
          /\ OnlyIfWanted(wish[id], settings, id)'
          /\ "settings" \in lost' \/ AsWished(wish[id], settings, id)'
    <3> SUFFICES ASSUME NEW id \in Ids
        PROVE  /\ OnlyIfWanted(wish[id], settings, id)'
               /\ "settings" \in lost' \/ AsWished(wish[id], settings, id)'
      OBVIOUS
    <3>1. /\ OnlyIfWanted(wish[id], settings, id)
          /\ "settings" \in lost \/ AsWished(wish[id], settings, id)
      BY <1>6 DEF WishesAreKept, Under
    <3> QED
      BY <3>1 DEF OnlyIfWanted, AsWished, Maps
  <2>2. \A k \in 1 .. Len(p) : p[k].do = "switches" => \A id \in Ids : Agrees(wish'[id], p[k].switches, id)
    BY <1>5
  <2>3. \A k \in 1 .. Len(todo') : todo'[k].do = "switches" => \A id \in Ids : Agrees(wish[id], todo[k].switches, id)'
    <3> SUFFICES ASSUME NEW k \in 1 .. Len(todo'), todo'[k].do = "switches", NEW id \in Ids
        PROVE  Agrees(wish[id], todo[k].switches, id)'
      OBVIOUS
    <3>1. k \in 1 .. Len(p) /\ todo'[k] = p[k] /\ lost' = lost
      BY <1>4
    <3>2. Agrees(wish'[id], p[k].switches, id)
      BY <2>2, <3>1
    <3> QED
      BY <3>1, <3>2 DEF Agrees, OnlyIfWanted, AsWished, Maps
  <2> QED
    BY <2>1, <2>3, Zenon DEF WishesAreKept
<1>14. BundledAreRenewed'
  <2>1. Len(c) + 1 \in 1 .. Len(todo') /\ todo'[Len(c) + 1].do = "sync"
    BY <1>4, <1>5
  <2> QED
    BY <2>1, Zenon DEF BundledAreRenewed
<1>15. StartsAgain'
  BY DEF StartsAgain
<1>16. LoadedIsWanted' /\ AckedIsLoaded'
  <2>1. todo' # <<>>
    BY <1>4, <1>5
  <2> QED
    BY <2>1 DEF LoadedIsWanted, AckedIsLoaded
<1> QED
  BY <1>9, <1>10, <1>11, <1>12, <1>13, <1>14, <1>15, <1>16

(* A record or a switch that is written touches no other.                  *)
LEMMA OneIsWritten ==
  /\ \A f, id, v : /\ Maps(With(f, id, v), id, v)
                   /\ \A i, u : i # id => (Maps(With(f, id, v), i, u) <=> Maps(f, i, u))
                   /\ \A u : u # v => ~Maps(With(f, id, v), id, u)
  /\ \A f, id : /\ \A u : ~Maps(Without(f, {id}), id, u)
                /\ \A i, u : i # id => (Maps(Without(f, {id}), i, u) <=> Maps(f, i, u))
<1>1. \A f, id, v : DOMAIN With(f, id, v) = DOMAIN f \cup {id} /\ With(f, id, v)[id] = v
                    /\ \A i \in DOMAIN f : i # id => With(f, id, v)[i] = f[i]
  BY DEF With
<1>2. \A f, id : DOMAIN Without(f, {id}) = DOMAIN f \ {id}
                 /\ \A i \in DOMAIN f : i # id => Without(f, {id})[i] = f[i]
  BY DEF Without, Restrict
<1>3. ASSUME NEW f, NEW id, NEW v
      PROVE  /\ Maps(With(f, id, v), id, v)
             /\ \A i, u : i # id => (Maps(With(f, id, v), i, u) <=> Maps(f, i, u))
             /\ \A u : u # v => ~Maps(With(f, id, v), id, u)
  <2>1. PICK g : g = With(f, id, v)
    OBVIOUS
  <2>2. DOMAIN g = DOMAIN f \cup {id} /\ g[id] = v /\ \A i \in DOMAIN f : i # id => g[i] = f[i]
    BY <2>1 DEF With
  <2> HIDE <2>1
  <2>3. /\ Maps(g, id, v) /\ (\A i, u : i # id => (Maps(g, i, u) <=> Maps(f, i, u)))
        /\ \A u : u # v => ~Maps(g, id, u)
    BY <2>2 DEF Maps
  <2> QED
    BY <2>1, <2>3
<1>4. ASSUME NEW f, NEW id
      PROVE  /\ \A u : ~Maps(Without(f, {id}), id, u)
             /\ \A i, u : i # id => (Maps(Without(f, {id}), i, u) <=> Maps(f, i, u))
  <2>1. PICK g : g = Without(f, {id})
    OBVIOUS
  <2>2. DOMAIN g = DOMAIN f \ {id} /\ \A i \in DOMAIN f : i # id => g[i] = f[i]
    BY <1>2, <2>1
  <2> HIDE <2>1
  <2>3. (\A u : ~Maps(g, id, u)) /\ \A i, u : i # id => (Maps(g, i, u) <=> Maps(f, i, u))
    BY <2>2 DEF Maps
  <2> QED
    BY <2>1, <2>3
<1> QED
  BY <1>3, <1>4, Zenon

LEMMA WrittenIsTyped ==
  /\ \A f \in Records : \A id \in Ids : /\ \A v \in Versions : With(f, id, v) \in Records
                                        /\ Without(f, {id}) \in Records
  /\ \A f \in SwitchSets : \A id \in Ids : /\ \A v \in BOOLEAN : With(f, id, v) \in SwitchSets
                                           /\ Without(f, {id}) \in SwitchSets
<1>1. ASSUME NEW f, NEW S, NEW ids \in SUBSET Ids, f \in [ids -> S], NEW id \in Ids
      PROVE  /\ \A v \in S : With(f, id, v) \in UNION {[x -> S] : x \in SUBSET Ids}
             /\ Without(f, {id}) \in UNION {[x -> S] : x \in SUBSET Ids}
  <2>1. ASSUME NEW v \in S PROVE With(f, id, v) \in [ids \cup {id} -> S]
    BY <1>1 DEF With
  <2>2. Without(f, {id}) \in [ids \ {id} -> S]
    BY <1>1 DEF Without, Restrict
  <2>3. ids \cup {id} \in SUBSET Ids /\ ids \ {id} \in SUBSET Ids
    OBVIOUS
  <2> QED
    BY <2>1, <2>2, <2>3
<1>2. ASSUME NEW f \in Records, NEW id \in Ids
      PROVE  (\A v \in Versions : With(f, id, v) \in Records) /\ Without(f, {id}) \in Records
  <2>1. PICK ids \in SUBSET Ids : f \in [ids -> Versions]
    BY DEF Records
  <2> QED
    BY <1>1, <2>1, Zenon DEF Records
<1>3. ASSUME NEW f \in SwitchSets, NEW id \in Ids
      PROVE  (\A v \in BOOLEAN : With(f, id, v) \in SwitchSets) /\ Without(f, {id}) \in SwitchSets
  <2>1. PICK ids \in SUBSET Ids : f \in [ids -> BOOLEAN]
    BY DEF SwitchSets
  <2> QED
    BY <1>1, <2>1, Zenon DEF SwitchSets
<1> QED
  BY <1>2, <1>3

(* What every command starts with.                                         *)
LEMMA CommandBegins ==
  ASSUME PluginsIInv, NEW c \in Seq(PluginSteps), NEW id \in Ids, NEW v \in {0, acked[id]}, NEW w \in {wish[id], "unsure"},
         Begin(c, {id}, v, w)
  PROVE  /\ PluginsTyped' /\ todo = <<>> /\ ~half /\ todo' = c \o Reload /\ ~half' /\ session' = "up"
         /\ copy' = copy /\ registry' = registry /\ settings' = settings /\ torn' = torn /\ bundle' = bundle
         /\ cut' = cut /\ lost' = lost
         /\ \A i \in Ids : (acked'[i] # 0 => acked'[i] = acked[i]) /\ wish'[i] \in {wish[i], "unsure"}
         /\ acked'[id] = v /\ wish'[id] = w /\ \A i \in Ids : i # id => acked'[i] = acked[i] /\ wish'[i] = wish[i]
<1> USE DEF PluginsIInv
<1>1. /\ session = "up" /\ todo = <<>> /\ todo' = c \o Reload /\ half' = FALSE /\ session' = "up"
      /\ copy' = copy /\ registry' = registry /\ settings' = settings /\ torn' = torn /\ bundle' = bundle
      /\ source' = source /\ loaded' = loaded /\ cut' = cut /\ lost' = lost
  BY DEF Begin, Goes, disk
<1>2. /\ acked' = [i \in Ids |-> IF i \in {id} THEN v ELSE acked[i]]
      /\ wish' = [i \in Ids |-> IF i \in {id} THEN w ELSE wish[i]]
  BY DEF Begin
<1>3. /\ acked'[id] = v /\ wish'[id] = w
      /\ \A i \in Ids : i # id => acked'[i] = acked[i] /\ wish'[i] = wish[i]
  BY <1>2
<1>4. v \in Versioned /\ w \in Wishes
  BY DEF PluginsTyped, Versioned, Wishes
<1>5. acked' \in [Ids -> Versioned] /\ wish' \in [Ids -> Wishes]
  BY <1>2, <1>4 DEF PluginsTyped
<1>6. c \o Reload \in Seq(PluginSteps)
  BY ReloadIs, ConcatProperties
<1>7. PluginsTyped'
  BY <1>1, <1>5, <1>6 DEF PluginsTyped
<1>8. ~half
  BY <1>1 DEF WhatIsCutIsKnown
<1>9. \A i \in Ids : (acked'[i] # 0 => acked'[i] = acked[i]) /\ wish'[i] \in {wish[i], "unsure"}
  BY <1>3
<1> QED
  BY <1>1, <1>3, <1>7, <1>8, <1>9

(* Between commands, what was reported holds.                              *)
LEMMA AtRest ==
  ASSUME PluginsIInv, ~half
  PROVE  /\ \A i \in Ids : ~IsBundled(i) /\ acked[i] # 0 =>
              copy[i] = Whole(acked[i]) /\ ("registry" \in lost \/ Maps(registry, i, acked[i]))
         /\ \A i \in Ids : Agrees(wish[i], settings, i) /\ Agrees("unsure", settings, i)
  BY DEF PluginsIInv, AckedIsKept, WishesAreKept, Under, Agrees, OnlyIfWanted, AsWished

LEMMA StepsAreSteps ==
  /\ \A id : Removal(id).do = "remove" /\ Removal(id).id = id
  /\ \A id, v : Copying(id, v).do = "copy" /\ Copying(id, v).id = id /\ Copying(id, v).version = v
  /\ \A r : Store(r).do = "store" /\ Store(r).records = r
  /\ \A s : Switches(s).do = "switches" /\ Switches(s).switches = s
  /\ \A id, v, w : Ack(id, v, w).do = "ack" /\ Ack(id, v, w).id = id /\ Ack(id, v, w).version = v /\ Ack(id, v, w).wish = w
  /\ \A id, i : Touches(Removal(id), i) <=> i = id
  /\ \A id, v, i : Touches(Copying(id, v), i) <=> i = id
  /\ \A r, i : ~Touches(Store(r), i) /\ \A s : ~Touches(Switches(s), i)
  /\ \A id, v, w, i : ~Touches(Ack(id, v, w), i)
  BY DEF Removal, Copying, Store, Switches, Ack, Touches

(* A switch that is set, or taken away, on behalf of a command.            *)
LEMMA SwitchAgrees ==
  ASSUME NEW id, NEW s, \/ \E b \in BOOLEAN : s = With(settings, id, b)
                        \/ s = Without(settings, {id}),
         NEW w, \A i \in Ids : Agrees(w[i], settings, i), w[id] = "unsure"
  PROVE  \A i \in Ids : Agrees(w[i], s, i)
<1> SUFFICES ASSUME NEW i \in Ids PROVE Agrees(w[i], s, i)
  OBVIOUS
<1>1. CASE i = id
  BY <1>1 DEF Agrees, OnlyIfWanted, AsWished
<1>2. CASE i # id
  <2>1. \A u : Maps(s, i, u) <=> Maps(settings, i, u)
    BY <1>2, OneIsWritten
  <2> QED
    BY <2>1 DEF Agrees, OnlyIfWanted, AsWished
<1> QED
  BY <1>1, <1>2

(* The commands.  Each has earned its report when it returns.              *)
LEMMA InstallKeeps ==
  ASSUME PluginsIInv, NEW n \in Names, Install(n)
  PROVE  PluginsIInv'
<1>1. PICK id : id = External(n)
  OBVIOUS
<1>2. PICK v : v = source[n]
  OBVIOUS
<1>3. PICK r, s : r = With(registry, id, v) /\ s = With(settings, id, TRUE)
  OBVIOUS
<1>4. PICK c : c = <<Removal(id), Copying(id, v), Store(r), Switches(s), Ack(id, v, "on")>>
  OBVIOUS
<1>5. Begin(c, {id}, 0, "unsure")
  BY <1>1, <1>2, <1>3, <1>4, Zenon DEF Install
<1>6. id \in Ids /\ ~IsBundled(id) /\ v \in Versions /\ v # 0
  BY <1>1, <1>2, IdsOfNames DEF Install, PluginsIInv, PluginsTyped, Versioned
<1>7. r \in Records /\ s \in SwitchSets
  BY <1>3, <1>6, WrittenIsTyped DEF PluginsIInv, PluginsTyped
<1>8. c \in Seq(PluginSteps) /\ Len(c) = 5
  <2>1. /\ Removal(id) \in PluginSteps /\ Copying(id, v) \in PluginSteps /\ Store(r) \in PluginSteps
        /\ Switches(s) \in PluginSteps /\ Ack(id, v, "on") \in PluginSteps
    BY <1>6, <1>7, StepsAreMade DEF Versioned, Wishes
  <2> QED
    BY <1>4, <2>1
<1>9. /\ c[1] = Removal(id) /\ c[2] = Copying(id, v) /\ c[3] = Store(r) /\ c[4] = Switches(s) /\ c[5] = Ack(id, v, "on")
  BY <1>4
<1> HIDE <1>1, <1>2, <1>4
<1>10. /\ PluginsTyped' /\ todo = <<>> /\ ~half /\ todo' = c \o Reload /\ ~half' /\ session' = "up"
       /\ copy' = copy /\ registry' = registry /\ settings' = settings /\ torn' = torn /\ bundle' = bundle
       /\ cut' = cut /\ lost' = lost
       /\ \A i \in Ids : (acked'[i] # 0 => acked'[i] = acked[i]) /\ wish'[i] \in {wish[i], "unsure"}
       /\ acked'[id] = 0 /\ wish'[id] = "unsure" /\ \A i \in Ids : i # id => acked'[i] = acked[i] /\ wish'[i] = wish[i]
  BY <1>5, <1>6, <1>8, CommandBegins
<1>11. \A k \in 1 .. Len(c) : k = 1 \/ k = 2 \/ k = 3 \/ k = 4 \/ k = 5
  BY <1>8
<1>a. /\ c[1].do = "remove" /\ c[2].do = "copy" /\ c[3].do = "store" /\ c[4].do = "switches" /\ c[5].do = "ack"
      /\ c[2].id = id /\ c[2].version = v /\ c[3].records = r /\ c[4].switches = s
      /\ c[5].id = id /\ c[5].version = v /\ c[5].wish = "on" /\ Touches(c[2], id)
  BY <1>9, StepsAreSteps
<1>b. \A k \in 1 .. Len(c) : \A i : Touches(c[k], i) => i = id /\ (k = 1 \/ k = 2)
  <2>1. \A i : ~Touches(c[3], i) /\ ~Touches(c[4], i) /\ ~Touches(c[5], i)
    BY <1>9, StepsAreSteps
  <2>2. \A i : (Touches(c[1], i) <=> i = id) /\ (Touches(c[2], i) <=> i = id)
    BY <1>9, StepsAreSteps
  <2> QED
    BY <1>11, <2>1, <2>2
<1>12. \A k \in 1 .. Len(c) : c[k].do \in {"remove", "copy", "store", "switches"} \/ (c[k].do = "ack" /\ k = Len(c))
  BY <1>8, <1>11, <1>a
<1>13. \A k \in 1 .. Len(c) : \A i \in Ids : ~IsBundled(i) /\ acked'[i] # 0 =>
         /\ ~Touches(c[k], i)
         /\ c[k].do = "store" => "registry" \in lost \/ Maps(c[k].records, i, acked[i])
  <2> SUFFICES ASSUME NEW k \in 1 .. Len(c), NEW i \in Ids, ~IsBundled(i), acked'[i] # 0
      PROVE  /\ ~Touches(c[k], i)
             /\ c[k].do = "store" => "registry" \in lost \/ Maps(c[k].records, i, acked[i])
    OBVIOUS
  <2>1. i # id /\ acked[i] # 0
    BY <1>10
  <2>2. "registry" \in lost \/ Maps(r, i, acked[i])
    BY <1>3, <1>10, <2>1, AtRest, OneIsWritten
  <2> QED
    BY <1>11, <1>a, <1>b, <2>1, <2>2
<1>14. \A i \in Ids : Agrees(wish'[i], s, i)
  <2>1. \A i \in Ids : Agrees(wish'[i], settings, i)
    BY <1>10, AtRest
  <2> QED
    BY <1>3, <1>10, <2>1, SwitchAgrees
<1>15. \A k \in 1 .. Len(c) : c[k].do = "switches" => \A i \in Ids : Agrees(wish'[i], c[k].switches, i)
  BY <1>11, <1>14, <1>a
<1>16. WillBeWhole(c, 5 - 1, id, v)
  <2>1. 2 \in 1 .. 5 - 1 /\ c[2].do = "copy" /\ c[2].id = id /\ c[2].version = v /\ Touches(c[2], id)
    BY <1>a
  <2>2. \A i \in 1 .. 5 - 1 : Touches(c[i], id) => 2 \in i .. 5 - 1
    BY <1>8, <1>b
  <2>3. Renews(c, 5 - 1, id, v)
    BY <2>1, <2>2, Zenon DEF Renews
  <2>4. ~Untouched(c, 5 - 1, id)
    BY <2>1 DEF Untouched
  <2> QED
    BY <2>3, <2>4 DEF WillBeWhole
<1>17. WillBeRecorded(c, 5 - 1, id, v)
  <2>1. 3 \in 1 .. 5 - 1 /\ c[3].do = "store" /\ c[3].records = r /\ Maps(r, id, v)
    BY <1>3, <1>a, OneIsWritten
  <2>2. \A i \in 1 .. 5 - 1 : c[i].do = "store" => i = 3
    BY <1>8, <1>11, <1>a
  <2> QED
    BY <2>1, <2>2 DEF WillBeRecorded, Stores
<1>18. WillAgree(c, 5 - 1, "on", id)
  <2>1. 4 \in 1 .. 5 - 1 /\ c[4].do = "switches" /\ c[4].switches = s
    BY <1>a
  <2>2. \A i \in 1 .. 5 - 1 : c[i].do = "switches" => i = 4
    BY <1>8, <1>11, <1>a
  <2>3. Agrees("on", s, id)
    <3>1. Maps(s, id, TRUE)
      BY <1>3, OneIsWritten, Zenon
    <3> QED
      BY <3>1, "on" # "off", Zenon DEF Agrees, OnlyIfWanted, AsWished
  <2> QED
    BY <2>1, <2>2, <2>3 DEF WillAgree
<1>19. \A k \in 1 .. Len(c) : c[k].do = "ack" =>
         /\ ~IsBundled(c[k].id) /\ c[k].version # 0 =>
              /\ WillBeWhole(c, k - 1, c[k].id, c[k].version)
              /\ "registry" \in lost \/ WillBeRecorded(c, k - 1, c[k].id, c[k].version)
         /\ WillAgree(c, k - 1, c[k].wish, c[k].id)
  BY <1>11, <1>16, <1>17, <1>18, <1>a
<1> HIDE <1>3, <1>9
<1> QED
  BY <1>8, <1>10, <1>12, <1>13, <1>15, <1>19, CommandStarts

LEMMA KnownIsAnId ==
  ASSUME NEW id, Known(id)
  PROVE  id \in Ids
<1>1. PICK d \in Ids : id = IdOf(d)
  BY DEF Known, Discovered
<1> QED
  BY <1>1, IdsOfNames DEF IdOf

LEMMA SwitchKeeps ==
  ASSUME PluginsIInv, NEW id \in Ids, NEW b \in BOOLEAN, NEW w, w = IF b THEN "on" ELSE "off",
         Begin(<<Switches(With(settings, id, b)), Ack(id, acked[id], w)>>, {id}, acked[id], "unsure")
  PROVE  PluginsIInv'
<1>2. PICK v : v = acked[id]
  OBVIOUS
<1>3. PICK s : s = With(settings, id, b)
  OBVIOUS
<1>4. PICK c : c = <<Switches(s), Ack(id, v, w)>>
  OBVIOUS
<1>5. Begin(c, {id}, v, "unsure")
  BY <1>2, <1>3, <1>4, Zenon
<1>6. v \in Versioned /\ w \in Wishes
  BY <1>2 DEF PluginsIInv, PluginsTyped, Wishes
<1>7. s \in SwitchSets
  BY <1>3, WrittenIsTyped DEF PluginsIInv, PluginsTyped
<1>8. c \in Seq(PluginSteps) /\ Len(c) = 2
  <2>1. Switches(s) \in PluginSteps /\ Ack(id, v, w) \in PluginSteps
    BY <1>6, <1>7, StepsAreMade
  <2> QED
    BY <1>4, <2>1
<1>9. c[1] = Switches(s) /\ c[2] = Ack(id, v, w)
  BY <1>4
<1> HIDE <1>4
<1>10. /\ PluginsTyped' /\ todo = <<>> /\ ~half /\ todo' = c \o Reload /\ ~half' /\ session' = "up"
       /\ copy' = copy /\ registry' = registry /\ settings' = settings /\ torn' = torn /\ bundle' = bundle
       /\ cut' = cut /\ lost' = lost
       /\ \A i \in Ids : (acked'[i] # 0 => acked'[i] = acked[i]) /\ wish'[i] \in {wish[i], "unsure"}
       /\ acked'[id] = v /\ wish'[id] = "unsure" /\ \A i \in Ids : i # id => acked'[i] = acked[i] /\ wish'[i] = wish[i]
  BY <1>2, <1>5, <1>8, CommandBegins
<1>11. \A k \in 1 .. Len(c) : k = 1 \/ k = 2
  BY <1>8
<1>a. /\ c[1].do = "switches" /\ c[2].do = "ack" /\ c[1].switches = s
      /\ c[2].id = id /\ c[2].version = v /\ c[2].wish = w
      /\ \A i : ~Touches(c[1], i) /\ ~Touches(c[2], i)
  <2>1. c[1].do = "switches" /\ c[2].do = "ack" /\ c[1].switches = s
    BY <1>9 DEF Switches, Ack
  <2>2. c[2].id = id /\ c[2].version = v /\ c[2].wish = w
    BY <1>9 DEF Ack
  <2>3. \A i : ~Touches(c[1], i) /\ ~Touches(c[2], i)
    BY <2>1, "switches" # "remove", "switches" # "copy", "ack" # "remove", "ack" # "copy", Zenon DEF Touches
  <2> QED
    BY <2>1, <2>2, <2>3, Zenon
<1>12. \A k \in 1 .. Len(c) : c[k].do \in {"remove", "copy", "store", "switches"} \/ (c[k].do = "ack" /\ k = Len(c))
  BY <1>8, <1>11, <1>a
<1>13. \A k \in 1 .. Len(c) : \A i \in Ids : ~IsBundled(i) /\ acked'[i] # 0 =>
         /\ ~Touches(c[k], i)
         /\ c[k].do = "store" => "registry" \in lost \/ Maps(c[k].records, i, acked[i])
  BY <1>11, <1>a
<1>14. \A i \in Ids : Agrees(wish'[i], s, i)
  <2>1. \A i \in Ids : Agrees(wish'[i], settings, i)
    BY <1>10, AtRest
  <2> QED
    BY <1>3, <1>10, <2>1, SwitchAgrees
<1>15. \A k \in 1 .. Len(c) : c[k].do = "switches" => \A i \in Ids : Agrees(wish'[i], c[k].switches, i)
  BY <1>11, <1>14, <1>a
<1>16. ~IsBundled(id) /\ v # 0 =>
         /\ WillBeWhole(c, 2 - 1, id, v)
         /\ "registry" \in lost \/ WillBeRecorded(c, 2 - 1, id, v)
  <2> SUFFICES ASSUME ~IsBundled(id), v # 0
      PROVE  /\ WillBeWhole(c, 2 - 1, id, v)
             /\ "registry" \in lost \/ WillBeRecorded(c, 2 - 1, id, v)
    OBVIOUS
  <2>1. copy[id] = Whole(v) /\ ("registry" \in lost \/ Maps(registry, id, v))
    BY <1>2, <1>10, AtRest
  <2>2. \A i \in 1 .. 2 - 1 : i = 1
    OBVIOUS
  <2>3. WillBeWhole(c, 2 - 1, id, v)
    BY <1>a, <2>1, <2>2 DEF WillBeWhole, Renews
  <2>4. \A i \in 1 .. 2 - 1 : c[i].do # "store"
    BY <1>a, <2>2
  <2>5. Maps(registry, id, v) => WillBeRecorded(c, 2 - 1, id, v)
    BY <2>4, Zenon DEF WillBeRecorded
  <2> QED
    BY <2>1, <2>3, <2>5
<1>17. WillAgree(c, 2 - 1, w, id)
  <2>1. 1 \in 1 .. 2 - 1 /\ \A i \in 1 .. 2 - 1 : i = 1
    OBVIOUS
  <2>2. Agrees(w, s, id)
    <3>1. CASE b = TRUE
      <4>1. Maps(s, id, TRUE) /\ w = "on"
        BY <1>3, <3>1, OneIsWritten, Zenon
      <4> QED
        BY <4>1, "on" # "off", Zenon DEF Agrees, OnlyIfWanted, AsWished
    <3>2. CASE b = FALSE
      <4>1. Maps(s, id, FALSE) /\ ~Maps(s, id, TRUE) /\ w = "off"
        BY <1>3, <3>2, OneIsWritten, Zenon
      <4> QED
        BY <4>1, "on" # "off", Zenon DEF Agrees, OnlyIfWanted, AsWished
    <3> QED
      BY <3>1, <3>2
  <2> QED
    BY <1>a, <2>1, <2>2 DEF WillAgree
<1>19. \A k \in 1 .. Len(c) : c[k].do = "ack" =>
         /\ ~IsBundled(c[k].id) /\ c[k].version # 0 =>
              /\ WillBeWhole(c, k - 1, c[k].id, c[k].version)
              /\ "registry" \in lost \/ WillBeRecorded(c, k - 1, c[k].id, c[k].version)
         /\ WillAgree(c, k - 1, c[k].wish, c[k].id)
  BY <1>11, <1>16, <1>17, <1>a
<1> HIDE <1>2, <1>3, <1>9
<1> QED
  BY <1>8, <1>10, <1>12, <1>13, <1>15, <1>19, CommandStarts

LEMMA UninstallKeeps ==
  ASSUME PluginsIInv, NEW n \in Names, Uninstall(n)
  PROVE  PluginsIInv'
<1>1. PICK id : id = External(n)
  OBVIOUS
<1>3. PICK r, s : r = Without(registry, {id}) /\ s = Without(settings, {id})
  OBVIOUS
<1>4. PICK c : c = <<Removal(id), Store(r), Switches(s), Ack(id, 0, "none")>>
  OBVIOUS
<1>5. Begin(c, {id}, 0, "unsure")
  BY <1>1, <1>3, <1>4, Zenon DEF Uninstall
<1>6. id \in Ids /\ ~IsBundled(id)
  BY <1>1, IdsOfNames
<1>7. r \in Records /\ s \in SwitchSets
  BY <1>3, <1>6, WrittenIsTyped DEF PluginsIInv, PluginsTyped
<1>8. c \in Seq(PluginSteps) /\ Len(c) = 4
  <2>1. /\ Removal(id) \in PluginSteps /\ Store(r) \in PluginSteps
        /\ Switches(s) \in PluginSteps /\ Ack(id, 0, "none") \in PluginSteps
    BY <1>6, <1>7, StepsAreMade DEF Versioned, Wishes
  <2> QED
    BY <1>4, <2>1
<1>9. c[1] = Removal(id) /\ c[2] = Store(r) /\ c[3] = Switches(s) /\ c[4] = Ack(id, 0, "none")
  BY <1>4
<1> HIDE <1>1, <1>4
<1>10. /\ PluginsTyped' /\ todo = <<>> /\ ~half /\ todo' = c \o Reload /\ ~half' /\ session' = "up"
       /\ copy' = copy /\ registry' = registry /\ settings' = settings /\ torn' = torn /\ bundle' = bundle
       /\ cut' = cut /\ lost' = lost
       /\ \A i \in Ids : (acked'[i] # 0 => acked'[i] = acked[i]) /\ wish'[i] \in {wish[i], "unsure"}
       /\ acked'[id] = 0 /\ wish'[id] = "unsure" /\ \A i \in Ids : i # id => acked'[i] = acked[i] /\ wish'[i] = wish[i]
  BY <1>5, <1>6, <1>8, CommandBegins
<1>11. \A k \in 1 .. Len(c) : k = 1 \/ k = 2 \/ k = 3 \/ k = 4
  BY <1>8
<1>a. /\ c[1].do = "remove" /\ c[2].do = "store" /\ c[3].do = "switches" /\ c[4].do = "ack"
      /\ c[2].records = r /\ c[3].switches = s
      /\ c[4].id = id /\ c[4].version = 0 /\ c[4].wish = "none"
  BY <1>9, StepsAreSteps
<1>b. \A k \in 1 .. Len(c) : \A i : Touches(c[k], i) => i = id
  <2>1. \A i : ~Touches(c[2], i) /\ ~Touches(c[3], i) /\ ~Touches(c[4], i) /\ (Touches(c[1], i) <=> i = id)
    BY <1>9, StepsAreSteps
  <2> QED
    BY <1>11, <2>1
<1>12. \A k \in 1 .. Len(c) : c[k].do \in {"remove", "copy", "store", "switches"} \/ (c[k].do = "ack" /\ k = Len(c))
  BY <1>8, <1>11, <1>a
<1>13. \A k \in 1 .. Len(c) : \A i \in Ids : ~IsBundled(i) /\ acked'[i] # 0 =>
         /\ ~Touches(c[k], i)
         /\ c[k].do = "store" => "registry" \in lost \/ Maps(c[k].records, i, acked[i])
  <2> SUFFICES ASSUME NEW k \in 1 .. Len(c), NEW i \in Ids, ~IsBundled(i), acked'[i] # 0
      PROVE  /\ ~Touches(c[k], i)
             /\ c[k].do = "store" => "registry" \in lost \/ Maps(c[k].records, i, acked[i])
    OBVIOUS
  <2>1. i # id /\ acked[i] # 0
    BY <1>10
  <2>2. "registry" \in lost \/ Maps(r, i, acked[i])
    BY <1>3, <1>10, <2>1, AtRest, OneIsWritten
  <2> QED
    BY <1>11, <1>a, <1>b, <2>1, <2>2
<1>14. \A i \in Ids : Agrees(wish'[i], s, i)
  <2>1. \A i \in Ids : Agrees(wish'[i], settings, i)
    BY <1>10, AtRest
  <2> QED
    BY <1>3, <1>10, <2>1, SwitchAgrees
<1>15. \A k \in 1 .. Len(c) : c[k].do = "switches" => \A i \in Ids : Agrees(wish'[i], c[k].switches, i)
  BY <1>11, <1>14, <1>a
<1>18. WillAgree(c, 4 - 1, "none", id)
  <2>1. 3 \in 1 .. 4 - 1 /\ c[3].do = "switches" /\ c[3].switches = s
    BY <1>a
  <2>2. \A i \in 1 .. 4 - 1 : c[i].do = "switches" => i = 3
    BY <1>8, <1>11, <1>a
  <2>3. Agrees("none", s, id)
    <3>1. ~Maps(s, id, TRUE)
      BY <1>3, OneIsWritten, Zenon
    <3> QED
      BY <3>1, "none" # "on", "none" # "off", Zenon DEF Agrees, OnlyIfWanted, AsWished
  <2> QED
    BY <2>1, <2>2, <2>3 DEF WillAgree
<1>19. \A k \in 1 .. Len(c) : c[k].do = "ack" =>
         /\ ~IsBundled(c[k].id) /\ c[k].version # 0 =>
              /\ WillBeWhole(c, k - 1, c[k].id, c[k].version)
              /\ "registry" \in lost \/ WillBeRecorded(c, k - 1, c[k].id, c[k].version)
         /\ WillAgree(c, k - 1, c[k].wish, c[k].id)
  BY <1>11, <1>18, <1>a
<1> HIDE <1>3, <1>9
<1> QED
  BY <1>8, <1>10, <1>12, <1>13, <1>15, <1>19, CommandStarts

LEMMA UpdateKeeps ==
  ASSUME PluginsIInv, NEW id \in Ids, Update(id)
  PROVE  PluginsIInv'
<1>1. PICK u, w : u = (IF IsBundled(id) THEN bundle[id[1]] ELSE source[id[1]]) /\ w = wish[id]
  OBVIOUS
<1>2. PICK v : v = IF IsBundled(id) THEN 0 ELSE u
  OBVIOUS
<1>3. PICK r : r = With(registry, id, u)
  OBVIOUS
<1>4. PICK c : c = <<Removal(id), Copying(id, u), Store(r), Ack(id, v, w)>>
  OBVIOUS
<1>5. Begin(c, {id}, 0, w) /\ u # 0
  BY <1>1, <1>2, <1>3, <1>4, Zenon DEF Update
<1>6. u \in Versions /\ v \in Versioned /\ w \in Wishes
  BY <1>1, <1>2, <1>5, IdsOfNames DEF PluginsIInv, PluginsTyped, Versioned
<1>7. r \in Records
  BY <1>3, <1>6, WrittenIsTyped DEF PluginsIInv, PluginsTyped
<1>8. c \in Seq(PluginSteps) /\ Len(c) = 4
  <2>1. /\ Removal(id) \in PluginSteps /\ Copying(id, u) \in PluginSteps /\ Store(r) \in PluginSteps
        /\ Ack(id, v, w) \in PluginSteps
    BY <1>6, <1>7, StepsAreMade
  <2> QED
    BY <1>4, <2>1
<1>9. c[1] = Removal(id) /\ c[2] = Copying(id, u) /\ c[3] = Store(r) /\ c[4] = Ack(id, v, w)
  BY <1>4
<1> HIDE <1>4
<1>10. /\ PluginsTyped' /\ todo = <<>> /\ ~half /\ todo' = c \o Reload /\ ~half' /\ session' = "up"
       /\ copy' = copy /\ registry' = registry /\ settings' = settings /\ torn' = torn /\ bundle' = bundle
       /\ cut' = cut /\ lost' = lost
       /\ \A i \in Ids : (acked'[i] # 0 => acked'[i] = acked[i]) /\ wish'[i] \in {wish[i], "unsure"}
       /\ acked'[id] = 0 /\ wish'[id] = w /\ \A i \in Ids : i # id => acked'[i] = acked[i] /\ wish'[i] = wish[i]
  BY <1>1, <1>5, <1>8, CommandBegins
<1>11. \A k \in 1 .. Len(c) : k = 1 \/ k = 2 \/ k = 3 \/ k = 4
  BY <1>8
<1>a. /\ c[1].do = "remove" /\ c[2].do = "copy" /\ c[3].do = "store" /\ c[4].do = "ack"
      /\ c[2].id = id /\ c[2].version = u /\ c[3].records = r
      /\ c[4].id = id /\ c[4].version = v /\ c[4].wish = w /\ Touches(c[2], id)
  BY <1>9, StepsAreSteps
<1>b. \A k \in 1 .. Len(c) : \A i : Touches(c[k], i) => i = id /\ (k = 1 \/ k = 2)
  <2>1. \A i : ~Touches(c[3], i) /\ ~Touches(c[4], i)
    BY <1>9, StepsAreSteps
  <2>2. \A i : (Touches(c[1], i) <=> i = id) /\ (Touches(c[2], i) <=> i = id)
    BY <1>9, StepsAreSteps
  <2> QED
    BY <1>11, <2>1, <2>2
<1>12. \A k \in 1 .. Len(c) : c[k].do \in {"remove", "copy", "store", "switches"} \/ (c[k].do = "ack" /\ k = Len(c))
  BY <1>8, <1>11, <1>a
<1>13. \A k \in 1 .. Len(c) : \A i \in Ids : ~IsBundled(i) /\ acked'[i] # 0 =>
         /\ ~Touches(c[k], i)
         /\ c[k].do = "store" => "registry" \in lost \/ Maps(c[k].records, i, acked[i])
  <2> SUFFICES ASSUME NEW k \in 1 .. Len(c), NEW i \in Ids, ~IsBundled(i), acked'[i] # 0
      PROVE  /\ ~Touches(c[k], i)
             /\ c[k].do = "store" => "registry" \in lost \/ Maps(c[k].records, i, acked[i])
    OBVIOUS
  <2>1. i # id /\ acked[i] # 0
    BY <1>10
  <2>2. "registry" \in lost \/ Maps(r, i, acked[i])
    BY <1>3, <1>10, <2>1, AtRest, OneIsWritten
  <2> QED
    BY <1>11, <1>a, <1>b, <2>1, <2>2
<1>15. \A k \in 1 .. Len(c) : c[k].do # "switches"
  BY <1>11, <1>a
<1>16. ~IsBundled(id) /\ v # 0 => WillBeWhole(c, 4 - 1, id, v) /\ WillBeRecorded(c, 4 - 1, id, v)
  <2> SUFFICES ASSUME ~IsBundled(id) PROVE WillBeWhole(c, 4 - 1, id, v) /\ WillBeRecorded(c, 4 - 1, id, v)
    OBVIOUS
  <2>0. u = v
    BY <1>2
  <2>1. 2 \in 1 .. 4 - 1 /\ c[2].do = "copy" /\ c[2].id = id /\ c[2].version = v /\ Touches(c[2], id)
    BY <1>a, <2>0
  <2>2. \A i \in 1 .. 4 - 1 : Touches(c[i], id) => 2 \in i .. 4 - 1
    BY <1>8, <1>b
  <2>3. Renews(c, 4 - 1, id, v)
    BY <2>1, <2>2, Zenon DEF Renews
  <2>4. ~Untouched(c, 4 - 1, id)
    BY <2>1 DEF Untouched
  <2>5. 3 \in 1 .. 4 - 1 /\ c[3].do = "store" /\ c[3].records = r /\ Maps(r, id, v)
    BY <1>3, <1>a, <2>0, OneIsWritten
  <2>6. \A i \in 1 .. 4 - 1 : c[i].do = "store" => i = 3
    BY <1>8, <1>11, <1>a
  <2>7. WillBeRecorded(c, 4 - 1, id, v)
    BY <2>5, <2>6 DEF WillBeRecorded, Stores
  <2> QED
    BY <2>3, <2>4, <2>7 DEF WillBeWhole
<1>18. WillAgree(c, 4 - 1, w, id)
  <2>1. Agrees(w, settings, id)
    BY <1>1, <1>10, AtRest
  <2>2. \A i \in 1 .. 4 - 1 : c[i].do # "switches"
    BY <1>8, <1>15
  <2> QED
    BY <2>1, <2>2, Zenon DEF WillAgree
<1>19. \A k \in 1 .. Len(c) : c[k].do = "ack" =>
         /\ ~IsBundled(c[k].id) /\ c[k].version # 0 =>
              /\ WillBeWhole(c, k - 1, c[k].id, c[k].version)
              /\ "registry" \in lost \/ WillBeRecorded(c, k - 1, c[k].id, c[k].version)
         /\ WillAgree(c, k - 1, c[k].wish, c[k].id)
  BY <1>11, <1>16, <1>18, <1>a
<1> HIDE <1>1, <1>2, <1>3, <1>9
<1> QED
  BY <1>8, <1>10, <1>12, <1>13, <1>15, <1>19, CommandStarts

LEMMA StartKeeps ==
  ASSUME PluginsIInv, Start
  PROVE  PluginsIInv'
<1>1. /\ session = "down" /\ todo' = Reload /\ half' = FALSE /\ session' = "up"
      /\ copy' = copy /\ registry' = registry /\ settings' = settings /\ torn' = torn /\ bundle' = bundle
      /\ source' = source /\ loaded' = loaded /\ cut' = cut /\ lost' = lost /\ acked' = acked /\ wish' = wish
  BY DEF Start, Goes, disk, history
<1>2. todo = <<>>
  BY <1>1 DEF PluginsIInv, PluginsTyped
<1>3. PICK c : c = <<>>
  OBVIOUS
<1>4. c \in Seq(PluginSteps) /\ 1 .. Len(c) = {} /\ todo' = c \o Reload
  BY <1>1, <1>3, ReloadIs
<1>5. PluginsTyped'
  <2>1. Reload \in Seq(PluginSteps)
    BY ReloadIs
  <2> QED
    BY <1>1, <2>1 DEF PluginsIInv, PluginsTyped
<1>6. \A i \in Ids : (acked'[i] # 0 => acked'[i] = acked[i]) /\ wish'[i] \in {wish[i], "unsure"}
  BY <1>1
<1> HIDE <1>3
<1> QED
  BY <1>1, <1>2, <1>4, <1>5, <1>6, CommandStarts

(* The steps on the disk.                                                  *)
LEMMA StepIsUnderWay ==
  ASSUME PluginsIInv, NEW do, Does(do)
  PROVE  /\ todo # <<>> /\ todo \in Seq(PluginSteps) /\ todo[1].do = do /\ Head(todo) = todo[1] /\ todo[1] \in PluginSteps
         /\ Tail(todo) \in Seq(PluginSteps) /\ session = "up"
  BY RestOfPlan DEF PluginsIInv, PluginsTyped, Does

LEMMA RemoveKeeps ==
  ASSUME PluginsIInv, RemoveDir
  PROVE  PluginsIInv'
<1>1. /\ todo # <<>> /\ todo \in Seq(PluginSteps) /\ todo[1].do = "remove" /\ Head(todo) = todo[1] /\ todo[1] \in PluginSteps
      /\ Tail(todo) \in Seq(PluginSteps) /\ session = "up"
  BY StepIsUnderWay DEF RemoveDir
<1>2. /\ session' = session /\ registry' = registry /\ settings' = settings /\ torn' = torn /\ bundle' = bundle
      /\ source' = source /\ loaded' = loaded /\ lost' = lost /\ acked' = acked /\ wish' = wish
  BY DEF RemoveDir
<1>3. PICK id \in Ids : id = todo[1].id
  BY <1>1, StepsAreTyped
<1>t. copy \in [Ids -> Copies]
  BY DEF PluginsIInv, PluginsTyped
<1>4. \/ /\ ~half /\ copy[id] = Absent /\ Goes(Tail(todo)) /\ copy' = copy /\ cut' = cut
      \/ /\ \E rest \in Remains(copy[id]) : copy' = [copy EXCEPT ![id] = rest]
         /\ half' = TRUE /\ todo' = todo /\ cut' = cut
      \/ /\ copy' = [copy EXCEPT ![id] = Absent]
         /\ cut' = cut \ {id} /\ Goes(Tail(todo))
  BY <1>1, <1>3, Zenon DEF RemoveDir
<1>5. \A i : Touches(todo[1], i) <=> i = id
  BY <1>1, <1>3 DEF Touches
<1>6. CASE (copy[id] = Absent /\ Goes(Tail(todo)) /\ copy' = copy /\ cut' = cut)
           \/ (copy' = [copy EXCEPT ![id] = Absent] /\ cut' = cut \ {id} /\ Goes(Tail(todo)))
  <2>1. todo' = Tail(todo) /\ half' = FALSE
    BY <1>6 DEF Goes
  <2>2. copy' \in [Ids -> Copies] /\ copy'[id] = Absent /\ \A i \in Ids : i # id => copy'[i] = copy[i] /\ (i \in cut => i \in cut')
    BY <1>6, <1>t, CopiesAreTyped
  <2>3. PluginsTyped'
    BY <1>1, <1>2, <2>1, <2>2 DEF PluginsIInv, PluginsTyped
  <2>4. \A i \in Ids : IF ~Touches(todo[1], i) THEN copy'[i] = copy[i] /\ (i \in cut => i \in cut')
                       ELSE IF todo[1].do = "copy" THEN copy'[i] = Whole(todo[1].version)
                       ELSE copy'[i] = Absent
    BY <1>1, <1>5, <2>2
  <2>5. ~half' /\ session' = "up"
    BY <1>1, <1>2, <2>1
  <2> HIDE <1>3
  <2> QED
    BY <1>1, <1>2, <2>1, <2>3, <2>4, <2>5, StepDone
<1>7. ASSUME NEW rest \in Remains(copy[id]), copy' = [copy EXCEPT ![id] = rest], half' = TRUE, todo' = todo, cut' = cut
      PROVE  PluginsIInv'
  <2>1. rest \in Copies
    BY CopiesAreTyped DEF Remains
  <2>2. copy' \in [Ids -> Copies] /\ \A i \in Ids : i # id => copy'[i] = copy[i]
    BY <1>7, <1>t, <2>1
  <2>3. PluginsTyped'
    BY <1>1, <1>2, <1>7, <2>2 DEF PluginsIInv, PluginsTyped
  <2>4. \A i \in Ids : ~Touches(todo[1], i) => copy'[i] = copy[i]
    BY <1>5, <2>2
  <2> HIDE <1>3
  <2> QED
    BY <1>1, <1>2, <1>7, <2>3, <2>4, HalfDone
<1> QED
  BY <1>4, <1>6, <1>7

LEMMA CopyKeeps ==
  ASSUME PluginsIInv, CopyDir
  PROVE  PluginsIInv'
<1>1. /\ todo # <<>> /\ todo \in Seq(PluginSteps) /\ todo[1].do = "copy" /\ Head(todo) = todo[1] /\ todo[1] \in PluginSteps
      /\ Tail(todo) \in Seq(PluginSteps) /\ session = "up"
  BY StepIsUnderWay DEF CopyDir
<1>2. /\ session' = session /\ registry' = registry /\ settings' = settings /\ torn' = torn /\ bundle' = bundle
      /\ source' = source /\ loaded' = loaded /\ lost' = lost /\ acked' = acked /\ wish' = wish
  BY DEF CopyDir
<1>3. PICK id \in Ids : id = todo[1].id
  BY <1>1, StepsAreTyped
<1>v. todo[1].version \in Versions
  BY <1>1, StepsAreTyped
<1>t. copy \in [Ids -> Copies]
  BY DEF PluginsIInv, PluginsTyped
<1>4. \/ /\ \E some \in {Bare, Broken, Partial} : copy' = [copy EXCEPT ![id] = some]
         /\ half' = TRUE /\ todo' = todo /\ cut' = cut
      \/ /\ copy' = [copy EXCEPT ![id] = Whole(todo[1].version)]
         /\ cut' = cut \ {id} /\ Goes(Tail(todo))
  BY <1>1, <1>3, Zenon DEF CopyDir
<1>5. \A i : Touches(todo[1], i) <=> i = id
  BY <1>1, <1>3 DEF Touches
<1>6. CASE copy' = [copy EXCEPT ![id] = Whole(todo[1].version)] /\ cut' = cut \ {id} /\ Goes(Tail(todo))
  <2>1. todo' = Tail(todo) /\ half' = FALSE
    BY <1>6 DEF Goes
  <2>0. Whole(todo[1].version) \in Copies
    BY <1>v, CopiesAreTyped
  <2>2. copy' \in [Ids -> Copies] /\ copy'[id] = Whole(todo[1].version)
        /\ \A i \in Ids : i # id => copy'[i] = copy[i] /\ (i \in cut => i \in cut')
    BY <1>6, <1>t, <2>0
  <2>3. PluginsTyped'
    BY <1>1, <1>2, <2>1, <2>2 DEF PluginsIInv, PluginsTyped
  <2>4. \A i \in Ids : IF ~Touches(todo[1], i) THEN copy'[i] = copy[i] /\ (i \in cut => i \in cut')
                       ELSE IF todo[1].do = "copy" THEN copy'[i] = Whole(todo[1].version)
                       ELSE copy'[i] = Absent
    BY <1>1, <1>5, <2>2
  <2>5. ~half' /\ session' = "up"
    BY <1>1, <1>2, <2>1
  <2> HIDE <1>3
  <2> QED
    BY <1>1, <1>2, <2>1, <2>3, <2>4, <2>5, StepDone
<1>7. ASSUME NEW some \in {Bare, Broken, Partial}, copy' = [copy EXCEPT ![id] = some], half' = TRUE, todo' = todo, cut' = cut
      PROVE  PluginsIInv'
  <2>1. some \in Copies
    BY CopiesAreTyped
  <2>2. copy' \in [Ids -> Copies] /\ \A i \in Ids : i # id => copy'[i] = copy[i]
    BY <1>7, <1>t, <2>1
  <2>3. PluginsTyped'
    BY <1>1, <1>2, <1>7, <2>2 DEF PluginsIInv, PluginsTyped
  <2>4. \A i \in Ids : ~Touches(todo[1], i) => copy'[i] = copy[i]
    BY <1>5, <2>2
  <2> HIDE <1>3
  <2> QED
    BY <1>1, <1>2, <1>7, <2>3, <2>4, HalfDone
<1> QED
  BY <1>4, <1>6, <1>7

LEMMA NothingIsTyped == <<>> \in Records /\ <<>> \in SwitchSets
<1>1. <<>> \in [{} -> Versions] /\ <<>> \in [{} -> BOOLEAN]
  OBVIOUS
<1>2. {} \in SUBSET Ids
  OBVIOUS
<1> QED
  BY <1>1, <1>2 DEF Records, SwitchSets

LEMMA StoreKeeps ==
  ASSUME PluginsIInv, StoreRegistry
  PROVE  PluginsIInv'
<1>1. /\ todo # <<>> /\ todo \in Seq(PluginSteps) /\ todo[1].do = "store" /\ Head(todo) = todo[1] /\ todo[1] \in PluginSteps
      /\ Tail(todo) \in Seq(PluginSteps) /\ session = "up"
  BY StepIsUnderWay DEF StoreRegistry
<1>2. /\ session' = session /\ copy' = copy /\ settings' = settings /\ bundle' = bundle
      /\ source' = source /\ loaded' = loaded /\ lost' = lost /\ acked' = acked /\ wish' = wish /\ cut' = cut
  BY DEF StoreRegistry, history
<1>3. todo[1].records \in Records /\ torn \subseteq {"registry", "settings"}
  BY <1>1, StepsAreTyped DEF PluginsIInv, PluginsTyped
<1>4. \/ /\ registry' = <<>> /\ torn' \in {torn, torn \cup {"registry"}} /\ half' = TRUE /\ todo' = todo
      \/ /\ registry' = todo[1].records /\ torn' = torn \ {"registry"} /\ Goes(Tail(todo))
  BY <1>1 DEF StoreRegistry
<1>5. \A i : ~Touches(todo[1], i)
  BY <1>1 DEF Touches
<1>6. CASE registry' = todo[1].records /\ torn' = torn \ {"registry"} /\ Goes(Tail(todo))
  <2>1. todo' = Tail(todo) /\ half' = FALSE /\ session' = "up" /\ ~half'
    BY <1>1, <1>2, <1>6 DEF Goes
  <2>2. torn' \subseteq {"registry", "settings"}
    BY <1>3, <1>6
  <2>3. PluginsTyped'
    BY <1>1, <1>2, <1>3, <1>6, <2>1, <2>2 DEF PluginsIInv, PluginsTyped
  <2> QED
    BY <1>1, <1>2, <1>5, <1>6, <2>1, <2>3, StepDone
<1>7. CASE registry' = <<>> /\ torn' \in {torn, torn \cup {"registry"}} /\ half' = TRUE /\ todo' = todo
  <2>1. torn' \subseteq {"registry", "settings"}
    BY <1>3, <1>7
  <2>2. PluginsTyped'
    BY <1>1, <1>2, <1>7, <2>1, NothingIsTyped DEF PluginsIInv, PluginsTyped
  <2> QED
    BY <1>1, <1>2, <1>5, <1>7, <2>2, HalfDone
<1> QED
  BY <1>4, <1>6, <1>7

LEMMA SwitchesKeep ==
  ASSUME PluginsIInv, WriteEnabledState
  PROVE  PluginsIInv'
<1>1. /\ todo # <<>> /\ todo \in Seq(PluginSteps) /\ todo[1].do = "switches" /\ Head(todo) = todo[1] /\ todo[1] \in PluginSteps
      /\ Tail(todo) \in Seq(PluginSteps) /\ session = "up"
  BY StepIsUnderWay DEF WriteEnabledState
<1>2. /\ session' = session /\ copy' = copy /\ registry' = registry /\ bundle' = bundle
      /\ source' = source /\ loaded' = loaded /\ lost' = lost /\ acked' = acked /\ wish' = wish /\ cut' = cut
  BY DEF WriteEnabledState, history
<1>3. todo[1].switches \in SwitchSets /\ torn \subseteq {"registry", "settings"}
  BY <1>1, StepsAreTyped DEF PluginsIInv, PluginsTyped
<1>4. \/ /\ settings' = <<>> /\ torn' \in {torn, torn \cup {"settings"}} /\ half' = TRUE /\ todo' = todo
      \/ /\ settings' = todo[1].switches /\ torn' = torn \ {"settings"} /\ Goes(Tail(todo))
  BY <1>1 DEF WriteEnabledState
<1>5. \A i : ~Touches(todo[1], i)
  BY <1>1 DEF Touches
<1>6. CASE settings' = todo[1].switches /\ torn' = torn \ {"settings"} /\ Goes(Tail(todo))
  <2>1. todo' = Tail(todo) /\ half' = FALSE /\ session' = "up" /\ ~half'
    BY <1>1, <1>2, <1>6 DEF Goes
  <2>2. torn' \subseteq {"registry", "settings"}
    BY <1>3, <1>6
  <2>3. PluginsTyped'
    BY <1>1, <1>2, <1>3, <1>6, <2>1, <2>2 DEF PluginsIInv, PluginsTyped
  <2> QED
    BY <1>1, <1>2, <1>5, <1>6, <2>1, <2>3, StepDone
<1>7. CASE settings' = <<>> /\ torn' \in {torn, torn \cup {"settings"}} /\ half' = TRUE /\ todo' = todo
  <2>1. torn' \subseteq {"registry", "settings"}
    BY <1>3, <1>7
  <2>2. PluginsTyped'
    BY <1>1, <1>2, <1>7, <2>1, NothingIsTyped DEF PluginsIInv, PluginsTyped
  <2> QED
    BY <1>1, <1>2, <1>5, <1>7, <2>2, HalfDone
<1> QED
  BY <1>4, <1>6, <1>7

LEMMA ReturnKeeps ==
  ASSUME PluginsIInv, Return
  PROVE  PluginsIInv'
<1>1. /\ todo # <<>> /\ todo \in Seq(PluginSteps) /\ todo[1].do = "ack" /\ Head(todo) = todo[1] /\ todo[1] \in PluginSteps
      /\ Tail(todo) \in Seq(PluginSteps) /\ session = "up"
  BY StepIsUnderWay DEF Return
<1>2. /\ session' = session /\ copy' = copy /\ registry' = registry /\ settings' = settings /\ torn' = torn /\ bundle' = bundle
      /\ source' = source /\ loaded' = loaded /\ lost' = lost /\ cut' = cut /\ todo' = Tail(todo) /\ half' = FALSE
  BY DEF Return, Goes, disk
<1>3. PICK id, v, w : id = todo[1].id /\ v = todo[1].version /\ w = todo[1].wish
  OBVIOUS
<1>4. id \in Ids /\ v \in Versioned /\ w \in Wishes
  BY <1>1, <1>3, StepsAreTyped
<1>5. wish' = [wish EXCEPT ![id] = w] /\ acked' = [acked EXCEPT ![id] = v]
  BY <1>1, <1>3, Zenon DEF Return
<1>6. wish \in [Ids -> Wishes] /\ acked \in [Ids -> Versioned]
  BY DEF PluginsIInv, PluginsTyped
<1>7. wish' \in [Ids -> Wishes] /\ acked' \in [Ids -> Versioned]
  BY <1>4, <1>5, <1>6
<1>8. \A i \in Ids : IF todo[1].do = "ack" /\ todo[1].id = i
                     THEN acked'[i] = todo[1].version /\ wish'[i] = todo[1].wish
                     ELSE acked'[i] = acked[i] /\ wish'[i] = wish[i]
  BY <1>1, <1>3, <1>4, <1>5, <1>6
<1>9. PluginsTyped'
  BY <1>1, <1>2, <1>7 DEF PluginsIInv, PluginsTyped
<1>10. \A i : ~Touches(todo[1], i)
  BY <1>1 DEF Touches
<1>11. ~half' /\ session' = "up"
  BY <1>1, <1>2
<1> HIDE <1>3
<1> QED
  BY <1>1, <1>2, <1>8, <1>9, <1>10, <1>11, StepDone

(* The ends of a session, and what changes between sessions.               *)
LEMMA ExitKeeps ==
  ASSUME PluginsIInv, Exit
  PROVE  PluginsIInv'
<1>1. /\ todo = <<>> /\ todo' = <<>> /\ half' = half /\ session' = "down" /\ loaded' = {}
      /\ copy' = copy /\ registry' = registry /\ settings' = settings /\ torn' = torn /\ bundle' = bundle
      /\ source' = source /\ lost' = lost /\ cut' = cut /\ acked' = acked /\ wish' = wish
  BY DEF Exit, disk, history
<1>2. half = FALSE
  BY <1>1 DEF PluginsIInv, WhatIsCutIsKnown, PluginsTyped
<1>3. PluginsTyped'
  BY <1>1, <1>2, StoppedIsTyped DEF PluginsIInv
<1>4. StartsAgain'
  BY <1>1 DEF StartsAgain
<1> QED
  BY <1>1, <1>2, <1>3, <1>4, Stopped

LEMMA DieKeeps ==
  ASSUME PluginsIInv, Die
  PROVE  PluginsIInv'
<1>1. /\ todo # <<>> /\ todo' = <<>> /\ half' = FALSE /\ session' = "down" /\ loaded' = {}
      /\ copy' = copy /\ registry' = registry /\ settings' = settings /\ torn' = torn /\ bundle' = bundle
      /\ source' = source /\ acked' = acked /\ wish' = wish
  BY DEF Die, disk
<1>2. Head(todo) = todo[1]
  BY <1>1, RestOfPlan DEF PluginsIInv, PluginsTyped
<1>3. cut' = IF half /\ todo[1].do \in {"remove", "copy"} THEN cut \cup {todo[1].id} ELSE cut
  BY <1>2 DEF Die
<1>4. lost' = IF ~half THEN lost
              ELSE lost \cup (IF todo[1].do = "store" THEN {"registry"} ELSE {})
                        \cup (IF todo[1].do = "switches" THEN {"settings"} ELSE {})
  BY <1>1, <1>2 DEF Die, Does
<1>5. PluginsTyped'
  BY <1>1, StoppedIsTyped DEF PluginsIInv
<1>6. StartsAgain'
  BY <1>1 DEF StartsAgain
<1>7. half => /\ \A id \in Ids : Touches(todo[1], id) => id \in cut'
              /\ todo[1].do = "store" => "registry" \in lost'
              /\ todo[1].do = "switches" => "settings" \in lost'
  BY <1>3, <1>4 DEF Touches
<1>8. cut \subseteq cut' /\ lost \subseteq lost'
  BY <1>3, <1>4
<1> HIDE <1>3, <1>4
<1> QED
  BY <1>1, <1>5, <1>6, <1>7, <1>8, Stopped

LEMMA ChangesKeep ==
  ASSUME PluginsIInv, SourceChanges \/ BundleChanges
  PROVE  PluginsIInv'
<1>1. /\ todo = <<>> /\ todo' = todo /\ half' = half /\ session' = session /\ loaded' = loaded
      /\ copy' = copy /\ registry' = registry /\ settings' = settings /\ torn' = torn
      /\ lost' = lost /\ cut' = cut /\ acked' = acked /\ wish' = wish
  BY DEF SourceChanges, BundleChanges, disk, history, PluginsIInv, PluginsTyped
<1>2. source' \in [Names -> Versioned] /\ bundle' \in [Names -> Versioned]
  BY DEF SourceChanges, BundleChanges, PluginsIInv, PluginsTyped, Versioned
<1>3. session' \in {"down", "up", "refused"} /\ (session' = "refused" => FALSE)
  BY <1>1 DEF SourceChanges, BundleChanges, PluginsIInv, PluginsTyped
<1>4. PluginsTyped'
  BY <1>1, <1>2 DEF PluginsIInv, PluginsTyped
<1>5. InOrder(todo)'
  BY <1>1 DEF PluginsIInv, InOrder
<1>6. WhatIsCutIsKnown'
  BY <1>1 DEF PluginsIInv, WhatIsCutIsKnown, Under
<1>7. Len(todo') = 0 /\ 1 .. Len(todo') = {}
  BY <1>1
<1>8. AcksAreEarned' /\ BundledAreRenewed'
  BY <1>7 DEF AcksAreEarned, BundledAreRenewed
<1>9. AckedIsKept'
  <2>1. \A id \in Ids : ~IsBundled(id) /\ acked[id] # 0 =>
          /\ copy[id] = Whole(acked[id])
          /\ "registry" \in lost \/ Under("store") \/ Maps(registry, id, acked[id])
    BY DEF PluginsIInv, AckedIsKept
  <2> QED
    BY <1>1, <1>7, <2>1 DEF AckedIsKept, Under, Maps
<1>10. WishesAreKept'
  <2>1. \A id \in Ids :
          /\ OnlyIfWanted(wish[id], settings, id)
          /\ "settings" \in lost \/ Under("switches") \/ AsWished(wish[id], settings, id)
    BY DEF PluginsIInv, WishesAreKept
  <2> QED
    BY <1>1, <1>7, <2>1 DEF WishesAreKept, OnlyIfWanted, AsWished, Under, Maps
<1>11. StartsAgain'
  BY <1>3 DEF StartsAgain
<1>12. LoadedIsWanted'
  BY <1>1 DEF PluginsIInv, LoadedIsWanted
<1>13. AckedIsLoaded'
  BY <1>1 DEF PluginsIInv, AckedIsLoaded, Shadowed, HasManifest, IdOf
<1> QED
  BY <1>4, <1>5, <1>6, <1>8, <1>9, <1>10, <1>11, <1>12, <1>13 DEF PluginsIInv

LEMMA PluginsInit == Init => PluginsIInv
<1> SUFFICES ASSUME Init PROVE PluginsIInv
  OBVIOUS
<1>1. /\ session = "down" /\ todo = <<>> /\ half = FALSE /\ registry = <<>> /\ settings = <<>> /\ torn = {}
      /\ loaded = {} /\ cut = {} /\ lost = {}
      /\ copy = [id \in Ids |-> Absent] /\ wish = [id \in Ids |-> "none"] /\ acked = [id \in Ids |-> 0]
      /\ source \in [Names -> Versioned] /\ bundle \in [Names -> Versioned]
  BY DEF Init, Versioned
<1>2. copy \in [Ids -> Copies] /\ wish \in [Ids -> Wishes] /\ acked \in [Ids -> Versioned]
  BY <1>1, CopiesAreTyped DEF Wishes, Versioned
<1>3. Len(todo) = 0 /\ 1 .. Len(todo) = {} /\ todo \in Seq(PluginSteps)
  BY <1>1
<1>4. PluginsTyped
  BY <1>1, <1>2, <1>3, NothingIsTyped DEF PluginsTyped
<1>5. InOrder(todo) /\ AcksAreEarned /\ BundledAreRenewed
  BY <1>1, <1>3 DEF InOrder, AcksAreEarned, BundledAreRenewed
<1>6. WhatIsCutIsKnown
  <2>1. \A id \in Ids : copy[id].is = "absent"
    BY <1>1, CopiesAreTyped
  <2> QED
    BY <1>1, <2>1 DEF WhatIsCutIsKnown
<1>7. AckedIsKept
  BY <1>1, <1>3 DEF AckedIsKept
<1>8. WishesAreKept
  <2>1. \A id : \A v : ~Maps(settings, id, v)
    BY <1>1 DEF Maps
  <2> QED
    BY <1>1, <1>3, <2>1 DEF WishesAreKept, OnlyIfWanted, AsWished
<1>9. StartsAgain /\ LoadedIsWanted /\ AckedIsLoaded
  BY <1>1 DEF StartsAgain, LoadedIsWanted, AckedIsLoaded
<1> QED
  BY <1>4, <1>5, <1>6, <1>7, <1>8, <1>9 DEF PluginsIInv

LEMMA PluginsStep == PluginsIInv /\ [Next]_vars => PluginsIInv'
<1> SUFFICES ASSUME PluginsIInv, [Next]_vars PROVE PluginsIInv'
  OBVIOUS
<1>1. ASSUME NEW n \in Names, Install(n) \/ Uninstall(n) PROVE PluginsIInv'
  BY <1>1, InstallKeeps, UninstallKeeps
<1>2. ASSUME NEW id \in Ids, Enable(id) PROVE PluginsIInv'
  BY <1>2, SwitchKeeps, Zenon DEF Enable
<1>3. ASSUME NEW id \in Ids, Disable(id) PROVE PluginsIInv'
  BY <1>3, SwitchKeeps, Zenon DEF Disable
<1>4. ASSUME NEW id \in Ids, Update(id) PROVE PluginsIInv'
  BY <1>4, UpdateKeeps
<1>5. CASE UNCHANGED vars
  BY <1>5 DEF vars, disk, history, PluginsIInv, PluginsTyped, InOrder, WhatIsCutIsKnown, AcksAreEarned,
              AckedIsKept, WishesAreKept, BundledAreRenewed, StartsAgain, LoadedIsWanted, AckedIsLoaded,
              WillBeWhole, WillBeRecorded, WillAgree, Agrees, OnlyIfWanted, AsWished, Maps, Under, Shadowed,
              HasManifest, IdOf, ToolsClash, Enabled, Discovered, IsEnabled, Stores, Renews, Untouched
<1> QED
  BY <1>1, <1>2, <1>3, <1>4, <1>5, StartKeeps, SyncKeeps, ScanKeeps, LoadKeeps, RemoveKeeps, CopyKeeps,
     StoreKeeps, SwitchesKeep, ReturnKeeps, ExitKeeps, DieKeeps, ChangesKeep DEF Next

LEMMA PluginsFollow == PluginsIInv => PluginsInv
<1> SUFFICES ASSUME PluginsIInv PROVE PluginsInv
  OBVIOUS
<1>1. /\ PluginsTyped /\ WhatIsCutIsKnown /\ AckedIsKept /\ WishesAreKept /\ StartsAgain /\ LoadedIsWanted /\ AckedIsLoaded
  BY DEF PluginsIInv
<1>2. TypeOK
  <2>1. \A id \in Ids : copy[id] \in {Absent, Bare, Broken, Partial} \cup {Whole(v) : v \in Versions}
    BY <1>1 DEF PluginsTyped, Copies
  <2>2. DOMAIN registry \subseteq Ids /\ Range(registry) \subseteq Versions
    BY <1>1 DEF PluginsTyped, Records, Range
  <2>3. DOMAIN settings \subseteq Ids /\ Range(settings) \subseteq BOOLEAN
    BY <1>1 DEF PluginsTyped, SwitchSets, Range
  <2>4. half => todo # <<>>
    BY <1>1 DEF WhatIsCutIsKnown
  <2> QED
    BY <1>1, <2>1, <2>2, <2>3, <2>4 DEF TypeOK, PluginsTyped, Wishes, Versioned
<1>3. AckedSurvives
  <2> SUFFICES ASSUME NEW n \in Names, NEW id, id = External(n), acked[id] # 0
      PROVE  /\ copy[id] = Whole(acked[id])
             /\ \/ id \in DOMAIN registry /\ registry[id] = acked[id]
                \/ "registry" \in lost
                \/ Does("store")
             /\ wish[id] = "on" /\ todo = <<>> /\ "settings" \notin lost =>
                  /\ id \in DOMAIN settings /\ settings[id]
                  /\ session = "up" => [id |-> id, from |-> id] \in loaded \/ Shadowed(id)
    BY DEF AckedSurvives
  <2>1. id \in Ids /\ ~IsBundled(id)
    BY IdsOfNames
  <2>2. /\ copy[id] = Whole(acked[id])
        /\ "registry" \in lost \/ Under("store") \/ Maps(registry, id, acked[id])
    BY <1>1, <2>1 DEF AckedIsKept
  <2>3. Under("store") => Does("store")
    <3>1. todo \in Seq(PluginSteps)
      BY <1>1 DEF PluginsTyped
    <3> QED
      BY <3>1, RestOfPlan DEF Under, Does
  <2>4. ASSUME wish[id] = "on", todo = <<>>, "settings" \notin lost
        PROVE  id \in DOMAIN settings /\ settings[id]
    <3>1. AsWished(wish[id], settings, id)
      BY <1>1, <2>1, <2>4 DEF WishesAreKept, Under
    <3> QED
      BY <2>4, <3>1 DEF AsWished, Maps
  <2>5. ASSUME wish[id] = "on", todo = <<>>, "settings" \notin lost, session = "up"
        PROVE  [id |-> id, from |-> id] \in loaded \/ Shadowed(id)
    BY <1>1, <2>1, <2>5 DEF AckedIsLoaded
  <2> QED
    BY <2>2, <2>3, <2>4, <2>5 DEF Maps
<1> QED
  BY <1>1, <1>2, <1>3 DEF PluginsInv

(* For any names, versions and manifests, and any number of deaths: what   *)
(* was installed or updated stays in the version that was reported, what   *)
(* is loaded is wanted by its user and comes from a copy that was not cut, *)
(* and a session that cannot start has one of the three reasons            *)
(* (PluginManager, LiveCli::reload_runtime_features).                      *)
THEOREM CutShortStartsAgain == Spec => []PluginsInv
<1>1. Init => PluginsIInv
  BY PluginsInit
<1>2. PluginsIInv /\ [Next]_vars => PluginsIInv'
  BY PluginsStep
<1>3. PluginsIInv => PluginsInv
  BY PluginsFollow
<1> QED
  BY <1>1, <1>2, <1>3, PTL DEF Spec

-----------------------------------------------------------------------------
(* What plugins declare.  The tools of one definition have one name each;  *)
(* and so many plugins were started, and so many stopped.                  *)
OneNameEach(tools) == \A j, k \in DOMAIN tools : tools[j].name = tools[k].name => j = k
IsList(list) == \E n \in Nat : DOMAIN list = 1 .. n

Progressed(starts, stops) ==
  /\ starts \in Nat /\ started = [k \in 1 .. starts |-> k]
  /\ stops \in Nat /\ stopped = [k \in 1 .. stops |-> Plugins + 1 - k]

(* How far the lifecycle has got says who was started and who stopped; a   *)
(* command that failed may have ended it anywhere.                         *)
LifecycleIsInOrder ==
  CASE collected \in {"unread", "read", "gathered"} -> Progressed(0, 0) /\ at = 0
    [] collected = "initializing" -> at \in Numbers /\ Progressed(at - 1, 0)
    [] collected = "up" -> Progressed(Plugins, 0)
    [] collected = "stopping" -> at \in Numbers /\ Progressed(Plugins, Plugins - at)
    [] collected = "down" -> Progressed(Plugins, Plugins) /\ at = 0
    [] OTHER -> at = 0 /\ \E starts, stops \in Nat : Progressed(starts, stops)

ManifestIInv ==
  /\ collected \in {"unread", "read", "gathered", "initializing", "up", "stopping", "down", "failed"}
  /\ manifest \in [Numbers -> Manifests]
  /\ \A p \in Numbers : OneNameEach(defined[p].tools)
  /\ NamesAreUnique
  /\ LifecycleIsInOrder

(* The lists of a manifest are lists.                                      *)
LEMMA ManifestsAreWellFormed ==
  ASSUME NEW m \in Manifests
  PROVE  IsList(m.tools) /\ IsList(m.permissions)
<1>1. ASSUME NEW n \in Nat, NEW s, NEW S, s \in [1 .. n -> S] PROVE DOMAIN s = 1 .. n
  BY <1>1
<1>2. m.tools \in {<<>>} \cup {<<e>> : e \in ToolEntries} \cup (ToolEntries \X ToolEntries)
  BY DEF Manifests
<1>3. DOMAIN <<>> = 1 .. 0 /\ 0 \in Nat /\ 1 \in Nat /\ 2 \in Nat
  OBVIOUS
<1>4. \A e : DOMAIN <<e>> = 1 .. 1
  OBVIOUS
<1>5. \A e, f : DOMAIN <<e, f>> = 1 .. 2
  OBVIOUS
<1>6. \A t \in ToolEntries \X ToolEntries : t = <<t[1], t[2]>>
  OBVIOUS
<1>7. IsList(m.tools)
  <2>1. CASE m.tools = <<>>
    BY <1>3, <2>1 DEF IsList
  <2>2. CASE m.tools \in {<<e>> : e \in ToolEntries}
    <3>1. DOMAIN m.tools = 1 .. 1
      BY <1>4, <2>2
    <3> QED
      BY <1>3, <3>1, Zenon DEF IsList
  <2>3. CASE m.tools \in ToolEntries \X ToolEntries
    <3>0. m.tools = <<m.tools[1], m.tools[2]>>
      BY <1>6, <2>3, Zenon
    <3>1. DOMAIN m.tools = 1 .. 2
      BY <1>5, <3>0
    <3> QED
      BY <1>3, <3>1, Zenon DEF IsList
  <2> QED
    BY <1>2, <2>1, <2>2, <2>3
<1>8. m.permissions \in {<<>>, <<"read">>, <<"read", "read">>, <<"sudo">>}
  BY DEF Manifests
<1>9. DOMAIN m.permissions = 1 .. 0 \/ DOMAIN m.permissions = 1 .. 1 \/ DOMAIN m.permissions = 1 .. 2
  BY <1>3, <1>4, <1>5, <1>8, Zenon
<1> QED
  BY <1>3, <1>7, <1>9, Zenon DEF IsList

(* Two places that are not the same have an order.                         *)
LEMMA OneComesFirst ==
  ASSUME NEW n \in Nat, NEW j \in 1 .. n, NEW k \in 1 .. n, j # k
  PROVE  j \in 1 .. k - 1 \/ k \in 1 .. j - 1
OBVIOUS

(* The errors are of such an entry, and tell its place.                    *)
Tell(errors, of, k) == \A e \in errors : e.of = of /\ e.entry = k

LEMMA TellingOne ==
  \A of, is, k : Tell({}, of, k) /\ Tell({Wrong(of, is, k)}, of, k) /\ {Wrong(of, is, k)} # {}
BY DEF Tell, Wrong

LEMMA TellingBoth ==
  \A S, T, of, k : Tell(S, of, k) /\ Tell(T, of, k) => Tell(S \cup T, of, k)
BY DEF Tell

(* What is wrong with a command, and with the k-th tool.                   *)
LEMMA CommandsAreTold ==
  \A of, k, command, file :
    /\ Tell(CommandErrors(of, k, command, file), of, k)
    /\ CommandErrors(of, k, command, file) = {} <=> command # "" /\ ~Missing(command, file)
<1> TAKE of, k, command, file
<1>1. CASE command = ""
  BY <1>1, TellingOne, Zenon DEF CommandErrors
<1>2. CASE command # "" /\ Missing(command, file)
  BY <1>2, TellingOne, Zenon DEF CommandErrors
<1>3. CASE command # "" /\ ~Missing(command, file)
  BY <1>3, TellingOne, Zenon DEF CommandErrors
<1> QED
  BY <1>1, <1>2, <1>3, Zenon

ErrorsOf(tools, k, file) ==
  LET t == tools[k]
  IN  IF t.name = "" THEN {Wrong("tool", "without name", k)}
      ELSE IF \E j \in 1 .. k - 1 : tools[j].name = t.name THEN {Wrong("tool", "twice", k)}
      ELSE CommandErrors("tool", k, t.command, file) \cup
           (IF t.permission \notin ToolPermissions THEN {Wrong("tool", "with unknown permission", k)} ELSE {})

(* What is told of the tools is what is told of each.                      *)
LEMMA ToolErrorsAreThoseOfTools ==
  \A tools, file : ToolErrors(tools, file) = UNION {ErrorsOf(tools, k, file) : k \in DOMAIN tools}
BY DEF ToolErrors, ErrorsOf

(* Something is told of a tool exactly if it is defective.                 *)
LEMMA DefectiveToolsAreTold ==
  \A tools, k, file :
    /\ Tell(ErrorsOf(tools, k, file), "tool", k)
    /\ DefectiveTool(tools, k, file) <=> ErrorsOf(tools, k, file) # {}
<1> TAKE tools, k, file
<1> DEFINE named == tools[k].name # ""
           twice == \E j \in 1 .. k - 1 : tools[j].name = tools[k].name
           command == tools[k].command
           allowed == tools[k].permission \in ToolPermissions
           told == CommandErrors("tool", k, command, file)
<1>1. \A is : Tell({Wrong("tool", is, k)}, "tool", k) /\ {Wrong("tool", is, k)} # {}
  BY TellingOne, Zenon
<1>2. Tell(told, "tool", k) /\ (told = {} <=> command # "" /\ ~Missing(command, file))
  BY CommandsAreTold, Zenon
<1>3. DefectiveTool(tools, k, file) <=>
        ~named \/ command = "" \/ ~allowed \/ Missing(command, file) \/ twice
  BY Zenon DEF DefectiveTool
<1>4. ErrorsOf(tools, k, file) =
        IF ~named THEN {Wrong("tool", "without name", k)}
        ELSE IF twice THEN {Wrong("tool", "twice", k)}
        ELSE told \cup (IF ~allowed THEN {Wrong("tool", "with unknown permission", k)} ELSE {})
  BY Zenon DEF ErrorsOf
<1> HIDE DEF named, twice, command, allowed, told
<1>5. CASE ~named
  BY <1>1, <1>3, <1>4, <1>5, Zenon
<1>6. CASE named /\ twice
  BY <1>1, <1>3, <1>4, <1>6, Zenon
<1>7. CASE named /\ ~twice /\ ~allowed
  <2>1. ErrorsOf(tools, k, file) = told \cup {Wrong("tool", "with unknown permission", k)}
    BY <1>4, <1>7, Zenon
  <2>2. Tell(ErrorsOf(tools, k, file), "tool", k)
    <3>1. Tell({Wrong("tool", "with unknown permission", k)}, "tool", k)
      BY <1>1, Zenon
    <3>2. Tell(told \cup {Wrong("tool", "with unknown permission", k)}, "tool", k)
      BY <1>2, <3>1, TellingBoth, Zenon
    <3> QED
      BY <2>1, <3>2
  <2>3. ErrorsOf(tools, k, file) # {}
    BY <2>1, Zenon
  <2> QED
    BY <1>3, <1>7, <2>2, <2>3, Zenon
<1>8. CASE named /\ ~twice /\ allowed
  <2>1. ErrorsOf(tools, k, file) = told
    BY <1>4, <1>8
  <2> QED
    BY <1>2, <1>3, <1>8, <2>1, Zenon
<1> QED
  BY <1>5, <1>6, <1>7, <1>8, Zenon

(* Of what is told, the errors of tools are those that say so.             *)
Of(errors, of) == \A e \in errors : e.of = of

LEMMA TellingIsOf == \A errors, of, k : Tell(errors, of, k) => Of(errors, of)
BY DEF Tell, Of

(* Nothing but a tool is told of as a tool.                                *)
LEMMA OtherErrorsAreNotOfTools ==
  ASSUME NEW m, NEW file
  PROVE  \A e \in ManifestErrors(m, file) : e.of = "tool" <=> e \in ToolErrors(m.tools, file)
<1>2. Of(PermissionErrors(m), "permission")
  <2> SUFFICES ASSUME NEW k \in DOMAIN m.permissions
               PROVE  Of(IF m.permissions[k] = "" THEN {Wrong("permission", "empty", k)}
                         ELSE IF \E j \in 1 .. k - 1 : m.permissions[j] = m.permissions[k]
                              THEN {Wrong("permission", "twice", k)}
                         ELSE IF m.permissions[k] \notin {"read", "write", "execute"}
                              THEN {Wrong("permission", "unknown", k)} ELSE {}, "permission")
    BY Zenon DEF PermissionErrors, Of
  <2> QED
    BY TellingOne, TellingIsOf, Zenon
<1>3. ASSUME NEW commands PROVE Of(LifecycleErrors(commands, file), "lifecycle")
  <2>1. \A k \in DOMAIN commands : Of(CommandErrors("lifecycle", k, commands[k], file), "lifecycle")
    <3> TAKE k \in DOMAIN commands
    <3>1. Tell(CommandErrors("lifecycle", k, commands[k], file), "lifecycle", k)
      BY CommandsAreTold, Zenon
    <3> QED
      BY <3>1, TellingIsOf, Zenon
  <2> QED
    BY <2>1, Zenon DEF LifecycleErrors, Of
<1>4. Of(IF m.named THEN {} ELSE {Wrong("field", "empty", 0)}, "field")
  BY TellingOne, TellingIsOf, Zenon
<1>5. Of(ToolErrors(m.tools, file), "tool")
  <2>1. \A k \in DOMAIN m.tools : Of(ErrorsOf(m.tools, k, file), "tool")
    BY DefectiveToolsAreTold, TellingIsOf, Zenon
  <2>2. ToolErrors(m.tools, file) = UNION {ErrorsOf(m.tools, k, file) : k \in DOMAIN m.tools}
    BY ToolErrorsAreThoseOfTools, Zenon
  <2> QED
    BY <2>1, <2>2, Zenon DEF Of
<1>6. "permission" # "tool" /\ "lifecycle" # "tool" /\ "field" # "tool"
  OBVIOUS
<1> QED
  BY <1>2, <1>3, <1>4, <1>5, <1>6, Zenon DEF ManifestErrors, Of

(* The errors of a manifest name exactly its defective tools.              *)
LEMMA EntriesAreTold ==
  ASSUME NEW m, NEW file
  PROVE  {k \in DOMAIN m.tools : DefectiveTool(m.tools, k, file)}
           = {e.entry : e \in {f \in Definition(m, file).errors : f.of = "tool"}}
<1>1. Definition(m, file).errors = ManifestErrors(m, file)
  BY DEF Definition, Unread
<1> DEFINE E == ManifestErrors(m, file)
           T == ToolErrors(m.tools, file)
<1>2. T \subseteq E
  BY Zenon DEF ManifestErrors
<1>3. {f \in E : f.of = "tool"} = T
  <2>1. \A e \in T : e.of = "tool"
    BY <1>2, OtherErrorsAreNotOfTools, Zenon
  <2>2. \A e \in E : e.of = "tool" => e \in T
    BY OtherErrorsAreNotOfTools, Zenon
  <2> QED
    BY <1>2, <2>1, <2>2, Zenon
<1>4. T = UNION {ErrorsOf(m.tools, k, file) : k \in DOMAIN m.tools}
  BY ToolErrorsAreThoseOfTools, Zenon
<1> HIDE DEF E, T
<1>5. ASSUME NEW k PROVE k \in DOMAIN m.tools /\ DefectiveTool(m.tools, k, file) <=> \E e \in T : k = e.entry
  <2>1. ASSUME k \in DOMAIN m.tools, DefectiveTool(m.tools, k, file) PROVE \E e \in T : k = e.entry
    <3>1. PICK e \in ErrorsOf(m.tools, k, file) : TRUE
      BY <2>1, DefectiveToolsAreTold, Zenon
    <3>2. e \in T /\ k = e.entry
      <4>1. e \in T
        BY <1>4, <2>1, <3>1, Zenon
      <4>2. Tell(ErrorsOf(m.tools, k, file), "tool", k)
        BY DefectiveToolsAreTold, Zenon
      <4>3. k = e.entry
        BY <3>1, <4>2 DEF Tell
      <4> QED
        BY <4>1, <4>3
    <3> QED
      BY <3>2, Zenon
  <2>2. ASSUME NEW e \in T, k = e.entry PROVE k \in DOMAIN m.tools /\ DefectiveTool(m.tools, k, file)
    <3>1. PICK i \in DOMAIN m.tools : e \in ErrorsOf(m.tools, i, file)
      BY <1>4, Zenon
    <3>2. i = k /\ DefectiveTool(m.tools, i, file)
      <4>1. Tell(ErrorsOf(m.tools, i, file), "tool", i)
        BY DefectiveToolsAreTold, Zenon
      <4>2. i = k
        BY <2>2, <3>1, <4>1 DEF Tell
      <4>3. ErrorsOf(m.tools, i, file) # {}
        BY <3>1, Zenon
      <4>4. DefectiveTool(m.tools, i, file)
        BY <4>3, DefectiveToolsAreTold, Zenon
      <4> QED
        BY <4>2, <4>4
    <3> QED
      BY <3>1, <3>2, Zenon
  <2> QED
    BY <2>1, <2>2, Zenon
<1>6. {k \in DOMAIN m.tools : DefectiveTool(m.tools, k, file)} = {e.entry : e \in T}
  BY <1>5, Zenon
<1> QED
  BY <1>1, <1>3, <1>6, Zenon DEF E, T

(* A manifest that is loaded has nothing wrong.                            *)
LEMMA LoadedIsSound ==
  ASSUME NEW m \in Manifests, NEW file
  PROVE  LET d == Definition(m, file)
         IN  /\ OneNameEach(d.tools)
             /\ d.is = "loaded" => m.named /\ "" \notin CommandsOf(d) /\ IsInjective(m.permissions)
<1> DEFINE d == Definition(m, file)
<1>1. CASE ManifestErrors(m, file) # {}
  <2>1. d.is = "refused" /\ d.tools = <<>>
    BY <1>1 DEF Definition, Unread
  <2>2. OneNameEach(<<>>)
    BY DEF OneNameEach
  <2>3. d.is # "loaded"
    BY <2>1
  <2> HIDE DEF d
  <2> QED
    BY <2>1, <2>2, <2>3 DEF d
<1>2. CASE ManifestErrors(m, file) = {}
  <2>1. d.tools = m.tools /\ d.init = m.init /\ d.stop = m.stop
    BY <1>2 DEF Definition
  <2>2. /\ (IF m.named THEN {} ELSE {Wrong("field", "empty", 0)}) = {} /\ PermissionErrors(m) = {}
        /\ ToolErrors(m.tools, file) = {} /\ LifecycleErrors(m.init, file) = {}
        /\ LifecycleErrors(m.stop, file) = {}
    <3> HIDE DEF Wrong
    <3> QED
      BY <1>2, Zenon DEF ManifestErrors
  <2> HIDE DEF d
  <2>3. m.named
    <3>1. Wrong("field", "empty", 0) \notin {}
      OBVIOUS
    <3> HIDE DEF Wrong
    <3> QED
      BY <2>2, <3>1, Zenon
  <2>4. \A k \in DOMAIN m.tools : ~DefectiveTool(m.tools, k, file)
    <3> TAKE k \in DOMAIN m.tools
    <3>1. ToolErrors(m.tools, file) = UNION {ErrorsOf(m.tools, i, file) : i \in DOMAIN m.tools}
      BY ToolErrorsAreThoseOfTools, Zenon
    <3>2. ErrorsOf(m.tools, k, file) = {}
      BY <2>2, <3>1, Zenon
    <3> QED
      BY <3>2, DefectiveToolsAreTold, Zenon
  <2>5. OneNameEach(m.tools)
    <3> SUFFICES ASSUME NEW j \in DOMAIN m.tools, NEW k \in DOMAIN m.tools,
                        m.tools[j].name = m.tools[k].name, j # k
                 PROVE  FALSE
      BY Zenon DEF OneNameEach
    <3>1. PICK n \in Nat : DOMAIN m.tools = 1 .. n
      BY ManifestsAreWellFormed, Zenon DEF IsList
    <3>2. j \in 1 .. k - 1 \/ k \in 1 .. j - 1
      BY <3>1, OneComesFirst, Zenon
    <3> QED
      BY <2>4, <3>2, Zenon DEF DefectiveTool
  <2>6. IsInjective(m.permissions)
    <3> SUFFICES ASSUME NEW j \in DOMAIN m.permissions, NEW k \in DOMAIN m.permissions,
                        m.permissions[j] = m.permissions[k], j # k
                 PROVE  FALSE
      BY Zenon DEF IsInjective
    <3>1. PICK n \in Nat : DOMAIN m.permissions = 1 .. n
      BY ManifestsAreWellFormed, Zenon DEF IsList
    <3>2. j \in 1 .. k - 1 \/ k \in 1 .. j - 1
      BY <3>1, OneComesFirst, Zenon
    <3>3. \A i \in DOMAIN m.permissions : ~\E h \in 1 .. i - 1 : m.permissions[h] = m.permissions[i]
      <4> SUFFICES ASSUME NEW i \in DOMAIN m.permissions,
                          \E h \in 1 .. i - 1 : m.permissions[h] = m.permissions[i]
                   PROVE  FALSE
        BY Zenon
      <4> DEFINE errors(x) == IF m.permissions[x] = "" THEN {Wrong("permission", "empty", x)}
                              ELSE IF \E h \in 1 .. x - 1 : m.permissions[h] = m.permissions[x]
                                   THEN {Wrong("permission", "twice", x)}
                              ELSE IF m.permissions[x] \notin {"read", "write", "execute"}
                                   THEN {Wrong("permission", "unknown", x)} ELSE {}
      <4>1. PermissionErrors(m) = UNION {errors(x) : x \in DOMAIN m.permissions}
        BY DEF PermissionErrors
      <4>2. errors(i) \in {{Wrong("permission", "empty", i)}, {Wrong("permission", "twice", i)}}
        <5>1. CASE m.permissions[i] = ""
          BY <5>1, Zenon
        <5>2. CASE m.permissions[i] # ""
          BY <5>2, Zenon
        <5> QED
          BY <5>1, <5>2
      <4> HIDE DEF errors
      <4>3. errors(i) # {}
        BY <4>2
      <4> QED
        BY <2>2, <4>1, <4>3, Zenon
    <3> QED
      BY <3>2, <3>3, Zenon
  <2>7. ASSUME NEW commands, LifecycleErrors(commands, file) = {}
        PROVE  "" \notin ToSet(commands)
    BY <2>7, Zenon DEF LifecycleErrors, CommandErrors, ToSet
  <2>8. "" \notin {m.tools[k].command : k \in DOMAIN m.tools}
    BY <2>4, Zenon DEF DefectiveTool
  <2>9. "" \notin CommandsOf(d)
    BY <2>1, <2>2, <2>7, <2>8, Zenon DEF CommandsOf
  <2> QED
    BY <2>1, <2>3, <2>5, <2>6, <2>9, Zenon DEF d
<1> QED
  BY <1>1, <1>2

(* No manifest that may be read hides a defect.                            *)
LEMMA EveryDefect ==
  ASSUME ManifestIInv
  PROVE  EveryDefectIsTold
<1> SUFFICES ASSUME NEW p \in Numbers
             PROVE  LET d == Definition(manifest[p], there[p])
                    IN  /\ {k \in DOMAIN manifest[p].tools : DefectiveTool(manifest[p].tools, k, there[p])}
                             = {e.entry : e \in {f \in d.errors : f.of = "tool"}}
                        /\ d.is = "loaded" => /\ manifest[p].named /\ "" \notin CommandsOf(d)
                                              /\ IsInjective(manifest[p].permissions)
  BY Zenon DEF EveryDefectIsTold
<1>1. manifest[p] \in Manifests
  BY DEF ManifestIInv
<1> QED
  BY <1>1, EntriesAreTold, LoadedIsSound, Zenon

(* A list that counts, up or down, goes on when its next member is added.  *)
LEMMA CountingGoesOn ==
  ASSUME NEW n \in Nat
  PROVE  /\ Append([k \in 1 .. n |-> k], n + 1) = [k \in 1 .. n + 1 |-> k]
         /\ Append([k \in 1 .. n |-> Plugins + 1 - k], Plugins + 1 - (n + 1))
              = [k \in 1 .. n + 1 |-> Plugins + 1 - k]
<1>1. Plugins \in Nat
  BY ManifestAssumption
<1> QED
  BY <1>1

(* Names stay unique once the tools are gathered.                          *)
LEMMA NamesHold ==
  ASSUME ManifestIInv, [ManifestNext]_manifestVars
  PROVE  NamesAreUnique' /\ (\A p \in Numbers : OneNameEach(defined[p].tools))'
<1>1. NamesAreUnique /\ \A p \in Numbers : OneNameEach(defined[p].tools)
  BY DEF ManifestIInv
<1>2. CASE UNCHANGED <<defined, collected>>
  BY <1>1, <1>2 DEF NamesAreUnique
<1>3. CASE LoadPlugins
  <2>1. collected' \in {"failed", "read"} /\ defined' = [p \in Numbers |-> Definition(manifest[p], there[p])]
    BY <1>3 DEF LoadPlugins
  <2>2. \A p \in Numbers : OneNameEach(Definition(manifest[p], there[p]).tools)
    BY LoadedIsSound DEF ManifestIInv
  <2> QED
    BY <2>1, <2>2 DEF NamesAreUnique
<1>4. CASE AggregateTools
  <2>1. UNCHANGED defined /\ collected' \in {"gathered", "failed"}
    BY <1>4 DEF AggregateTools
  <2>2. ASSUME collected' = "gathered" PROVE NamesAreUnique'
    <3>1. \A p, q \in Numbers : p # q => ToolNames(p) \cap ToolNames(q) = {}
      BY <1>4, <2>2 DEF AggregateTools
    <3> SUFFICES ASSUME NEW p \in Numbers, NEW q \in Numbers,
                        NEW j \in DOMAIN defined[p].tools, NEW k \in DOMAIN defined[q].tools,
                        defined[p].tools[j].name = defined[q].tools[k].name
                 PROVE  p = q /\ j = k
      BY <2>1, Zenon DEF NamesAreUnique
    <3>2. p = q
      <4>1. defined[p].tools[j].name \in ToolNames(p) /\ defined[q].tools[k].name \in ToolNames(q)
        BY Zenon DEF ToolNames
      <4> QED
        BY <3>1, <4>1, Zenon
    <3> QED
      BY <1>1, <3>2, Zenon DEF OneNameEach
  <2>3. ASSUME collected' = "failed" PROVE NamesAreUnique'
    BY <2>3 DEF NamesAreUnique
  <2> QED
    BY <1>1, <2>1, <2>2, <2>3
<1>5. CASE Initialize \/ InitializePlugin \/ Shutdown \/ ShutdownPlugin
  <2>1. /\ collected \in {"gathered", "initializing", "up", "stopping"} /\ UNCHANGED defined
    BY <1>5 DEF Initialize, InitializePlugin, Shutdown, ShutdownPlugin
  <2> QED
    BY <1>1, <2>1 DEF NamesAreUnique
<1>6. CASE StartAgain
  <2>1. collected' = "unread" /\ defined' = [p \in Numbers |-> Unread]
    BY <1>6 DEF StartAgain
  <2>2. OneNameEach(Unread.tools)
    BY DEF Unread, OneNameEach
  <2> QED
    BY <2>1, <2>2 DEF NamesAreUnique
<1> QED
  BY <1>2, <1>3, <1>4, <1>5, <1>6
     DEF ManifestNext, WriteManifest, MoveFile, manifestVars

(* A step of the lifecycle takes the next plugin in its order.             *)
LEMMA OrderHolds ==
  ASSUME ManifestIInv, [ManifestNext]_manifestVars
  PROVE  LifecycleIsInOrder'
<1>1. LifecycleIsInOrder /\ Plugins \in Nat \ {0}
  BY ManifestAssumption DEF ManifestIInv
<1>2. CASE UNCHANGED <<collected, at, started, stopped>>
  BY <1>1, <1>2 DEF LifecycleIsInOrder, Progressed
<1>3. CASE LoadPlugins \/ AggregateTools
  <2>1. Progressed(0, 0) /\ at = 0 /\ UNCHANGED <<at, started, stopped>>
        /\ collected' \in {"read", "gathered", "failed"}
    BY <1>1, <1>3 DEF LoadPlugins, AggregateTools, LifecycleIsInOrder
  <2> QED
    BY <2>1 DEF LifecycleIsInOrder, Progressed
<1>4. CASE Initialize
  BY <1>1, <1>4 DEF Initialize, LifecycleIsInOrder, Progressed, Numbers
<1>5. CASE InitializePlugin
  <2>1. at \in Numbers /\ Progressed(at - 1, 0)
    BY <1>1, <1>5 DEF InitializePlugin, LifecycleIsInOrder
  <2>2. CASE started' = Append(started, at)
             /\ (IF at = Plugins THEN collected' = "up" /\ at' = 0 ELSE at' = at + 1 /\ UNCHANGED collected)
             /\ UNCHANGED stopped
    <3>1. started' = [k \in 1 .. at |-> k]
      BY <2>1, <2>2, CountingGoesOn DEF Progressed, Numbers
    <3>2. stopped' = [k \in 1 .. 0 |-> Plugins + 1 - k]
      BY <2>1, <2>2 DEF Progressed
    <3>3. CASE at = Plugins
      <4>1. collected' = "up" /\ Progressed(Plugins, 0)'
        BY <1>1, <2>2, <3>1, <3>2, <3>3 DEF Progressed
      <4> QED
        BY <4>1 DEF LifecycleIsInOrder
    <3>4. CASE at # Plugins
      <4>1. collected' = "initializing" /\ at' = at + 1
        BY <1>5, <2>2, <3>4 DEF InitializePlugin
      <4>2. at' \in Numbers /\ at' - 1 = at /\ at \in Nat
        BY <1>1, <2>1, <3>4, <4>1 DEF Numbers
      <4>3. Progressed(at - 1, 0)'
        BY <3>1, <3>2, <4>2 DEF Progressed
      <4> QED
        BY <4>1, <4>2, <4>3 DEF LifecycleIsInOrder
    <3> QED
      BY <3>3, <3>4
  <2>3. CASE collected' = "failed" /\ at' = 0 /\ UNCHANGED <<started, stopped>>
    BY <1>1, <2>1, <2>3 DEF LifecycleIsInOrder, Progressed, Numbers
  <2> QED
    BY <1>5, <2>2, <2>3 DEF InitializePlugin
<1>6. CASE Shutdown
  BY <1>1, <1>6 DEF Shutdown, LifecycleIsInOrder, Progressed, Numbers
<1>7. CASE ShutdownPlugin
  <2>1. at \in Numbers /\ Progressed(Plugins, Plugins - at)
    BY <1>1, <1>7 DEF ShutdownPlugin, LifecycleIsInOrder
  <2>2. CASE stopped' = Append(stopped, at)
             /\ (IF at = 1 THEN collected' = "down" /\ at' = 0 ELSE at' = at - 1 /\ UNCHANGED collected)
             /\ UNCHANGED started
    <3>1. stopped' = [k \in 1 .. Plugins + 1 - at |-> Plugins + 1 - k]
      <4> DEFINE n == Plugins - at
      <4>1. n \in Nat /\ at = Plugins + 1 - (n + 1) /\ n + 1 = Plugins + 1 - at
        BY <1>1, <2>1 DEF Numbers
      <4>2. stopped = [k \in 1 .. n |-> Plugins + 1 - k]
        BY <2>1 DEF Progressed
      <4> HIDE DEF n
      <4>3. Append(stopped, at) = [k \in 1 .. n + 1 |-> Plugins + 1 - k]
        BY <4>1, <4>2, CountingGoesOn
      <4> QED
        BY <2>2, <4>1, <4>3
    <3>2. started' = [k \in 1 .. Plugins |-> k]
      BY <2>1, <2>2 DEF Progressed
    <3>3. CASE at = 1
      <4>1. collected' = "down" /\ at' = 0 /\ Plugins + 1 - at = Plugins
        BY <1>1, <2>2, <3>3
      <4>2. Progressed(Plugins, Plugins)'
        BY <1>1, <3>1, <3>2, <4>1 DEF Progressed
      <4> QED
        BY <4>1, <4>2 DEF LifecycleIsInOrder
    <3>4. CASE at # 1
      <4>1. collected' = "stopping" /\ at' = at - 1
        BY <1>7, <2>2, <3>4 DEF ShutdownPlugin
      <4>2. at' \in Numbers /\ Plugins - at' = Plugins + 1 - at /\ Plugins + 1 - at \in Nat
        BY <1>1, <2>1, <3>4, <4>1 DEF Numbers
      <4>3. Progressed(Plugins, Plugins - at)'
        BY <1>1, <3>1, <3>2, <4>2 DEF Progressed
      <4> QED
        BY <4>1, <4>2, <4>3 DEF LifecycleIsInOrder
    <3> QED
      BY <3>3, <3>4
  <2>3. CASE collected' = "failed" /\ at' = 0 /\ UNCHANGED <<started, stopped>>
    BY <1>1, <2>1, <2>3 DEF LifecycleIsInOrder, Progressed, Numbers
  <2> QED
    BY <1>7, <2>2, <2>3 DEF ShutdownPlugin
<1>8. CASE StartAgain
  <2>1. at' = 0 /\ collected' = "unread" /\ started' = <<>> /\ stopped' = <<>>
    BY <1>1, <1>8 DEF StartAgain, LifecycleIsInOrder
  <2> QED
    BY <2>1 DEF LifecycleIsInOrder, Progressed
<1> QED
  BY <1>2, <1>3, <1>4, <1>5, <1>6, <1>7, <1>8
     DEF ManifestNext, WriteManifest, MoveFile, manifestVars

LEMMA ManifestStarts == ManifestInit => ManifestIInv
<1> SUFFICES ASSUME ManifestInit PROVE ManifestIInv
  OBVIOUS
<1>1. Plain \in Manifests
  BY DEF Plain, Manifests
<1>2. OneNameEach(Unread.tools)
  BY DEF Unread, OneNameEach
<1>3. manifest \in [Numbers -> Manifests]
  BY <1>1 DEF ManifestInit
<1>4. LifecycleIsInOrder
  BY DEF ManifestInit, LifecycleIsInOrder, Progressed
<1> QED
  BY <1>2, <1>3, <1>4 DEF ManifestInit, ManifestIInv, NamesAreUnique

LEMMA ManifestHolds == ManifestIInv /\ [ManifestNext]_manifestVars => ManifestIInv'
<1> SUFFICES ASSUME ManifestIInv, [ManifestNext]_manifestVars PROVE ManifestIInv'
  OBVIOUS
<1>1. NamesAreUnique' /\ (\A p \in Numbers : OneNameEach(defined[p].tools))'
  BY NamesHold
<1>2. LifecycleIsInOrder'
  BY OrderHolds
<1>3. (manifest \in [Numbers -> Manifests])'
  <2>1. manifest \in [Numbers -> Manifests]
    BY DEF ManifestIInv
  <2>2. ASSUME NEW p \in Numbers, WriteManifest(p) PROVE manifest' \in [Numbers -> Manifests]
    <3>1. PICK m \in Manifests : manifest' = [manifest EXCEPT ![p] = m]
      BY <2>2 DEF WriteManifest
    <3> QED
      BY <2>1, <3>1
  <2> QED
    BY <2>1, <2>2 DEF ManifestNext, MoveFile, LoadPlugins, AggregateTools, Initialize,
       InitializePlugin, Shutdown, ShutdownPlugin, StartAgain, manifestVars
<1>4. (collected \in {"unread", "read", "gathered", "initializing", "up", "stopping", "down", "failed"})'
  BY DEF ManifestIInv, ManifestNext, WriteManifest, MoveFile, LoadPlugins, AggregateTools, Initialize,
     InitializePlugin, Shutdown, ShutdownPlugin, StartAgain, manifestVars
<1> QED
  BY <1>1, <1>2, <1>3, <1>4 DEF ManifestIInv

(* The order of starts and stops follows.                                  *)
LEMMA OrderFollows == LifecycleIsInOrder => LastStartedStopsFirst
<1> SUFFICES ASSUME LifecycleIsInOrder PROVE LastStartedStopsFirst
  OBVIOUS
<1>1. PICK starts \in Nat, stops \in Nat : Progressed(starts, stops)
  BY DEF LifecycleIsInOrder, Progressed
<1>2. collected = "down" => Progressed(Plugins, Plugins)
  BY DEF LifecycleIsInOrder
<1>3. started = [k \in DOMAIN started |-> k] /\ stopped = [k \in DOMAIN stopped |-> Plugins + 1 - k]
  BY <1>1 DEF Progressed
<1>4. collected = "down" => Len(started) = Plugins /\ Len(stopped) = Plugins
  BY <1>2 DEF Progressed
<1> QED
  BY <1>3, <1>4 DEF LastStartedStopsFirst

(* For any number of plugins and any tools they may declare: a manifest is *)
(* refused exactly if something in it is wrong and every defective tool is *)
(* told, the tools that were gathered have one name each across all        *)
(* plugins, and plugins stop in the reverse of the order they started in   *)
(* (build_plugin_manifest, aggregated_tools, initialize, shutdown).        *)
THEOREM PluginsAreAsDeclared == ManifestSpec => []ManifestInv
<1>1. ManifestIInv => ManifestInv
  BY EveryDefect, OrderFollows DEF ManifestIInv, ManifestInv
<1> QED
  BY <1>1, ManifestStarts, ManifestHolds, PTL DEF ManifestSpec

-----------------------------------------------------------------------------
(* The settings.  A file that does not parse has no values, ...            *)
SettingsTyped ==
  /\ SettingsTypeOK /\ files = [f \in Entries |-> files[f]]
  /\ \A f \in broken : files[f] = Empty

(* ... and what the last change did is so as it was reported.              *)
SettingsIInv == SettingsTyped /\ ProgramKeepsThemReadable /\ WhatWasSetIsRead

PathNames == {"model", "permissionMode", "permissions", "defaultMode", "enabledPlugin", "pluginsEnabled",
              "othersEnabled", "mcpServer"}

(* The paths, and which of them lie on another.                            *)
LEMMA ThePaths ==
  /\ Paths = PathNames /\ Entries = {1, 2, 3, 4, 5}
  /\ \A p \in Paths : Clears(p) = IF p = "defaultMode" THEN {"permissions"}
                                  ELSE IF p = "permissions" THEN {"defaultMode"} ELSE {}
<1>1. Paths = PathNames
  BY DEF Paths, Values, PathNames
<1>2. Entries = {1, 2, 3, 4, 5}
  BY DEF Entries, UserLegacy, Local
<1>3. DOMAIN Parent = {"defaultMode"} /\ Parent["defaultMode"] = "permissions"
  BY DEF Parent
<1>4. ASSUME NEW p \in PathNames
      PROVE  Clears(p) = IF p = "defaultMode" THEN {"permissions"}
                         ELSE IF p = "permissions" THEN {"defaultMode"} ELSE {}
  BY <1>3 DEF Clears, PathNames
<1> QED
  BY <1>1, <1>2, <1>4

(* What a path replaces replaces it.                                       *)
LEMMA ClearsArePaths ==
  /\ \A p \in Paths : Clears(p) \subseteq Paths
  /\ \A p, q, r \in Paths : r \in Clears(q) /\ r \in {p} \cup Clears(p) => q \in {p} \cup Clears(p)
BY ThePaths DEF PathNames

(* What is at a path when all files are read is what the last file says    *)
(* that decides it.                                                        *)
Layer(f, p, below) == IF Decides(f, p) THEN files[f][p] ELSE below
Layers(p) == Layer(5, p, Layer(4, p, Layer(3, p, Layer(2, p, Layer(1, p, Unset)))))

LEMMA MergingOne ==
  ASSUME SettingsTyped
  PROVE  \A o : \A f \in Entries, p \in Paths : MergeFile(o, f)[p] = Layer(f, p, o[p])
<1> TAKE o
<1> TAKE f \in Entries, p \in Paths
<1>1. Clears(p) \subseteq Paths
  BY ClearsArePaths
<1>2. CASE f \in broken
  <2>1. \A q \in Paths : files[f][q] = Unset
    BY <1>2 DEF SettingsTyped, Empty
  <2>2. ~Decides(f, p)
    BY <1>1, <2>1 DEF Decides, Has
  <2> QED
    BY <1>2, <2>2, Zenon DEF MergeFile, Layer
<1>3. CASE f \notin broken
  <2>1. MergeFile(o, f)[p] = IF files[f][p] # Unset THEN files[f][p]
                             ELSE IF \E q \in Clears(p) : files[f][q] # Unset THEN Unset ELSE o[p]
    BY <1>3 DEF MergeFile, DeepMerge
  <2>2. Decides(f, p) <=> files[f][p] # Unset \/ \E q \in Clears(p) : files[f][q] # Unset
    BY DEF Decides, Has
  <2> QED
    BY <2>1, <2>2 DEF Layer
<1> QED
  BY <1>2, <1>3

LEMMA MergedIsLayers == SettingsTyped => \A p \in Paths : Merged[p] = Layers(p)
<1> SUFFICES ASSUME SettingsTyped, NEW p \in Paths PROVE Merged[p] = Layers(p)
  OBVIOUS
<1> DEFINE m1 == MergeFile(Empty, 1)
           m2 == MergeFile(m1, 2)
           m3 == MergeFile(m2, 3)
           m4 == MergeFile(m3, 4)
           m5 == MergeFile(m4, 5)
<1>1. Empty[p] = Unset
  BY DEF Empty
<1>2. \A o : \A f \in Entries : MergeFile(o, f)[p] = Layer(f, p, o[p])
  BY MergingOne
<1>3. 1 \in Entries /\ 2 \in Entries /\ 3 \in Entries /\ 4 \in Entries /\ 5 \in Entries
  BY ThePaths
<1>4. Merged = m5
  BY DEF Merged, UserLegacy, User, ProjectLegacy, Project, Local
<1>5. m1[p] = Layer(1, p, Unset)
  BY <1>1, <1>2, <1>3, Zenon
<1>6. m2[p] = Layer(2, p, m1[p])
  BY <1>2, <1>3, Zenon
<1>7. m3[p] = Layer(3, p, m2[p])
  BY <1>2, <1>3, Zenon
<1>8. m4[p] = Layer(4, p, m3[p])
  BY <1>2, <1>3, Zenon
<1>9. m5[p] = Layer(5, p, m4[p])
  BY <1>2, <1>3, Zenon
<1> HIDE DEF m1, m2, m3, m4, m5
<1> QED
  BY <1>4, <1>5, <1>6, <1>7, <1>8, <1>9, Zenon DEF Layers

(* What is merged is an object, whatever it was merged from.               *)
LEMMA MergedIsAnObject == Merged = [p \in Paths |-> Merged[p]]
<1> DEFINE Object(o) == o = [p \in Paths |-> o[p]]
<1>1. Object(Empty)
  BY DEF Empty
<1>2. \A o, f : Object(o) => Object(MergeFile(o, f))
  BY DEF MergeFile, DeepMerge
<1> HIDE DEF Object
<1>3. Object(Merged)
  BY <1>1, <1>2, Zenon DEF Merged
<1> QED
  BY <1>3, Zenon DEF Object

(* The last file that decides is the one that is chosen.                   *)
LEMMA LastIsChosen ==
  ASSUME NEW p \in Paths, NEW k \in Entries, Decides(k, p), \A g \in k + 1 .. 5 : ~Decides(g, p)
  PROVE  (CHOOSE f \in Entries : Decides(f, p) /\ \A g \in f + 1 .. Local : ~Decides(g, p)) = k
<1> DEFINE LastOne(f) == Decides(f, p) /\ \A g \in f + 1 .. Local : ~Decides(g, p)
<1>1. LastOne(k)
  BY DEF Local
<1>2. ASSUME NEW f \in Entries, LastOne(f) PROVE f = k
  <2>1. k \notin f + 1 .. 5 /\ f \notin k + 1 .. 5
    BY <1>1, <1>2 DEF Local
  <2> QED
    BY <2>1, ThePaths
<1> HIDE DEF LastOne
<1>3. (CHOOSE f \in Entries : LastOne(f)) = k
  BY <1>1, <1>2
<1> QED
  BY <1>3 DEF LastOne

(* So the last file that decides a path says what is there.                *)
LEMMA LastDecides == SettingsTyped => LastFileDecides
<1> SUFFICES ASSUME SettingsTyped PROVE LastFileDecides
  OBVIOUS
<1> DEFINE LastOne(p) == CHOOSE f \in Entries : Decides(f, p) /\ \A g \in f + 1 .. Local : ~Decides(g, p)
           Said(p) == IF \E f \in Entries : Decides(f, p) THEN files[LastOne(p)][p] ELSE Unset
<1>1. ASSUME NEW p \in Paths PROVE Merged[p] = Said(p)
  <2>1. Merged[p] = Layers(p)
    BY MergedIsLayers
  <2>2. ASSUME NEW k \in Entries, Decides(k, p), \A g \in k + 1 .. 5 : ~Decides(g, p)
        PROVE  Said(p) = files[k][p]
    <3>1. LastOne(p) = k
      BY <2>2, LastIsChosen
    <3> HIDE DEF LastOne
    <3> QED
      BY <2>2, <3>1
  <2>3. Entries = {1, 2, 3, 4, 5}
    BY ThePaths
  <2>4. (\A f \in Entries : ~Decides(f, p)) => Said(p) = Unset
    OBVIOUS
  <2> HIDE DEF Said
  <2>5. CASE Decides(5, p)
    <3>1. Said(p) = files[5][p]
      BY <2>2, <2>3, <2>5
    <3> QED
      BY <2>1, <2>5, <3>1 DEF Layers, Layer
  <2>6. CASE ~Decides(5, p) /\ Decides(4, p)
    <3>1. \A g \in 4 + 1 .. 5 : g = 5
      OBVIOUS
    <3>2. Said(p) = files[4][p]
      BY <2>2, <2>3, <2>6, <3>1
    <3> QED
      BY <2>1, <2>6, <3>2 DEF Layers, Layer
  <2>7. CASE ~Decides(5, p) /\ ~Decides(4, p) /\ Decides(3, p)
    <3>1. \A g \in 3 + 1 .. 5 : g = 5 \/ g = 4
      OBVIOUS
    <3>2. Said(p) = files[3][p]
      BY <2>2, <2>3, <2>7, <3>1
    <3> QED
      BY <2>1, <2>7, <3>2 DEF Layers, Layer
  <2>8. CASE ~Decides(5, p) /\ ~Decides(4, p) /\ ~Decides(3, p) /\ Decides(2, p)
    <3>1. \A g \in 2 + 1 .. 5 : g = 5 \/ g = 4 \/ g = 3
      OBVIOUS
    <3>2. Said(p) = files[2][p]
      BY <2>2, <2>3, <2>8, <3>1
    <3> QED
      BY <2>1, <2>8, <3>2 DEF Layers, Layer
  <2>9. CASE ~Decides(5, p) /\ ~Decides(4, p) /\ ~Decides(3, p) /\ ~Decides(2, p) /\ Decides(1, p)
    <3>1. \A g \in 1 + 1 .. 5 : g = 5 \/ g = 4 \/ g = 3 \/ g = 2
      OBVIOUS
    <3>2. Said(p) = files[1][p]
      BY <2>2, <2>3, <2>9, <3>1
    <3> QED
      BY <2>1, <2>9, <3>2 DEF Layers, Layer
  <2>10. CASE ~Decides(5, p) /\ ~Decides(4, p) /\ ~Decides(3, p) /\ ~Decides(2, p) /\ ~Decides(1, p)
    BY <2>1, <2>3, <2>4, <2>10 DEF Layers, Layer
  <2> QED
    BY <2>5, <2>6, <2>7, <2>8, <2>9, <2>10
<1>2. Merged = [p \in Paths |-> Merged[p]]
  BY MergedIsAnObject
<1>3. Merged = [p \in Paths |-> Said(p)]
  BY <1>1, <1>2
<1> QED
  BY <1>3, Zenon DEF LastFileDecides

(* And the last file that names a server says which it is.                 *)
LEMMA ServersFollow == SettingsTyped => ServersAreWhole
<1> SUFFICES ASSUME SettingsTyped, NEW f \in Entries, Has(f, "mcpServer"),
                    \A g \in f + 1 .. Local : ~Has(g, "mcpServer")
             PROVE  McpServers = [config |-> files[f].mcpServer, scope |-> Source(f)]
  BY DEF ServersAreWhole
<1> DEFINE named == [config |-> files[f].mcpServer, scope |-> Source(f)]
           s1 == MergeServer(NoServer, 1)
           s2 == MergeServer(s1, 2)
           s3 == MergeServer(s2, 3)
           s4 == MergeServer(s3, 4)
           s5 == MergeServer(s4, 5)
<1>1. f \notin broken
  BY ThePaths DEF SettingsTyped, Has, Empty, PathNames
<1>2. \A s : MergeServer(s, f) = named
  BY <1>1 DEF MergeServer, Has
<1>3. \A s, g : ~Has(g, "mcpServer") => MergeServer(s, g) = s
  BY DEF MergeServer, Has
<1>4. McpServers = s5
  BY DEF McpServers, UserLegacy, User, ProjectLegacy, Project, Local
<1>5. f \in {1, 2, 3, 4, 5} /\ \A g \in f + 1 .. 5 : ~Has(g, "mcpServer")
  BY ThePaths DEF Local
<1>6. /\ f = 1 => ~Has(2, "mcpServer")
      /\ f <= 2 => ~Has(3, "mcpServer")
      /\ f <= 3 => ~Has(4, "mcpServer")
      /\ f <= 4 => ~Has(5, "mcpServer")
  BY <1>5
<1> HIDE DEF named
<1>7. f = 5 => s5 = named
  BY <1>2, Zenon
<1>8. f = 4 => s4 = named
  BY <1>2, Zenon
<1>9. f = 3 => s3 = named
  BY <1>2, Zenon
<1>10. f = 2 => s2 = named
  BY <1>2, Zenon
<1>11. f = 1 => s1 = named
  BY <1>2, Zenon
<1>12. ~Has(2, "mcpServer") => s2 = s1
  BY <1>3, Zenon
<1>13. ~Has(3, "mcpServer") => s3 = s2
  BY <1>3, Zenon
<1>14. ~Has(4, "mcpServer") => s4 = s3
  BY <1>3, Zenon
<1>15. ~Has(5, "mcpServer") => s5 = s4
  BY <1>3, Zenon
<1> HIDE DEF s1, s2, s3, s4, s5
<1>16. s5 = named
  BY <1>5, <1>6, <1>7, <1>8, <1>9, <1>10, <1>11, <1>12, <1>13, <1>14, <1>15
<1> QED
  BY <1>4, <1>16 DEF named

(* A change of one path leaves the others, but for what it replaces.       *)
Sets(c, p, v) == files' = [files EXCEPT ![c] = Put(@, p, v)]
SameAt(f, q) == files'[f][q] = files[f][q] /\ (Decides(f, q)' <=> Decides(f, q))

LEMMA ChangeKeepsOthers ==
  ASSUME SettingsTyped, NEW c \in Entries, NEW p \in Paths, NEW v, Sets(c, p, v)
  PROVE  /\ files'[c][p] = v
         /\ \A f \in Entries, q \in Paths : f # c \/ q \notin {p} \cup Clears(p) => SameAt(f, q)
<1>1. files'[c] = Put(files[c], p, v) /\ \A f \in Entries \ {c} : files'[f] = files[f]
  <2>1. files = [f \in Entries |-> files[f]]
    BY DEF SettingsTyped
  <2> QED
    BY <2>1 DEF Sets
<1>2. \A q \in Paths : files'[c][q] = IF q = p THEN v ELSE IF q \in Clears(p) THEN Unset ELSE files[c][q]
  BY <1>1 DEF Put
<1>3. \A f \in Entries, q \in Paths :
        f # c \/ q \notin {p} \cup Clears(p) => files'[f][q] = files[f][q]
  BY <1>1, <1>2
<1>4. ASSUME NEW f \in Entries, NEW q \in Paths, f # c \/ q \notin {p} \cup Clears(p)
      PROVE  SameAt(f, q)
  <2>1. \A r \in {q} \cup Clears(q) : r \in Paths /\ (f # c \/ r \notin {p} \cup Clears(p))
    BY <1>4, ClearsArePaths
  <2>2. \A r \in {q} \cup Clears(q) : files'[f][r] = files[f][r]
    BY <1>3, <2>1
  <2> QED
    BY <2>2 DEF Decides, Has, SameAt
<1> QED
  BY <1>2, <1>4

LEMMA MergedIsLayersThen == SettingsTyped' => (\A p \in Paths : Merged[p] = Layers(p))'
BY MergedIsLayers, PTL

LEMMA MergedKeepsOthers ==
  ASSUME SettingsTyped, SettingsTyped', NEW c \in Entries, NEW p \in Paths, NEW v, Sets(c, p, v)
  PROVE  \A q \in Paths \ ({p} \cup Clears(p)) : Merged'[q] = Merged[q]
<1> TAKE q \in Paths \ ({p} \cup Clears(p))
<1>1. \A f \in Entries : SameAt(f, q)
  BY ChangeKeepsOthers, Zenon
<1>2. Merged[q] = Layers(q)
  BY MergedIsLayers
<1>3. Merged'[q] = Layers(q)'
  BY MergedIsLayersThen
<1>4. 1 \in Entries /\ 2 \in Entries /\ 3 \in Entries /\ 4 \in Entries /\ 5 \in Entries
  BY ThePaths
<1>5. Layers(q)' = Layers(q)
  BY <1>1, <1>4, Zenon DEF Layer, Layers, SameAt
<1> QED
  BY <1>2, <1>3, <1>5, Zenon

(* Every change is of a path, to a value it may have.                      *)
LEMMA SettingsStayTyped ==
  ASSUME SettingsTyped, [SettingsNext]_settingsVars
  PROVE  SettingsTyped'
<1>1. /\ files = [f \in Entries |-> files[f]] /\ \A f \in broken : files[f] = Empty
      /\ broken \subseteq Entries /\ changes \in 0 .. MaxChanges
      /\ \A f \in Entries, p \in Paths :
           files[f][p] \in Values[p] \cup {Unset, "haiku"} \cup (IF p = "defaultMode" THEN ModeLabels ELSE {})
  BY DEF SettingsTyped, SettingsTypeOK
<1>2. MaxChanges \in Nat
  BY SettingsAssumption
<1>3. ASSUME NEW f \in Entries, NEW by, NEW p \in Paths, NEW v, Change(f, by, p, v),
             v \in Values[p] \cup {Unset, "haiku"} \cup (IF p = "defaultMode" THEN ModeLabels ELSE {})
      PROVE  SettingsTyped'
  <2>1. f \notin broken /\ UNCHANGED broken /\ changes' = changes + 1 /\ changes < MaxChanges
        /\ files' = [files EXCEPT ![f] = Put(@, p, v)]
    BY <1>3 DEF Change
  <2>2. files' = [g \in Entries |-> files'[g]] /\ \A g \in Entries \ {f} : files'[g] = files[g]
    BY <1>1, <2>1
  <2>3. \A g \in Entries, q \in Paths :
          files'[g][q] \in Values[q] \cup {Unset, "haiku"} \cup (IF q = "defaultMode" THEN ModeLabels ELSE {})
    <3>1. files'[f] = Put(files[f], p, v)
      BY <1>1, <2>1
    <3>2. \A q \in Paths : files'[f][q] \in {files[f][q], Unset} \/ (q = p /\ files'[f][q] = v)
      BY <3>1 DEF Put
    <3> QED
      BY <1>1, <1>3, <2>2, <3>2
  <2>4. \A g \in broken' : files'[g] = Empty
    BY <1>1, <2>1, <2>2
  <2> QED
    BY <1>1, <1>2, <2>1, <2>2, <2>3, <2>4 DEF SettingsTyped, SettingsTypeOK
<1>4. ASSUME NEW f \in Entries, UserBreaks(f) PROVE SettingsTyped'
  <2>1. /\ files' = [files EXCEPT ![f] = Empty] /\ broken' = broken \cup {f}
        /\ changes' = changes + 1 /\ changes < MaxChanges
    BY <1>4 DEF UserBreaks
  <2>2. /\ files' = [g \in Entries |-> files'[g]] /\ files'[f] = Empty
        /\ \A g \in Entries \ {f} : files'[g] = files[g]
    BY <1>1, <2>1
  <2>3. \A q \in Paths : Empty[q] = Unset
    BY DEF Empty
  <2>4. \A g \in Entries, q \in Paths : files'[g][q] \in {files[g][q], Unset}
    BY <2>2, <2>3
  <2>5. \A g \in Entries, q \in Paths :
          files'[g][q] \in Values[q] \cup {Unset, "haiku"} \cup (IF q = "defaultMode" THEN ModeLabels ELSE {})
    BY <1>1, <2>4
  <2>6. \A g \in broken' : files'[g] = Empty
    BY <1>1, <2>1, <2>2
  <2> QED
    BY <1>1, <1>2, <2>1, <2>2, <2>5, <2>6 DEF SettingsTyped, SettingsTypeOK
<1>5. ASSUME NEW f \in Entries, UserEdits(f) PROVE SettingsTyped'
  BY <1>3, <1>5 DEF UserEdits
<1>6. ASSUME ConfigTool PROVE SettingsTyped'
  <2>1. PICK p \in DOMAIN ConfigOptions : \E v \in ConfigOptions[p] : Change(Local, "tool", p, v)
    BY <1>6 DEF ConfigTool
  <2>2. PICK v \in ConfigOptions[p] : Change(Local, "tool", p, v)
    BY <2>1
  <2>3. p \in Paths /\ v \in Values[p] \cup {Unset, "haiku"} \cup (IF p = "defaultMode" THEN ModeLabels ELSE {})
    BY <2>1, <2>2, ThePaths DEF ConfigOptions, PathNames, ModeLabels, Values
  <2>4. Local \in Entries
    BY ThePaths DEF Local
  <2> QED
    BY <1>3, <2>2, <2>3, <2>4
<1>7. ASSUME SwitchPlugin PROVE SettingsTyped'
  <2>1. PICK v \in {"on", "off"} : Change(User, "switch", "enabledPlugin", v)
    BY <1>7 DEF SwitchPlugin
  <2>2. User \in Entries /\ "enabledPlugin" \in Paths
    BY ThePaths DEF User, PathNames
  <2>3. v \in Values["enabledPlugin"]
    BY DEF Values
  <2> QED
    BY <1>3, <2>1, <2>2, <2>3
<1>8. CASE UNCHANGED settingsVars
  BY <1>1, <1>8 DEF SettingsTyped, SettingsTypeOK, settingsVars
<1> QED
  BY <1>4, <1>5, <1>6, <1>7, <1>8 DEF SettingsNext

(* A path that is set when all files are read is set in one of them.       *)
LEMMA SetSomewhere == SettingsTyped => \A p \in Paths : Merged[p] # Unset => \E f \in Entries : Has(f, p)
<1> SUFFICES ASSUME SettingsTyped, NEW p \in Paths, \A f \in Entries : ~Has(f, p) PROVE Merged[p] = Unset
  OBVIOUS
<1>1. Merged[p] = Layers(p)
  BY MergedIsLayers
<1>2. \A f \in Entries : files[f][p] = Unset
  BY DEF Has
<1>3. 1 \in Entries /\ 2 \in Entries /\ 3 \in Entries /\ 4 \in Entries /\ 5 \in Entries
  BY ThePaths
<1> QED
  BY <1>1, <1>2, <1>3 DEF Layers, Layer

LEMMA SetSomewhereThen ==
  SettingsTyped' => (\A p \in Paths : Merged[p] # Unset => \E f \in Entries : Has(f, p))'
BY SetSomewhere, PTL

(* And one that lies on no other and is set in a file is set in all.       *)
LEMMA SetThroughout ==
  SettingsTyped => \A p \in Paths : Clears(p) = {} /\ (\E f \in Entries : Has(f, p)) => Merged[p] # Unset
<1> SUFFICES ASSUME SettingsTyped, NEW p \in Paths, Clears(p) = {}, NEW f \in Entries, Has(f, p)
             PROVE  Merged[p] # Unset
  OBVIOUS
<1>1. Merged[p] = Layers(p)
  BY MergedIsLayers
<1>2. \A g \in Entries : Decides(g, p) <=> files[g][p] # Unset
  BY DEF Decides, Has
<1>3. Entries = {1, 2, 3, 4, 5} /\ files[f][p] # Unset
  BY ThePaths DEF Has
<1> QED
  BY <1>1, <1>2, <1>3 DEF Layers, Layer

LEMMA SetThroughoutThen ==
  SettingsTyped' =>
    (\A p \in Paths : Clears(p) = {} /\ (\E f \in Entries : Has(f, p)) => Merged[p] # Unset)'
BY SetThroughout, PTL

(* What the last file says is what is read.                                *)
LEMMA LocalIsRead ==
  ASSUME SettingsTyped, SettingsTyped', NEW p \in Paths, NEW v, v # Unset, Sets(Local, p, v)
  PROVE  Merged'[p] = v
<1>1. Merged'[p] = Layers(p)'
  BY MergedIsLayersThen
<1>2. files'[5][p] = v
  <2>1. Local \in Entries /\ Local = 5
    BY ThePaths DEF Local
  <2>2. files'[Local][p] = v
    BY <2>1, ChangeKeepsOthers, Zenon
  <2> QED
    BY <2>1, <2>2
<1>3. Decides(5, p)'
  BY <1>2 DEF Decides, Has
<1> QED
  BY <1>1, <1>2, <1>3, Zenon DEF Layers, Layer

(* The Config tool writes the file that is read last.                      *)
LEMMA ToolIsTrue ==
  ASSUME SettingsTyped, SettingsTyped', ConfigTool
  PROVE  ProgramKeepsThemReadable' /\ WhatWasSetIsRead'
<1>1. PICK p \in DOMAIN ConfigOptions : \E v \in ConfigOptions[p] : Change(Local, "tool", p, v)
  BY DEF ConfigTool
<1>2. PICK v \in ConfigOptions[p] : Change(Local, "tool", p, v)
  BY <1>1
<1>3. /\ Sets(Local, p, v) /\ UNCHANGED broken
      /\ report' = [by |-> "tool", path |-> p, value |-> v, before |-> Loads]
  BY <1>2 DEF Change, Sets
<1>4. /\ p \in {"model", "defaultMode"} /\ p \in Paths /\ Local \in Entries /\ v # Unset
      /\ p = "model" => v \in {"haiku", "number"}
      /\ p = "defaultMode" => v \in ModeLabels /\ Text(v)
  BY <1>1, <1>2, ThePaths DEF ConfigOptions, PathNames, ModeLabels, Unset, Local, Text
<1>5. Merged'[p] = v
  BY <1>3, <1>4, LocalIsRead
<1>6. \A q \in Paths \ ({p} \cup Clears(p)) : Merged'[q] = Merged[q]
  BY <1>3, <1>4, MergedKeepsOthers
<1>7. /\ Merged'["permissionMode"] = Merged["permissionMode"] /\ Merged'["enabledPlugin"] = Merged["enabledPlugin"]
      /\ Merged'["pluginsEnabled"] = Merged["pluginsEnabled"]
      /\ p = "model" => Merged'["defaultMode"] = Merged["defaultMode"]
  BY <1>4, <1>6, ThePaths DEF PathNames
<1>8. \A f \in Entries : files'[f]["mcpServer"] = files[f]["mcpServer"]
  <2>1. "mcpServer" \in Paths \ ({p} \cup Clears(p))
    BY <1>4, ThePaths DEF PathNames
  <2>2. \A f \in Entries : SameAt(f, "mcpServer")
    BY <1>3, <1>4, <2>1, ChangeKeepsOthers, Zenon
  <2> QED
    BY <2>2 DEF SameAt
<1>9. p = "defaultMode" =>
        ModeLabel(Merged') = IF Text(Merged["permissionMode"]) THEN Merged["permissionMode"] ELSE v
  BY <1>4, <1>5, <1>7 DEF ModeLabel
<1>10. p = "model" => ModeLabel(Merged') = ModeLabel(Merged)
  BY <1>7 DEF ModeLabel
<1>11. ASSUME Loads PROVE Loads'
  <2>1. ModeLabel(Merged) \in ModeLabels \cup {Unset}
        /\ (Text(Merged["permissionMode"]) => ModeLabel(Merged) = Merged["permissionMode"])
    BY <1>11 DEF Loads, ModeLabel
  <2>2. ModeLabel(Merged') \in ModeLabels \cup {Unset}
    BY <1>4, <1>9, <1>10, <2>1
  <2> QED
    BY <1>3, <1>7, <1>8, <1>11, <2>2 DEF Loads, Readable
<1>12. ProgramKeepsThemReadable'
  BY <1>3, <1>11 DEF ProgramKeepsThemReadable
<1>13. p = "model" => Model(Merged') = IF v = "number" THEN Unset ELSE v
  BY <1>4, <1>5 DEF Model, Text, Unset
<1>14. ASSUME p = "defaultMode" PROVE ModeLabel(Merged') = v \/ (\E f \in Entries : Has(f, "permissionMode"))'
  <2>1. CASE Text(Merged["permissionMode"])
    <3>1. Merged'["permissionMode"] # Unset /\ "permissionMode" \in Paths
      BY <1>7, <2>1, ThePaths DEF Text, PathNames
    <3> QED
      BY <3>1, SetSomewhereThen
  <2>2. CASE ~Text(Merged["permissionMode"])
    BY <1>9, <1>14, <2>2
  <2> QED
    BY <2>1, <2>2
<1>15. WhatWasSetIsRead'
  BY <1>3, <1>4, <1>13, <1>14 DEF WhatWasSetIsRead
<1> QED
  BY <1>12, <1>15

(* A switch is read, or a later file says what was read before.            *)
LEMMA SwitchIsTrue ==
  ASSUME SettingsTyped, SettingsTyped', SwitchPlugin
  PROVE  ProgramKeepsThemReadable' /\ WhatWasSetIsRead'
<1>1. PICK v \in {"on", "off"} : Change(User, "switch", "enabledPlugin", v)
  BY DEF SwitchPlugin
<1> DEFINE p == "enabledPlugin"
<1>2. /\ Sets(User, p, v) /\ UNCHANGED broken
      /\ report' = [by |-> "switch", path |-> p, value |-> v, before |-> Loads]
  BY <1>1 DEF Change, Sets
<1>3. p \in Paths /\ User \in Entries /\ Clears(p) = {} /\ v # Unset /\ v # "junk" /\ User = 2
  BY ThePaths DEF PathNames, User, Unset
<1>4. \A q \in Paths \ {p} : Merged'[q] = Merged[q]
  <2>1. \A q \in Paths \ ({p} \cup Clears(p)) : Merged'[q] = Merged[q]
    BY <1>2, <1>3, MergedKeepsOthers
  <2> QED
    BY <1>3, <2>1
<1>5. /\ Merged'["permissionMode"] = Merged["permissionMode"] /\ Merged'["defaultMode"] = Merged["defaultMode"]
      /\ Merged'["pluginsEnabled"] = Merged["pluginsEnabled"]
  BY <1>4, ThePaths DEF PathNames
<1>6. \A f \in Entries : files'[f]["mcpServer"] = files[f]["mcpServer"]
  <2>1. "mcpServer" \in Paths \ ({p} \cup Clears(p))
    BY <1>3, ThePaths DEF PathNames
  <2>2. \A f \in Entries : SameAt(f, "mcpServer")
    BY <1>2, <1>3, <2>1, ChangeKeepsOthers, Zenon
  <2> QED
    BY <2>2 DEF SameAt
<1>7. /\ files'[2][p] = v
      /\ \A f \in Entries \ {2} : files'[f][p] = files[f][p] /\ (Decides(f, p)' <=> Decides(f, p))
  <2>1. files'[User][p] = v /\ \A f \in Entries \ {User} : SameAt(f, p)
    BY <1>2, <1>3, ChangeKeepsOthers, Zenon
  <2> QED
    BY <1>3, <2>1 DEF SameAt
<1>8. \A f \in Entries : (Decides(f, p) <=> Has(f, p)) /\ (Decides(f, p)' <=> Has(f, p)')
  BY <1>3 DEF Decides
<1>9. Merged'[p] = Layers(p)' /\ Merged[p] = Layers(p)
  BY <1>3, MergedIsLayersThen, MergedIsLayers
<1>10. 2 \in Entries /\ 3 \in Entries /\ 4 \in Entries /\ 5 \in Entries
  BY ThePaths
<1>11. Decides(2, p)'
  BY <1>3, <1>7, <1>8, <1>10 DEF Has
<1> HIDE DEF p
<1>12. Merged'[p] = v \/ (Merged'[p] = Merged[p] /\ \E f \in {3, 4, 5} : Has(f, p)')
  <2>1. \A f \in {3, 4, 5} : files'[f][p] = files[f][p] /\ (Decides(f, p)' <=> Decides(f, p))
                              /\ (Decides(f, p)' <=> Has(f, p)')
    BY <1>7, <1>8, <1>10
  <2>2. CASE ~Decides(3, p) /\ ~Decides(4, p) /\ ~Decides(5, p)
    <3>1. ~Decides(3, p)' /\ ~Decides(4, p)' /\ ~Decides(5, p)'
      BY <2>1, <2>2
    <3>2. Merged'[p] = v
      BY <1>7, <1>9, <1>11, <3>1 DEF Layers, Layer
    <3> QED
      BY <3>2
  <2>3. CASE Decides(3, p) \/ Decides(4, p) \/ Decides(5, p)
    <3>1. Merged'[p] = Merged[p]
      BY <1>9, <2>1, <2>3 DEF Layers, Layer
    <3> QED
      BY <2>1, <2>3, <3>1
  <2> QED
    BY <2>2, <2>3
<1>13. Loads /\ Merged[p] # "junk"
  BY DEF SwitchPlugin, Loads, p
<1>14. Merged'[p] # "junk"
  BY <1>3, <1>12, <1>13
<1>15. Loads'
  <2>1. ModeLabel(Merged') = ModeLabel(Merged)
    BY <1>5 DEF ModeLabel
  <2>2. Merged'["enabledPlugin"] # "junk"
    BY <1>14 DEF p
  <2> QED
    BY <1>2, <1>5, <1>6, <1>13, <2>1, <2>2 DEF Loads, Readable
<1>16. ProgramKeepsThemReadable'
  BY <1>15 DEF ProgramKeepsThemReadable
<1>17. \/ SwitchedOn(Merged') = v
       \/ \E f \in User + 1 .. Local : Has(f, "enabledPlugin")'
       \/ (\E f \in Entries : Has(f, "pluginsEnabled") \/ Has(f, "othersEnabled"))'
  <2>1. CASE Merged'["pluginsEnabled"] # Unset \/ Merged'["othersEnabled"] # Unset
    <3>1. (\E f \in Entries : Has(f, "pluginsEnabled"))' \/ (\E f \in Entries : Has(f, "othersEnabled"))'
      BY <2>1, SetSomewhereThen, ThePaths DEF PathNames
    <3> QED
      BY <3>1
  <2>2. CASE Merged'["pluginsEnabled"] = Unset /\ Merged'["othersEnabled"] = Unset
    <3>1. SwitchedOn(Merged') = Merged'[p]
      BY <2>2 DEF SwitchedOn, p
    <3>2. {3, 4, 5} = User + 1 .. Local
      BY DEF User, Local
    <3>3. (\E f \in {3, 4, 5} : Has(f, p)') => \E f \in User + 1 .. Local : Has(f, "enabledPlugin")'
      BY <3>2 DEF p
    <3> QED
      BY <1>12, <3>1, <3>3
  <2> QED
    BY <2>1, <2>2
<1>18. report'.by = "switch" /\ report'.value = v
  BY <1>2
<1>19. (\E f \in Entries : Has(f, "othersEnabled"))' /\ (\A f \in Entries : ~Has(f, "pluginsEnabled"))'
         => SwitchedOn(Merged') = Unset
  <2>1. SUFFICES ASSUME (\E f \in Entries : Has(f, "othersEnabled"))',
                        ~(\E f \in Entries : Has(f, "pluginsEnabled"))'
                 PROVE  SwitchedOn(Merged') = Unset
    OBVIOUS
  <2>2. "othersEnabled" \in Paths /\ Clears("othersEnabled") = {} /\ "pluginsEnabled" \in Paths
    BY ThePaths DEF PathNames
  <2>3. Merged'["othersEnabled"] # Unset
    BY <2>1, <2>2, SetThroughoutThen
  <2>4. Merged'["pluginsEnabled"] = Unset
    BY <2>1, <2>2, SetSomewhereThen
  <2> QED
    BY <2>3, <2>4 DEF SwitchedOn
<1>20. WhatWasSetIsRead'
  BY <1>17, <1>18, <1>19 DEF WhatWasSetIsRead
<1> QED
  BY <1>16, <1>20

LEMMA SettingsStart == SettingsInit => SettingsIInv
<1> SUFFICES ASSUME SettingsInit PROVE SettingsIInv
  OBVIOUS
<1>1. \A f \in Entries : files[f] = Empty
  BY DEF SettingsInit
<1>2. SettingsTyped
  BY <1>1, SettingsAssumption DEF SettingsInit, SettingsTyped, SettingsTypeOK, Empty
<1>3. report.by = "none"
  BY DEF SettingsInit, NoReport
<1> QED
  BY <1>2, <1>3 DEF SettingsIInv, ProgramKeepsThemReadable, WhatWasSetIsRead

LEMMA SettingsHold == SettingsIInv /\ [SettingsNext]_settingsVars => SettingsIInv'
<1> SUFFICES ASSUME SettingsIInv, [SettingsNext]_settingsVars PROVE SettingsIInv'
  OBVIOUS
<1>1. SettingsTyped /\ SettingsTyped'
  BY SettingsStayTyped DEF SettingsIInv
<1>2. ASSUME report'.by \notin {"tool", "switch"} PROVE ProgramKeepsThemReadable' /\ WhatWasSetIsRead'
  BY <1>2 DEF ProgramKeepsThemReadable, WhatWasSetIsRead
<1>3. ASSUME NEW f \in Entries, UserEdits(f) PROVE report'.by = "user"
  <2>1. PICK p \in Paths : \E v \in Values[p] \cup {Unset} : Change(f, "user", p, v)
    BY <1>3 DEF UserEdits
  <2> QED
    BY <2>1 DEF Change
<1>4. ASSUME NEW f \in Entries, UserBreaks(f) PROVE report'.by = "none"
  BY <1>4 DEF UserBreaks, NoReport
<1>5. CASE UNCHANGED settingsVars
  <2>1. ProgramKeepsThemReadable /\ WhatWasSetIsRead
    BY DEF SettingsIInv
  <2> QED
    BY <1>1, <1>5, <2>1 DEF SettingsIInv, settingsVars, ProgramKeepsThemReadable, WhatWasSetIsRead, Loads,
       Readable, Merged, MergeFile, Has
<1> QED
  BY <1>1, <1>2, <1>3, <1>4, <1>5, ToolIsTrue, SwitchIsTrue DEF SettingsNext, SettingsIInv

(* However the files are edited and broken, and whichever of them are:     *)
(* what is read at a path is what the last file says that decides it, a    *)
(* server is taken whole from the last file that names it, no change by    *)
(* the program makes settings unreadable, and what it set is what it reads *)
(* next, unless a file above says otherwise, or any has the name that goes *)
(* first; a plugins.enabled, whomever it names, hides every switch         *)
(* (ConfigLoader::load, deep_merge_objects, parse_optional_plugin_config,  *)
(* execute_config, write_enabled_state).                                   *)
THEOREM SettingsAreRead == SettingsSpec => []SettingsInv
<1>1. SettingsIInv => SettingsInv
  BY LastDecides, ServersFollow DEF SettingsIInv, SettingsInv, SettingsTyped
<1> QED
  BY <1>1, SettingsStart, SettingsHold, PTL DEF SettingsSpec

=============================================================================
