-------------------------- MODULE ProgressReporter --------------------------
(***************************************************************************)
(* The progress of /ultraplan (claw-cli/src/main.rs): the thread that runs *)
(* the turn changes a shared state and writes a line for every change, a   *)
(* heartbeat thread writes the state from time to time.  A line is made    *)
(* from a snapshot taken under one lock and written under another.         *)
(***************************************************************************)
EXTENDS Naturals, Sequences, FiniteSets

CONSTANTS
  MaxSteps,  \* bound: phases of a turn
  MaxBeats   \* bound: heartbeats

ASSUME ProgressAssumption == MaxSteps \in Nat \ {0} /\ MaxBeats \in Nat

VARIABLES
  progress,  \* InternalPromptProgressState: step, saw_final_text
  turn,      \* the thread of the turn: what it does next
  unwritten, \* its line that is not written yet
  stop,      \* whether the heartbeat was told to stop, or its channel dropped
  heart,     \* the heartbeat: "waiting", "holding" a snapshot, "ended"
  snapshot,  \* that snapshot
  beats,     \* heartbeats so far
  lines      \* the terminal

progressVars == <<progress, turn, unwritten, stop, heart, snapshot, beats, lines>>

NoLine == [event |-> "none", step |-> 0]
Line(event, s) == [event |-> event, step |-> s.step]

ProgressInit ==
  /\ progress = [step |-> 0, final |-> FALSE]
  /\ turn = "starting" /\ unwritten = NoLine /\ stop = FALSE
  /\ heart = "none" /\ snapshot = [step |-> 0, final |-> FALSE] /\ beats = 0
  /\ lines = <<>>

-----------------------------------------------------------------------------
(* start_ultraplan: the first line is written before the thread starts.    *)
StartRun ==
  /\ turn = "starting" /\ turn' = "running"
  /\ lines' = Append(lines, Line("started", progress)) /\ heart' = "waiting"
  /\ UNCHANGED <<progress, unwritten, stop, snapshot, beats>>

(* mark_model_phase and mark_tool_phase, and mark_text_phase, which counts *)
(* the first text of the turn only.                                        *)
Mark ==
  /\ turn = "running" /\ progress.step < MaxSteps
  /\ progress' = [progress EXCEPT !.step = @ + 1] /\ unwritten' = Line("update", progress')
  /\ turn' = "writing"
  /\ UNCHANGED <<stop, heart, snapshot, beats, lines>>

MarkText ==
  /\ turn = "running" /\ ~progress.final /\ progress.step < MaxSteps
  /\ progress' = [step |-> progress.step + 1, final |-> TRUE] /\ unwritten' = Line("update", progress')
  /\ turn' = "writing"
  /\ UNCHANGED <<stop, heart, snapshot, beats, lines>>

WriteUpdate ==
  /\ turn = "writing" /\ turn' = "running"
  /\ lines' = Append(lines, unwritten) /\ unwritten' = NoLine
  /\ UNCHANGED <<progress, stop, heart, snapshot, beats>>

(* finish_success, finish_failure, and drop when the turn panics: the      *)
(* heartbeat is told to stop and waited for.                               *)
StopHeartbeat ==
  /\ turn = "running" /\ stop' = TRUE
  /\ turn' \in {"completing", "failing", "unwinding"}
  /\ UNCHANGED <<progress, unwritten, heart, snapshot, beats, lines>>

Outcome == IF turn = "completing" THEN "complete" ELSE "failed"
(* Slip: the outcome is written without waiting for the heartbeat. *)
FinishUnjoined ==
  /\ turn \in {"completing", "failing"} /\ turn' = "over"
  /\ lines' = Append(lines, Line(Outcome, progress))
  /\ UNCHANGED <<progress, unwritten, stop, heart, snapshot, beats>>
Finish ==
  /\ turn \in {"completing", "failing"} /\ heart = "ended" /\ turn' = "over"
  /\ lines' = Append(lines, Line(Outcome, progress))
  /\ UNCHANGED <<progress, unwritten, stop, heart, snapshot, beats>>

Unwound ==
  /\ turn = "unwinding" /\ heart = "ended" /\ turn' = "over"
  /\ UNCHANGED <<progress, unwritten, stop, heart, snapshot, beats, lines>>

-----------------------------------------------------------------------------
(* recv_timeout ends in a timeout or, once it was told, in the end.        *)
Beat ==
  /\ heart = "waiting" /\ beats < MaxBeats
  /\ heart' = "holding" /\ snapshot' = progress /\ beats' = beats + 1
  /\ UNCHANGED <<progress, turn, unwritten, stop, lines>>

WriteHeartbeat ==
  /\ heart = "holding" /\ heart' = "waiting"
  /\ lines' = Append(lines, Line("heartbeat", snapshot))
  /\ UNCHANGED <<progress, turn, unwritten, stop, snapshot, beats>>

HeartStops ==
  /\ heart = "waiting" /\ stop /\ heart' = "ended"
  /\ UNCHANGED <<progress, turn, unwritten, stop, snapshot, beats, lines>>

ProgressNext ==
  \/ StartRun \/ Mark \/ MarkText \/ WriteUpdate \/ StopHeartbeat \/ Finish \/ Unwound
  \/ Beat \/ WriteHeartbeat \/ HeartStops

(* Both threads run.                                                       *)
Threads == WriteUpdate \/ Finish \/ Unwound \/ WriteHeartbeat \/ HeartStops
ProgressSpec == ProgressInit /\ [][ProgressNext]_progressVars /\ WF_progressVars(Threads)

-----------------------------------------------------------------------------
Updates(ls, n) == {k \in 1 .. n : ls[k].event = "update"}
Shown(n) == Cardinality(Updates(lines, n))

(* Every phase has its line, once and in order, and the outcome is the     *)
(* last line: no heartbeat follows it, whenever it took its snapshot.      *)
EveryPhaseIsShown ==
  /\ \A k \in Updates(lines, Len(lines)) : lines[k].step = Shown(k)
  /\ progress.step = Shown(Len(lines)) + (IF turn = "writing" THEN 1 ELSE 0)
  /\ lines # <<>> => lines[1].event = "started"
  /\ \A k \in DOMAIN lines : lines[k].event \in {"complete", "failed"} =>
       k = Len(lines) /\ lines[k].step = Shown(k)

(* Heartbeats do not go back among themselves.  One may fall behind the    *)
(* lines before it but never runs ahead by more than the line in the       *)
(* making.                                                                 *)
HeartbeatsLagOnly ==
  \A k \in DOMAIN lines : lines[k].event = "heartbeat" =>
    /\ \A j \in 1 .. k : lines[j].event = "heartbeat" => lines[j].step <= lines[k].step
    /\ lines[k].step <= 1 + Shown(k)

ProgressInv ==
  /\ turn = "over" => heart = "ended"
  /\ EveryPhaseIsShown /\ HeartbeatsLagOnly

=============================================================================
