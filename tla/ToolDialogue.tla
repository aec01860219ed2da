---------------------------- MODULE ToolDialogue ----------------------------
(***************************************************************************)
(* What a conversation runtime promises to the provider and to the user,   *)
(* with no word on permissions, hooks, iterations or failures: a log of    *)
(* messages in which the tool uses of an assistant message are answered,   *)
(* one by one and in order, before anything else is said.                  *)
(***************************************************************************)
EXTENDS Sequences, Naturals

CONSTANTS
  Replies,   \* what the assistant may ask for at once: sequences of tool uses
  Outcomes   \* the possible contents of an answer to one tool use

VARIABLES
  log,       \* the messages so far
  open,      \* tool uses of the last assistant message not answered yet
  talking    \* a turn is under way

vars == <<log, open, talking>>

Init ==
  /\ log = <<>>
  /\ open = <<>>
  /\ talking = FALSE

(* The user speaks between turns only. *)
Ask ==
  /\ ~ talking
  /\ log' = Append(log, [role |-> "user"])
  /\ talking' = TRUE
  /\ UNCHANGED open

(* The assistant speaks only when all it asked for was answered; a reply   *)
(* that asks for nothing ends the turn.                                    *)
Reply ==
  /\ talking
  /\ open = <<>>
  /\ \E uses \in Replies, usage \in BOOLEAN :
       /\ log' = Append(log, [role |-> "assistant", uses |-> uses, usage |-> usage])
       /\ open' = uses
       /\ talking' = (uses # <<>>)

(* One result, for the first use not answered yet. *)
Answer ==
  /\ open # <<>>
  /\ \E outcome \in Outcomes :
       log' = Append(log, [role |-> "tool", use |-> Head(open), outcome |-> outcome])
  /\ open' = Tail(open)
  /\ UNCHANGED talking

(* A turn may be given up, but never with a tool use left unanswered. *)
GiveUp ==
  /\ talking
  /\ open = <<>>
  /\ talking' = FALSE
  /\ UNCHANGED <<log, open>>

Next == Ask \/ Reply \/ Answer \/ GiveUp

(* Answers are not left out for ever, and neither is the end of a turn. *)
Spec == Init /\ [][Next]_vars /\ WF_vars(Answer)

SafeSpec == Init /\ [][Next]_vars

=============================================================================
