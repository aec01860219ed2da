----------------------------- MODULE Compaction -----------------------------
(***************************************************************************)
(* Compaction of a session (runtime/src/compact.rs): all but the last few  *)
(* messages are replaced by a system message that summarises them, and a   *)
(* summary that is already there is merged into the next one.  A message   *)
(* is its number in the conversation, who wrote it, its estimated tokens   *)
(* and whether a blank line is in its text; a summary is the counts of its *)
(* "Scope:" lines, one per compaction, and the messages of its timeline.   *)
(***************************************************************************)
EXTENDS Integers, SequencesExt

CONSTANTS
  Preserve,     \* preserve_recent_messages
  Threshold,    \* max_estimated_tokens
  Sizes,        \* estimated tokens a message may have
  MaxMessages   \* bound: messages ever added to the conversation

ASSUME CompactionAssumption ==
  /\ Preserve \in Nat /\ Threshold \in Nat
  /\ Sizes \in SUBSET (Nat \ {0})
  /\ MaxMessages \in Nat

VARIABLES
  session,   \* messages of the session
  added,     \* messages ever added
  running,   \* is a turn running?
  owed       \* tool results the turn still has to add

compactionVars == <<session, added, running, owed>>

Summary(scopes, timeline) == [role |-> "system", scopes |-> scopes, timeline |-> timeline]
IsSummary(m) == m.role = "system"

-----------------------------------------------------------------------------
HasSummary(s) == s # <<>> /\ IsSummary(s[1])
PrefixLen(s) == IF HasSummary(s) THEN 1 ELSE 0

Tokens(s) == FoldSeq(LAMBDA m, sum : m.tokens + sum, 0, s)

(* Slip: an existing summary counts as one of the messages to compact.     *)
ShouldCompactAll(s) ==
  LET compactable == SubSeq(s, PrefixLen(s) + 1, Len(s))
  IN  Len(s) > Preserve /\ Tokens(compactable) >= Threshold

ShouldCompact(s) ==
  LET compactable == SubSeq(s, PrefixLen(s) + 1, Len(s))
  IN  Len(compactable) > Preserve /\ Tokens(compactable) >= Threshold

KeepFrom(s) == IF Len(s) > Preserve THEN Len(s) - Preserve ELSE 0
Removed(s) == SubSeq(s, PrefixLen(s) + 1, KeepFrom(s))
Preserved(s) == SubSeq(s, KeepFrom(s) + 1, Len(s))
Numbers(s) == [k \in DOMAIN s |-> s[k].number]

(* The timeline of a summary that is read again ends at the first blank    *)
(* line, which is in the middle of the first message that has one.         *)
Reread(s) ==
  LET blanks == {k \in DOMAIN s : s[k].blank}
  IN  IF blanks = {} THEN s
      ELSE SubSeq(s, 1, CHOOSE k \in blanks : \A j \in blanks : k <= j)

(* Slip: merging drops what was compacted before. *)
MergeForgetful(s) ==
  LET new == Removed(s) IN Summary(<<Len(new)>>, Numbers(new))

(* Merging keeps the highlights of the old summary, its scopes among them, *)
(* and drops its timeline for that of the new one, read again.             *)
Merge(s) ==
  LET new == Removed(s)
  IN  IF HasSummary(s)
      THEN Summary(s[1].scopes \o <<Len(new)>>, Numbers(Reread(new)))
      ELSE Summary(<<Len(new)>>, Numbers(new))

Compacted(s) == IF ShouldCompact(s) THEN <<Merge(s)>> \o Preserved(s) ELSE s

-----------------------------------------------------------------------------
(* The conversation around it: a turn adds a user message, then assistant  *)
(* messages, each with one tool result for each of its uses, until one has *)
(* none; /compact comes between turns.  of is the message that a tool      *)
(* result answers.                                                         *)
Add(m) == session' = Append(session, m) /\ added' = added + 1

AddUser ==
  /\ ~running /\ added + 1 < MaxMessages
  /\ \E n \in Sizes, b \in BOOLEAN :
       Add([role |-> "user", number |-> added + 1, tokens |-> n, blank |-> b, of |-> added + 1])
  /\ running' = TRUE
  /\ UNCHANGED owed

AddAssistant ==
  /\ running /\ owed = 0 /\ added < MaxMessages
  /\ \E n \in Sizes, b \in BOOLEAN, uses \in 0 .. 2 :
       /\ added + 1 + uses + (IF uses > 0 THEN 1 ELSE 0) <= MaxMessages
       /\ Add([role |-> "assistant", number |-> added + 1, tokens |-> n, blank |-> b,
               of |-> added + 1])
       /\ owed' = uses
       /\ running' = (uses > 0)

AddResult ==
  /\ owed > 0
  /\ LET asker == session[SelectLastInSeq(session, LAMBDA m : m.role = "assistant")] IN
     \E n \in Sizes, b \in BOOLEAN :
       Add([role |-> "tool", number |-> added + 1, tokens |-> n, blank |-> b, of |-> asker.number])
  /\ owed' = owed - 1
  /\ UNCHANGED running

Compact ==
  /\ ~running
  /\ session' = Compacted(session)
  /\ UNCHANGED <<added, running, owed>>

CompactionInit == session = <<>> /\ added = 0 /\ running = FALSE /\ owed = 0

CompactionNext == AddUser \/ AddAssistant \/ AddResult \/ Compact

CompactionSpec == CompactionInit /\ [][CompactionNext]_compactionVars

-----------------------------------------------------------------------------
Messages ==
  [role : {"user", "assistant", "tool"}, number : 1 .. MaxMessages, tokens : Sizes,
   blank : BOOLEAN, of : 1 .. MaxMessages]

Verbatim == SubSeq(session, PrefixLen(session) + 1, Len(session))

(* At most one summary, and it comes first: the rest are messages.         *)
CompactionTypeOK ==
  /\ Verbatim \in Seq(Messages)
  /\ HasSummary(session) =>
       /\ session[1].scopes \in Seq(Nat)
       /\ session[1].timeline \in Seq(1 .. MaxMessages)
  /\ added \in 0 .. MaxMessages
  /\ running \in BOOLEAN
  /\ owed \in 0 .. 2

(* However often a session was compacted, every message is accounted for:  *)
(* the scopes of the summary and the messages still there add up to the    *)
(* whole conversation.                                                     *)
Scopes(s) == IF HasSummary(s) THEN s[1].scopes ELSE <<>>
Counted(scopes) == FoldLeft(LAMBDA sum, n : sum + n, 0, scopes)
NothingUncounted == Counted(Scopes(session)) + Len(Verbatim) = added

(* What is still there is the end of the conversation, in order and with   *)
(* no gap ("Recent messages are preserved verbatim").                      *)
RecentInOrder ==
  \A k \in DOMAIN Verbatim : Verbatim[k].number = added - Len(Verbatim) + k

(* A tool result without the message that asked for it stands only where   *)
(* the summary cut a reply in two: right after it, before anything else.   *)
OrphansOnlyAtTheCut ==
  \A k \in DOMAIN Verbatim :
    Verbatim[k].role = "tool" /\ Verbatim[k].of \notin ToSet(Numbers(Verbatim)) =>
      HasSummary(session) /\ \A j \in 1 .. k : Verbatim[j].role = "tool"

(* The timeline of the summary is in the order of the conversation and     *)
(* ends before what is still there.                                        *)
TimelineInOrder ==
  HasSummary(session) =>
    LET timeline == session[1].timeline
    IN  \A k \in DOMAIN timeline :
          /\ timeline[k] <= added - Len(Verbatim)
          /\ k > 1 => timeline[k] = timeline[k - 1] + 1

(* Summary and messages together are in the order of the conversation.     *)
OrderKept == RecentInOrder /\ TimelineInOrder

(* Compacting what was just compacted changes nothing, and a compaction    *)
(* never leaves more messages than it found.                               *)
CompactionSettles ==
  [][(added' = added /\ session' # session) =>
       Compacted(session') = session' /\ Len(session') <= Len(session)]_compactionVars

(* However often a session is compacted, nothing is forgotten, counted     *)
(* twice or put out of order, and no result is orphaned but at the cut.    *)
CompactionInv == CompactionTypeOK /\ NothingUncounted /\ OrphansOnlyAtTheCut /\ OrderKept

=============================================================================
