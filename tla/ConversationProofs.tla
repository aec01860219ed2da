------------------------- MODULE ConversationProofs -------------------------
(***************************************************************************)
(* Theorems about Conversation, for every value of its constants.          *)
(***************************************************************************)
EXTENDS Conversation, SequenceTheorems, FiniteSetTheorems, TLAPS

(* A reply of the assistant is a finite sequence of tool uses. *)
LEMMA RepliesAreSequences == Replies \subseteq Seq(Uses)
<1> SUFFICES ASSUME NEW r \in Replies
             PROVE  r \in Seq(Uses)
  OBVIOUS
<1>1. PICK n \in 0 .. MaxUses : r \in [1 .. n -> Uses]
  BY ConversationAssumption DEF Replies
<1>2. n \in Nat
  BY ConversationAssumption
<1> QED
  BY <1>1, <1>2

(* Taking the first of one element leaves nothing, and only then. *)
LEMMA TailOfSingleton ==
  ASSUME NEW S, NEW s \in Seq(S), s # <<>>
  PROVE  Tail(s) = <<>> <=> Len(s) = 1
<1>1. Tail(s) \in Seq(S) /\ Len(Tail(s)) = Len(s) - 1 /\ Len(s) \in Nat
  BY HeadTailProperties
<1>2. Tail(s) # <<>> => Len(Tail(s)) # 0
  BY <1>1, EmptySeq
<1>3. Tail(s) = <<>> => Len(Tail(s)) = 0
  BY EmptySeq
<1> QED
  BY <1>1, <1>2, <1>3

(* Pushing the result of the current use keeps the types. *)
LEMMA PushResultType ==
  ASSUME TypeOK, pending # <<>>,
         NEW content \in Contents, NEW error \in BOOLEAN,
         PushResult(content, error)
  PROVE  /\ session' \in Seq(Messages)
         /\ pending' \in Seq(Uses)
         /\ phase' \in Phases
         /\ hook' \in Nat
         /\ failed' \in BOOLEAN
<1>1. /\ Head(pending) \in Uses
      /\ Tail(pending) \in Seq(Uses)
  BY HeadTailProperties DEF TypeOK
<1>2. [role |-> "tool", use |-> Head(pending),
       outcome |-> [content |-> content, error |-> error]] \in Messages
  BY <1>1 DEF Messages, ToolMessages, Outcomes
<1>3. session' \in Seq(Messages)
  BY <1>2 DEF PushResult, TypeOK
<1> QED
  BY <1>1, <1>3 DEF PushResult, Phases

(* The phases in which a tool use is under way, and the invariant that     *)
(* these are exactly the phases with a pending use.                        *)
ToolPhases == {"authorize", "prehook", "posthook"}
PendingInToolPhases == phase \in ToolPhases <=> pending # <<>>

TypeInv == TypeOK /\ PendingInToolPhases

LEMMA TypeInvInit == Init => TypeInv
<1> SUFFICES ASSUME Init
             PROVE  TypeOK /\ PendingInToolPhases
  BY DEF TypeInv
<1>1. session \in Seq(Messages) /\ pending \in Seq(Uses)
  BY EmptySeq DEF Init
<1>2. turns \in 0 .. MaxTurns
  BY ConversationAssumption DEF Init
<1> QED
  BY <1>1, <1>2 DEF Init, TypeOK, PendingInToolPhases, ToolPhases, Phases

LEMMA TypeInvStep == TypeInv /\ [Next]_vars => TypeInv'
<1> SUFFICES ASSUME TypeOK, PendingInToolPhases, [Next]_vars
             PROVE  TypeOK' /\ PendingInToolPhases'
  BY DEF TypeInv
<1> USE DEF TypeOK, Phases, ToolPhases, PendingInToolPhases, history
<1>1. CASE StartTurn
  <2>1. [role |-> "user"] \in Messages
    BY DEF Messages, UserMessages
  <2>2. session' \in Seq(Messages)
    BY <1>1, <2>1 DEF StartTurn
  <2>3. turns' \in 0 .. MaxTurns
    BY <1>1, ConversationAssumption DEF StartTurn
  <2> QED
    BY <1>1, <2>2, <2>3 DEF StartTurn
<1>2. CASE ExceedIterations
  BY <1>2 DEF ExceedIterations
<1>3. CASE SendRequest
  BY <1>3 DEF SendRequest
<1>4. CASE StreamFails
  BY <1>4 DEF StreamFails
<1>5. CASE AssistantReplies
  <2>1. PICK uses \in Replies, usage \in BOOLEAN :
          /\ session' = Append(session, [role |-> "assistant", uses |-> uses, usage |-> usage])
          /\ recorded' = IF usage THEN recorded + 1 ELSE recorded
          /\ pending' = uses
          /\ phase' = IF uses = <<>> THEN "idle" ELSE "authorize"
    BY <1>5 DEF AssistantReplies
  <2>2. uses \in Seq(Uses)
    BY RepliesAreSequences
  <2>3. [role |-> "assistant", uses |-> uses, usage |-> usage] \in Messages
    BY <2>2 DEF Messages, AssistantMessages
  <2>4. session' \in Seq(Messages)
    BY <2>1, <2>3
  <2> QED
    BY <1>5, <2>1, <2>2, <2>4 DEF AssistantReplies
<1>6. ASSUME pending # <<>>, NEW content \in Contents, NEW error \in BOOLEAN,
             PushResult(content, error)
      PROVE  /\ session' \in Seq(Messages)
             /\ pending' \in Seq(Uses)
             /\ phase' \in Phases
             /\ hook' \in Nat
             /\ failed' \in BOOLEAN
             /\ PendingInToolPhases'
  <2>1. Tail(pending) = <<>> <=> Len(pending) = 1
    BY <1>6, TailOfSingleton
  <2> QED
    BY <1>6, <2>1, PushResultType DEF PushResult
<1>7. CASE AuthorizeByMode
  BY <1>7 DEF AuthorizeByMode, Proceed
<1>8. CASE AuthorizeByPrompt
  <2>1. Here \in Nat
    BY DEF Here
  <2>2. CASE Proceed /\ approved' = approved \cup {Here}
    BY <1>8, <2>1, <2>2 DEF AuthorizeByPrompt, Proceed
  <2>3. CASE PushResult("refused", TRUE) /\ UNCHANGED approved
    BY <1>6, <1>8, <2>3 DEF AuthorizeByPrompt, Contents
  <2> QED
    BY <1>8, <2>2, <2>3 DEF AuthorizeByPrompt
<1>9. CASE Refuse
  BY <1>6, <1>9 DEF Refuse, Contents
<1>10. CASE PreHookPasses
  BY <1>10 DEF PreHookPasses
<1>11. CASE PreHookDenies
  BY <1>6, <1>11 DEF PreHookDenies, Contents
<1>12. CASE ExecutorRejects
  BY <1>12 DEF ExecutorRejects
<1>13. CASE ToolRuns
  <2>1. Here \in Nat
    BY DEF Here
  <2> QED
    BY <1>13, <2>1 DEF ToolRuns
<1>14. CASE PostHookPasses
  BY <1>14 DEF PostHookPasses
<1>15. CASE PostHookDenies
  BY <1>6, <1>15 DEF PostHookDenies, Contents
<1>16. CASE FinishTool
  BY <1>6, <1>16 DEF FinishTool, Contents
<1>17. CASE UNCHANGED vars
  BY <1>17 DEF vars
<1> QED
  BY <1>1, <1>2, <1>3, <1>4, <1>5, <1>7, <1>8, <1>9, <1>10, <1>11, <1>12, <1>13,
     <1>14, <1>15, <1>16, <1>17 DEF Next, RunTurn, HandleTool

LEMMA TypeInvHolds == SafeSpec => []TypeInv
<1>1. QED
  BY TypeInvInit, TypeInvStep, PTL DEF SafeSpec

(* Every variable of the conversation keeps its type. *)
THEOREM TypeCorrect == Spec => []TypeOK
<1>1. TypeInv => TypeOK
  BY DEF TypeInv
<1>2. QED
  BY <1>1, TypeInvHolds, PTL DEF Spec

-----------------------------------------------------------------------------
(* What a step can do to the session and the pending uses.                 *)
Quiet == UNCHANGED <<session, pending>>

UserSpeaks ==
  /\ pending = <<>>
  /\ session' = Append(session, [role |-> "user"])
  /\ pending' = pending

AssistantSpeaks ==
  /\ pending = <<>>
  /\ \E uses \in Replies, usage \in BOOLEAN :
       session' = Append(session, [role |-> "assistant", uses |-> uses, usage |-> usage])
       /\ pending' = uses

ResultArrives ==
  /\ pending # <<>>
  /\ \E outcome \in Outcomes :
       session' = Append(session, [role |-> "tool", use |-> Head(pending), outcome |-> outcome])
  /\ pending' = Tail(pending)

LEMMA PushIsArrival ==
  ASSUME pending # <<>>, NEW content \in Contents, NEW error \in BOOLEAN,
         PushResult(content, error)
  PROVE  ResultArrives
BY DEF PushResult, ResultArrives, Outcomes

LEMMA StepKinds ==
  TypeInv /\ [Next]_vars => Quiet \/ UserSpeaks \/ AssistantSpeaks \/ ResultArrives
<1> SUFFICES ASSUME TypeInv, [Next]_vars
             PROVE  Quiet \/ UserSpeaks \/ AssistantSpeaks \/ ResultArrives
  OBVIOUS
<1>1. CASE StartTurn
  BY <1>1 DEF StartTurn, UserSpeaks, TypeInv, PendingInToolPhases, ToolPhases
<1>2. CASE ExceedIterations \/ SendRequest \/ StreamFails
  BY <1>2 DEF ExceedIterations, SendRequest, StreamFails, Quiet
<1>3. CASE AssistantReplies
  BY <1>3 DEF AssistantReplies, AssistantSpeaks, TypeInv, PendingInToolPhases, ToolPhases
<1>4. CASE AuthorizeByMode \/ PreHookPasses \/ ExecutorRejects \/ ToolRuns \/ PostHookPasses
  BY <1>4 DEF AuthorizeByMode, Proceed, PreHookPasses, ExecutorRejects, ToolRuns,
              PostHookPasses, Quiet
<1>5. phase \in ToolPhases => pending # <<>>
  BY DEF TypeInv, PendingInToolPhases
<1>6. CASE AuthorizeByPrompt
  BY <1>5, <1>6, PushIsArrival
     DEF AuthorizeByPrompt, Proceed, Quiet, ToolPhases, Contents
<1>7. CASE Refuse \/ PreHookDenies \/ PostHookDenies
  BY <1>5, <1>7, PushIsArrival
     DEF Refuse, PreHookDenies, PostHookDenies, ToolPhases, Contents
<1>8. CASE FinishTool
  BY <1>5, <1>8, PushIsArrival DEF FinishTool, ToolPhases, Contents, TypeInv, TypeOK
<1>9. CASE UNCHANGED vars
  BY <1>9 DEF vars, Quiet
<1> QED
  BY <1>1, <1>2, <1>3, <1>4, <1>6, <1>7, <1>8, <1>9 DEF Next, RunTurn, HandleTool

-----------------------------------------------------------------------------
(* The pending uses are what the transcript still owes: an assistant       *)
(* message whose results are not all there owns exactly them, and when     *)
(* there are pending uses there is such a message.                         *)
Unfinished(i) ==
  session[i].role = "assistant" /\ i + Len(session[i].uses) > Len(session)

PendingIsRest ==
  \A i \in DOMAIN session : Unfinished(i) =>
    /\ Len(pending) = i + Len(session[i].uses) - Len(session)
    /\ \A m \in 1 .. Len(pending) :
         pending[m] = session[i].uses[Len(session) - i + m]

PendingHasOwner == pending # <<>> => \E i \in DOMAIN session : Unfinished(i)

TranscriptInv == ResultsFollowUses /\ NoOrphanResult /\ PendingIsRest /\ PendingHasOwner

(* Fields of a message, by its role. *)
LEMMA MessageFields ==
  ASSUME NEW m \in Messages
  PROVE  /\ m.role = "assistant" => m.uses \in Seq(Uses) /\ Len(m.uses) \in Nat
         /\ m.role = "tool" => m.use \in Uses
<1>1. m.role = "assistant" => m \in AssistantMessages
  BY DEF Messages, UserMessages, AssistantMessages, ToolMessages
<1>2. m.role = "tool" => m \in ToolMessages
  BY DEF Messages, UserMessages, AssistantMessages, ToolMessages
<1> QED
  BY <1>1, <1>2, LenProperties DEF AssistantMessages, ToolMessages

LEMMA TranscriptInit == Init => TranscriptInv
BY EmptySeq DEF Init, TranscriptInv, ResultsFollowUses, NoOrphanResult, PendingIsRest,
                PendingHasOwner

LEMMA TranscriptStep == TypeInv /\ TranscriptInv /\ [Next]_vars => TranscriptInv'
<1> SUFFICES ASSUME TypeInv, TranscriptInv, [Next]_vars
             PROVE  TranscriptInv'
  OBVIOUS
<1>0. PICK n \in Nat : n = Len(session)
  BY LenProperties DEF TypeInv, TypeOK
<1>1. /\ session \in Seq(Messages) /\ pending \in Seq(Uses)
      /\ n = Len(session) /\ DOMAIN session = 1 .. n /\ Len(pending) \in Nat
  BY <1>0, LenProperties DEF TypeInv, TypeOK
<1>2. \A i \in 1 .. n : session[i] \in Messages
  BY <1>1, ElementOfSeq
<1>3. \A i \in 1 .. n : session[i].role = "assistant" => Len(session[i].uses) \in Nat
                                             /\ DOMAIN session[i].uses = 1 .. Len(session[i].uses)
  BY <1>2, MessageFields, LenProperties
<1>4. ASSUME NEW e \in Messages, session' = Append(session, e)
      PROVE  /\ Len(session') = n + 1
             /\ DOMAIN session' = 1 .. n + 1
             /\ \A i \in 1 .. n : session'[i] = session[i]
             /\ session'[n + 1] = e
  BY <1>1, <1>4, AppendProperties, LenProperties
<1>5. \A i \in 1 .. n : Unfinished(i) =>
         /\ Len(pending) = i + Len(session[i].uses) - n
         /\ \A m \in 1 .. Len(pending) : pending[m] = session[i].uses[n - i + m]
  BY <1>1 DEF TranscriptInv, PendingIsRest
<1>6. ASSUME \A i \in 1 .. n : session'[i] = session[i]
       PROVE  \A j \in 1 .. n : session'[j].role = "tool" =>
                \E i \in 1 .. j - 1 : session'[i].role = "assistant"
                                       /\ j <= i + Len(session'[i].uses)
  <2> SUFFICES ASSUME NEW j \in 1 .. n, session'[j].role = "tool"
               PROVE  \E i \in 1 .. j - 1 : session'[i].role = "assistant"
                                            /\ j <= i + Len(session'[i].uses)
    OBVIOUS
  <2>1. session[j].role = "tool"
    BY <1>6
  <2>2. PICK i \in 1 .. j - 1 : session[i].role = "assistant" /\ j <= i + Len(session[i].uses)
    BY <1>1, <2>1 DEF TranscriptInv, NoOrphanResult
  <2>3. i \in 1 .. n
    BY <2>2
  <2> QED
    BY <1>6, <2>2, <2>3
<1>7. pending = <<>> => \A i \in 1 .. n : ~ Unfinished(i)
  BY <1>1, <1>3, EmptySeq DEF TranscriptInv, PendingIsRest, Unfinished
<1>8. CASE Quiet
  BY <1>8 DEF Quiet, TranscriptInv, ResultsFollowUses, NoOrphanResult, PendingIsRest,
              PendingHasOwner, Unfinished
<1>9. CASE UserSpeaks
  <2>1. [role |-> "user"] \in Messages
    BY DEF Messages, UserMessages
  <2>2. /\ Len(session') = n + 1
        /\ DOMAIN session' = 1 .. n + 1
        /\ \A i \in 1 .. n : session'[i] = session[i]
        /\ session'[n + 1].role = "user"
    BY <1>4, <1>9, <2>1 DEF UserSpeaks
  <2>3. \A i \in 1 .. n + 1 : ~ Unfinished(i)'
    BY <1>1, <1>3, <1>7, <1>9, <2>2 DEF UserSpeaks, Unfinished
  <2>4. ResultsFollowUses'
    BY <1>1, <1>3, <1>7, <1>9, <2>2
       DEF UserSpeaks, Unfinished, ResultsFollowUses, TranscriptInv
  <2>5. NoOrphanResult'
    BY <1>6, <2>2 DEF NoOrphanResult
  <2> QED
    BY <1>9, <2>2, <2>3, <2>4, <2>5
       DEF UserSpeaks, TranscriptInv, PendingIsRest, PendingHasOwner
<1>10. CASE AssistantSpeaks
  <2>1. PICK uses \in Replies, usage \in BOOLEAN :
          /\ session' = Append(session, [role |-> "assistant", uses |-> uses, usage |-> usage])
          /\ pending' = uses
    BY <1>10 DEF AssistantSpeaks
  <2>2. uses \in Seq(Uses) /\ Len(uses) \in Nat /\ DOMAIN uses = 1 .. Len(uses)
    BY RepliesAreSequences, LenProperties
  <2>3. [role |-> "assistant", uses |-> uses, usage |-> usage] \in Messages
    BY <2>2 DEF Messages, AssistantMessages
  <2>4. /\ Len(session') = n + 1
        /\ DOMAIN session' = 1 .. n + 1
        /\ \A i \in 1 .. n : session'[i] = session[i]
        /\ session'[n + 1].role = "assistant"
        /\ session'[n + 1].uses = uses
    BY <1>4, <2>1, <2>3
  <2>5. \A i \in 1 .. n : ~ Unfinished(i)'
    BY <1>1, <1>3, <1>7, <1>10, <2>4 DEF AssistantSpeaks, Unfinished
  <2>6. ResultsFollowUses'
    BY <1>1, <1>3, <1>7, <1>10, <2>2, <2>4
       DEF AssistantSpeaks, Unfinished, ResultsFollowUses, TranscriptInv
  <2>7. NoOrphanResult'
    BY <1>6, <2>4 DEF NoOrphanResult
  <2>8. PendingIsRest'
    BY <1>1, <2>1, <2>2, <2>4, <2>5 DEF PendingIsRest, Unfinished
  <2>9. PendingHasOwner'
    <3>1. uses # <<>> => Len(uses) > 0
      BY <2>2, EmptySeq
    <3>2. uses # <<>> => Unfinished(n + 1)'
      BY <1>1, <2>2, <2>4, <3>1 DEF Unfinished
    <3> QED
      BY <1>1, <2>1, <2>4, <3>2 DEF PendingHasOwner
  <2> QED
    BY <2>6, <2>7, <2>8, <2>9 DEF TranscriptInv
<1>11. CASE ResultArrives
  <2>1. PICK outcome \in Outcomes :
          session' = Append(session, [role |-> "tool", use |-> Head(pending), outcome |-> outcome])
    BY <1>11 DEF ResultArrives
  <2>2. pending # <<>> /\ pending' = Tail(pending)
    BY <1>11 DEF ResultArrives
  <2>3. /\ Head(pending) \in Uses /\ Head(pending) = pending[1]
        /\ Len(pending') = Len(pending) - 1 /\ Len(pending) > 0
        /\ \A m \in 1 .. Len(pending') : pending'[m] = pending[m + 1]
    BY <1>1, <2>2, HeadTailProperties, EmptySeq
  <2>4. [role |-> "tool", use |-> Head(pending), outcome |-> outcome] \in Messages
    BY <2>3 DEF Messages, ToolMessages
  <2>5. /\ Len(session') = n + 1
        /\ DOMAIN session' = 1 .. n + 1
        /\ \A i \in 1 .. n : session'[i] = session[i]
        /\ session'[n + 1].role = "tool"
        /\ session'[n + 1].use = pending[1]
    BY <1>4, <2>1, <2>3, <2>4
  <2>6. PICK o \in 1 .. n : Unfinished(o)
    BY <1>1, <2>2 DEF TranscriptInv, PendingHasOwner
  <2>7. ResultsFollowUses'
    <3> SUFFICES ASSUME NEW i \in 1 .. n + 1, session'[i].role = "assistant",
                        NEW k \in DOMAIN session'[i].uses, i + k \in 1 .. n + 1
                 PROVE  /\ session'[i + k].role = "tool"
                        /\ session'[i + k].use = session'[i].uses[k]
      BY <2>5 DEF ResultsFollowUses
    <3>1. i \in 1 .. n /\ session'[i] = session[i] /\ k \in 1 .. Len(session[i].uses)
      BY <1>3, <2>5
    <3>2. CASE i + k \in 1 .. n
      BY <1>1, <1>3, <2>5, <3>1, <3>2 DEF TranscriptInv, ResultsFollowUses
    <3>3. CASE i + k = n + 1
      <4>1. Unfinished(i)
        BY <1>1, <1>3, <2>5, <3>1, <3>3 DEF Unfinished
      <4>2. pending[1] = session[i].uses[n - i + 1]
        BY <1>1, <1>5, <2>3, <3>1, <4>1
      <4>3. n - i + 1 = k
        BY <1>1, <1>3, <3>1, <3>3
      <4> QED
        BY <2>5, <3>1, <3>3, <4>2, <4>3
    <3> QED
      BY <1>1, <1>3, <3>1, <3>2, <3>3
  <2>8. NoOrphanResult'
    <3>1. o \in 1 .. n /\ session'[o].role = "assistant" /\ n + 1 <= o + Len(session'[o].uses)
      BY <1>1, <1>3, <2>5, <2>6 DEF Unfinished
    <3>2. \A j \in 1 .. n : session'[j].role = "tool" =>
            \E i \in 1 .. j - 1 : session'[i].role = "assistant" /\ j <= i + Len(session'[i].uses)
      BY <1>6, <2>5
    <3> SUFFICES ASSUME NEW j \in 1 .. n + 1, session'[j].role = "tool"
                 PROVE  \E i \in 1 .. j - 1 : /\ session'[i].role = "assistant"
                                              /\ j <= i + Len(session'[i].uses)
      BY <2>5 DEF NoOrphanResult
    <3>3. CASE j \in 1 .. n
      BY <3>2, <3>3
    <3>4. CASE j = n + 1
      <4>1. o \in 1 .. j - 1
        BY <3>1, <3>4
      <4> QED
        BY <3>1, <3>4, <4>1
    <3> QED
      BY <3>3, <3>4
  <2>9. \A i \in 1 .. n + 1 : Unfinished(i)' => i \in 1 .. n /\ Unfinished(i)
    BY <1>1, <1>3, <2>5 DEF Unfinished
  <2>10. PendingIsRest'
    <3> SUFFICES ASSUME NEW i \in 1 .. n, Unfinished(i)
                 PROVE  /\ Len(pending') = i + Len(session[i].uses) - (n + 1)
                        /\ \A m \in 1 .. Len(pending') :
                             pending'[m] = session[i].uses[n + 1 - i + m]
      <4>1. \A i \in DOMAIN session' : Unfinished(i)' =>
              i \in 1 .. n /\ Unfinished(i) /\ session'[i] = session[i]
        BY <2>5, <2>9
      <4> QED
        BY <2>5, <4>1 DEF PendingIsRest
    <3>1. /\ Len(pending) = i + Len(session[i].uses) - n
          /\ \A m \in 1 .. Len(pending) : pending[m] = session[i].uses[n - i + m]
      BY <1>5
    <3>2. ASSUME NEW m \in 1 .. Len(pending')
          PROVE  pending'[m] = session[i].uses[n + 1 - i + m]
      <4>1. m + 1 \in 1 .. Len(pending) /\ n - i + (m + 1) = n + 1 - i + m
        BY <1>1, <2>3
      <4> QED
        BY <2>3, <3>1, <4>1
    <3>3. Len(session[i].uses) \in Nat
      BY <1>3 DEF Unfinished
    <3>4. Len(pending') = i + Len(session[i].uses) - (n + 1)
      BY <1>1, <2>3, <3>1, <3>3
    <3> QED
      BY <3>2, <3>4
  <2>11. PendingHasOwner'
    <3>1. Len(pending') > 0 => Unfinished(o)'
      BY <1>1, <1>3, <1>5, <2>3, <2>5, <2>6 DEF Unfinished
    <3>2. pending' # <<>> => Len(pending') > 0
      BY <1>1, <2>2, HeadTailProperties, EmptySeq
    <3> QED
      BY <1>1, <2>5, <3>1, <3>2 DEF PendingHasOwner
  <2> QED
    BY <2>7, <2>8, <2>10, <2>11 DEF TranscriptInv
<1> QED
  BY <1>8, <1>9, <1>10, <1>11, StepKinds

LEMMA TranscriptHolds == SafeSpec => [](TypeInv /\ TranscriptInv)
<1>1. QED
  BY TypeInvInit, TypeInvStep, TranscriptInit, TranscriptStep, PTL DEF SafeSpec

(* Results sit next to the uses they answer, in the order of the uses.     *)
THEOREM ResultsFollowTheirUses == Spec => []ResultsFollowUses
<1>1. TranscriptInv => ResultsFollowUses
  BY DEF TranscriptInv
<1>2. QED
  BY <1>1, TranscriptHolds, PTL DEF Spec

(* No result without the assistant message that asked for it. *)
THEOREM NoOrphans == Spec => []NoOrphanResult
<1>1. TranscriptInv => NoOrphanResult
  BY DEF TranscriptInv
<1>2. QED
  BY <1>1, TranscriptHolds, PTL DEF Spec

(* No request, and no finished turn, leaves a tool use without a result.   *)
THEOREM NoDanglingUse == Spec => []NothingDangling
<1>1. TypeInv /\ TranscriptInv => NothingDangling
  <2> SUFFICES ASSUME TypeInv, TranscriptInv,
                      phase \in {"idle", "request", "streaming"},
                      NEW i \in DOMAIN session, session[i].role = "assistant"
               PROVE  i + Len(session[i].uses) <= Len(session)
    BY DEF NothingDangling
  <2>1. pending = <<>>
    BY DEF TypeInv, PendingInToolPhases, ToolPhases
  <2>2. i \in 1 .. Len(session) /\ Len(session) \in Nat /\ session[i] \in Messages
    BY LenProperties, ElementOfSeq DEF TypeInv, TypeOK
  <2>3. Len(session[i].uses) \in Nat
    BY <2>2, MessageFields
  <2>4. ~ Unfinished(i)
    BY <2>1, <2>2, <2>3, EmptySeq DEF TranscriptInv, PendingIsRest, Unfinished
  <2> QED
    BY <2>2, <2>3, <2>4 DEF Unfinished
<1>2. QED
  BY <1>1, TranscriptHolds, PTL DEF Spec

(* So the transcript of any session can be sent and resumed, whatever      *)
(* failed in it.                                                           *)
THEOREM TranscriptIsWellFormed == Spec => []TranscriptWellFormed
<1>1. ResultsFollowUses /\ NoOrphanResult /\ NothingDangling => TranscriptWellFormed
  BY DEF TranscriptWellFormed
<1>2. QED
  BY <1>1, ResultsFollowTheirUses, NoOrphans, NoDanglingUse, PTL

-----------------------------------------------------------------------------
(* The truth of the transcript and the consent of the user, strengthened   *)
(* with what holds of the tool use under way.                              *)
HereRan == phase = "posthook" /\ ~ failed => Here \in effects

TruthInv == TranscriptTellsTheTruth /\ HereRan

Consent(j, tool) == Grants(mode, tool) \/ (j \in approved /\ mode # "read-only")

HereHasConsent ==
  phase \in {"prehook", "posthook"} => Consent(Here, Head(pending).name)

ConsentInv == EffectsHaveConsent /\ HereHasConsent

LEMMA HonestyInit == Init => TruthInv /\ ConsentInv
BY EmptySeq DEF Init, TruthInv, TranscriptTellsTheTruth, HereRan, ConsentInv,
                EffectsHaveConsent, HereHasConsent

(* A step that adds something other than a result, between tool uses.      *)
LEMMA HonestyWhenTalking ==
  ASSUME TypeInv, TruthInv, ConsentInv, UserSpeaks \/ AssistantSpeaks,
         phase \notin ToolPhases, phase' \notin {"prehook", "posthook"},
         UNCHANGED <<mode, approved, effects>>
  PROVE  TruthInv' /\ ConsentInv'
<1>0. PICK n \in Nat : n = Len(session)
  BY LenProperties DEF TypeInv, TypeOK
<1>1. session \in Seq(Messages) /\ DOMAIN session = 1 .. n
  BY <1>0, LenProperties DEF TypeInv, TypeOK
<1>2. PICK e \in Messages : e.role # "tool" /\ session' = Append(session, e)
  <2>1. CASE UserSpeaks
    BY <2>1 DEF UserSpeaks, Messages, UserMessages
  <2>2. CASE AssistantSpeaks
    <3>1. PICK uses \in Replies, usage \in BOOLEAN :
            session' = Append(session, [role |-> "assistant", uses |-> uses, usage |-> usage])
      BY <2>2 DEF AssistantSpeaks
    <3>2. [role |-> "assistant", uses |-> uses, usage |-> usage] \in Messages
      BY RepliesAreSequences DEF Messages, AssistantMessages
    <3> QED
      BY <3>1, <3>2
  <2> QED
    BY <2>1, <2>2
<1>3. /\ DOMAIN session' = 1 .. n + 1
      /\ \A i \in 1 .. n : session'[i] = session[i]
      /\ session'[n + 1].role # "tool"
  BY <1>0, <1>1, <1>2, AppendProperties, LenProperties
<1>4. \A j \in effects : j \in 1 .. n /\ IsResult(j) /\ session[j].outcome.content = "output"
  BY <1>1 DEF TruthInv, TranscriptTellsTheTruth, IsResult, ToolPhases
<1>5. TranscriptTellsTheTruth'
  BY <1>1, <1>3, <1>4 DEF TruthInv, TranscriptTellsTheTruth, IsResult
<1>6. EffectsHaveConsent'
  BY <1>1, <1>3, <1>4 DEF ConsentInv, EffectsHaveConsent, IsResult, Grants
<1> QED
  BY <1>5, <1>6 DEF TruthInv, HereRan, ConsentInv, HereHasConsent

(* A step that pushes a result: an error unless the tool ran and said      *)
(* otherwise, an output exactly when the tool was reached.                 *)
LEMMA HonestyWhenPushing ==
  ASSUME TypeInv, TruthInv, ConsentInv, phase \in ToolPhases,
         NEW content \in Contents, NEW error \in BOOLEAN,
         PushResult(content, error),
         phase = "posthook" => content = "output",
         ~ error => phase = "posthook" /\ ~ failed,
         approved \subseteq approved', UNCHANGED <<mode, effects>>
  PROVE  TruthInv' /\ ConsentInv'
<1>0. PICK n \in Nat : n = Len(session)
  BY LenProperties DEF TypeInv, TypeOK
<1>1. session \in Seq(Messages) /\ DOMAIN session = 1 .. n /\ Here = n + 1
  BY <1>0, LenProperties DEF TypeInv, TypeOK, Here
<1>2. pending # <<>> /\ Head(pending) \in Uses
  BY HeadTailProperties DEF TypeInv, TypeOK, PendingInToolPhases
<1> DEFINE e == [role |-> "tool", use |-> Head(pending),
                 outcome |-> [content |-> content, error |-> error]]
<1>3. e \in Messages
  BY <1>2 DEF Messages, ToolMessages, Outcomes
<1>4. session' = Append(session, e) /\ phase' \in {"request", "authorize"}
  BY DEF PushResult
<1>5. /\ DOMAIN session' = 1 .. n + 1
      /\ \A i \in 1 .. n : session'[i] = session[i]
      /\ session'[n + 1] = e
  BY <1>0, <1>1, <1>3, <1>4, AppendProperties, LenProperties
<1>6. \A j \in effects : \/ j \in 1 .. n /\ IsResult(j) /\ session[j].outcome.content = "output"
                         \/ j = n + 1 /\ phase = "posthook"
  BY <1>1 DEF TruthInv, TranscriptTellsTheTruth, IsResult
<1>7. TranscriptTellsTheTruth'
  <2>1. \A j \in effects : j \in 1 .. n + 1 /\ session'[j].role = "tool"
                           /\ session'[j].outcome.content = "output"
    BY <1>1, <1>5, <1>6 DEF IsResult
  <2>2. \A j \in 1 .. n : session[j].role = "tool" /\ ~ session[j].outcome.error => j \in effects
    BY <1>1 DEF TruthInv, TranscriptTellsTheTruth
  <2>3. ~ error => n + 1 \in effects
    BY <1>1 DEF TruthInv, HereRan
  <2> QED
    BY <1>5, <2>1, <2>2, <2>3 DEF TranscriptTellsTheTruth, IsResult
<1>8. EffectsHaveConsent'
  <2>1. \A j \in effects : j \in 1 .. n => Consent(j, session[j].use.name)
    BY <1>6 DEF ConsentInv, EffectsHaveConsent, Consent
  <2>2. n + 1 \in effects => Consent(n + 1, Head(pending).name)
    BY <1>1, <1>6 DEF ConsentInv, HereHasConsent
  <2> QED
    BY <1>5, <1>6, <2>1, <2>2 DEF EffectsHaveConsent, IsResult, Consent, Grants
<1> QED
  BY <1>4, <1>7, <1>8 DEF TruthInv, HereRan, ConsentInv, HereHasConsent

LEMMA HonestyStep == TypeInv /\ TruthInv /\ ConsentInv /\ [Next]_vars => TruthInv' /\ ConsentInv'
<1> SUFFICES ASSUME TypeInv, TruthInv, ConsentInv, [Next]_vars
             PROVE  TruthInv' /\ ConsentInv'
  OBVIOUS
<1> USE DEF history
<1>1. CASE StartTurn
  <2>1. UserSpeaks
    BY <1>1 DEF StartTurn, UserSpeaks, TypeInv, PendingInToolPhases, ToolPhases
  <2> QED
    BY <1>1, <2>1, HonestyWhenTalking DEF StartTurn, ToolPhases
<1>2. CASE AssistantReplies
  <2>1. AssistantSpeaks
    BY <1>2 DEF AssistantReplies, AssistantSpeaks, TypeInv, PendingInToolPhases, ToolPhases
  <2> QED
    BY <1>2, <2>1, HonestyWhenTalking DEF AssistantReplies, ToolPhases
<1>3. CASE \/ ExceedIterations \/ SendRequest \/ StreamFails
           \/ PreHookPasses \/ PostHookPasses \/ UNCHANGED vars
  BY <1>3 DEF ExceedIterations, SendRequest, StreamFails, PreHookPasses, PostHookPasses, vars,
     TruthInv, TranscriptTellsTheTruth, HereRan, ConsentInv, EffectsHaveConsent,
     HereHasConsent, Consent, Grants, IsResult, Here
<1>4. CASE AuthorizeByMode
  BY <1>4 DEF AuthorizeByMode, Proceed, TruthInv, TranscriptTellsTheTruth, HereRan, ConsentInv,
     EffectsHaveConsent, HereHasConsent, Consent, Grants, IsResult, Here
<1>5. CASE AuthorizeByPrompt
  <2>1. MayEscalate(mode, Head(pending).name) /\ phase = "authorize"
    BY <1>5 DEF AuthorizeByPrompt
  <2>2. mode # "read-only"
    BY <2>1 DEF MayEscalate
  <2>3. CASE Proceed /\ approved' = approved \cup {Here}
    BY <1>5, <2>1, <2>2, <2>3 DEF AuthorizeByPrompt, Proceed, TruthInv, TranscriptTellsTheTruth,
       HereRan, ConsentInv, EffectsHaveConsent, HereHasConsent, Consent, Grants, IsResult, Here
  <2>4. CASE PushResult("refused", TRUE) /\ UNCHANGED approved
    BY <1>5, <2>1, <2>4, HonestyWhenPushing DEF AuthorizeByPrompt, ToolPhases, Contents
  <2> QED
    BY <1>5, <2>3, <2>4 DEF AuthorizeByPrompt
<1>6. CASE Refuse
  BY <1>6, HonestyWhenPushing DEF Refuse, ToolPhases, Contents
<1>7. CASE PreHookDenies
  BY <1>7, HonestyWhenPushing DEF PreHookDenies, ToolPhases, Contents
<1>8. CASE ExecutorRejects \/ ToolRuns
  <2>1. /\ UNCHANGED <<mode, session, pending, approved>>
        /\ phase = "prehook" /\ phase' = "posthook"
        /\ \/ effects' = effects /\ failed' = TRUE
           \/ effects' = effects \cup {Here}
    BY <1>8 DEF ExecutorRejects, ToolRuns
  <2>2. Here \notin DOMAIN session
    BY LenProperties DEF TypeInv, TypeOK, Here
  <2> QED
    BY <2>1, <2>2 DEF TruthInv, TranscriptTellsTheTruth, HereRan, ConsentInv,
       EffectsHaveConsent, HereHasConsent, Consent, Grants, IsResult, Here
<1>9. CASE PostHookDenies
  BY <1>9, HonestyWhenPushing DEF PostHookDenies, ToolPhases, Contents
<1>10. CASE FinishTool
  BY <1>10, HonestyWhenPushing DEF FinishTool, ToolPhases, Contents, TypeInv, TypeOK
<1> QED
  BY <1>1, <1>2, <1>3, <1>4, <1>5, <1>6, <1>7, <1>8, <1>9, <1>10 DEF Next, RunTurn, HandleTool

LEMMA HonestyHolds == SafeSpec => [](TruthInv /\ ConsentInv)
<1>1. QED
  BY TypeInvHolds, HonestyInit, HonestyStep, PTL DEF SafeSpec

(* The transcript reports every tool that ran, and no success of one that  *)
(* did not run.                                                            *)
THEOREM TranscriptIsTrue == Spec => []TranscriptTellsTheTruth
<1>1. TruthInv => TranscriptTellsTheTruth
  BY DEF TruthInv
<1>2. QED
  BY <1>1, HonestyHolds, PTL DEF Spec

(* No tool runs without consent, in any mode.  *)
THEOREM NoEffectWithoutConsent == Spec => []EffectsHaveConsent
<1>1. ConsentInv => EffectsHaveConsent
  BY DEF ConsentInv
<1>2. QED
  BY <1>1, HonestyHolds, PTL DEF Spec

-----------------------------------------------------------------------------
(* The usage tracker.  *)
WithUsage(s) == {i \in DOMAIN s : s[i].role = "assistant" /\ s[i].usage}

LEMMA AppendCountsUsage ==
  ASSUME NEW s \in Seq(Messages), NEW e \in Messages
  PROVE  /\ IsFiniteSet(WithUsage(s))
         /\ Cardinality(WithUsage(Append(s, e))) =
              IF e.role = "assistant" /\ e.usage THEN Cardinality(WithUsage(s)) + 1
              ELSE Cardinality(WithUsage(s))
<1>0. PICK n \in Nat : n = Len(s)
  BY LenProperties
<1>1. /\ DOMAIN s = 1 .. n /\ DOMAIN Append(s, e) = 1 .. n + 1
      /\ \A i \in 1 .. n : Append(s, e)[i] = s[i]
      /\ Append(s, e)[n + 1] = e
  BY <1>0, AppendProperties, LenProperties
<1>2. IsFiniteSet(WithUsage(s)) /\ n + 1 \notin WithUsage(s)
  <2>1. IsFiniteSet(1 .. n)
    BY FS_Interval
  <2>2. WithUsage(s) \subseteq 1 .. n
    BY <1>1 DEF WithUsage
  <2> QED
    BY <2>1, <2>2, FS_Subset
<1>3. CASE e.role = "assistant" /\ e.usage
  <2>1. WithUsage(Append(s, e)) = WithUsage(s) \cup {n + 1}
    BY <1>1, <1>3 DEF WithUsage
  <2> QED
    BY <1>2, <1>3, <2>1, FS_AddElement
<1>4. CASE ~ (e.role = "assistant" /\ e.usage)
  <2>1. WithUsage(Append(s, e)) = WithUsage(s)
    BY <1>1, <1>4 DEF WithUsage
  <2> QED
    BY <1>2, <1>4, <2>1
<1> QED
  BY <1>2, <1>3, <1>4

UsageInv == recorded = Cardinality(WithUsage(session))

LEMMA UsageStep == TypeInv /\ UsageInv /\ [Next]_vars => UsageInv'
<1> SUFFICES ASSUME TypeInv, UsageInv, [Next]_vars
             PROVE  UsageInv'
  OBVIOUS
<1>1. session \in Seq(Messages)
  BY DEF TypeInv, TypeOK
<1>2. CASE AssistantReplies
  <2>1. PICK uses \in Replies, usage \in BOOLEAN :
          /\ session' = Append(session, [role |-> "assistant", uses |-> uses, usage |-> usage])
          /\ recorded' = IF usage THEN recorded + 1 ELSE recorded
    BY <1>2 DEF AssistantReplies
  <2> DEFINE e == [role |-> "assistant", uses |-> uses, usage |-> usage]
  <2>2. e \in Messages
    BY RepliesAreSequences DEF Messages, AssistantMessages
  <2>3. e.role = "assistant" /\ e.usage = usage
    OBVIOUS
  <2> QED
    BY <1>1, <2>1, <2>2, <2>3, AppendCountsUsage DEF UsageInv
<1>3. ASSUME NEW e \in Messages, e.role # "assistant",
             session' = Append(session, e), recorded' = recorded
      PROVE  UsageInv'
  BY <1>1, <1>3, AppendCountsUsage DEF UsageInv
<1>4. CASE StartTurn
  <2>1. [role |-> "user"] \in Messages
    BY DEF Messages, UserMessages
  <2> QED
    BY <1>3, <1>4, <2>1 DEF StartTurn
<1>5. ASSUME phase \in ToolPhases, recorded' = recorded,
             NEW content \in Contents, NEW error \in BOOLEAN, PushResult(content, error)
      PROVE  UsageInv'
  <2>1. Head(pending) \in Uses
    BY <1>5, HeadTailProperties DEF TypeInv, TypeOK, PendingInToolPhases
  <2> DEFINE e == [role |-> "tool", use |-> Head(pending),
                   outcome |-> [content |-> content, error |-> error]]
  <2>2. e \in Messages /\ e.role # "assistant"
    BY <2>1 DEF Messages, ToolMessages, Outcomes
  <2> QED
    BY <1>3, <1>5, <2>2 DEF PushResult
<1>6. ASSUME session' = session, recorded' = recorded
      PROVE  UsageInv'
  BY <1>6 DEF UsageInv
<1>7. CASE \/ ExceedIterations \/ SendRequest \/ StreamFails \/ AuthorizeByMode
           \/ PreHookPasses \/ ExecutorRejects \/ ToolRuns \/ PostHookPasses \/ UNCHANGED vars
  BY <1>6, <1>7 DEF ExceedIterations, SendRequest, StreamFails, AuthorizeByMode, Proceed,
     PreHookPasses, ExecutorRejects, ToolRuns, PostHookPasses, vars
<1>8. CASE AuthorizeByPrompt
  BY <1>5, <1>6, <1>8 DEF AuthorizeByPrompt, Proceed, ToolPhases, Contents
<1>9. CASE Refuse \/ PreHookDenies \/ PostHookDenies
  BY <1>5, <1>9 DEF Refuse, PreHookDenies, PostHookDenies, ToolPhases, Contents
<1>10. CASE FinishTool
  BY <1>5, <1>10 DEF FinishTool, ToolPhases, Contents, TypeInv, TypeOK
<1> QED
  BY <1>2, <1>4, <1>7, <1>8, <1>9, <1>10 DEF Next, RunTurn, HandleTool

(* A runtime rebuilt from the session would show the usage this one shows. *)
THEOREM UsageIsReconstructible == Spec => []UsageMatchesSession
<1>1. Init => UsageInv
  <2> SUFFICES ASSUME Init
               PROVE  UsageInv
    OBVIOUS
  <2>1. WithUsage(session) = {}
    BY EmptySeq DEF Init, WithUsage
  <2> QED
    BY <2>1, FS_EmptySet DEF Init, UsageInv
<1>2. UsageInv => UsageMatchesSession
  BY DEF UsageInv, UsageMatchesSession, WithUsage
<1>3. QED
  BY <1>1, <1>2, UsageStep, TypeInvHolds, PTL DEF Spec, SafeSpec

-----------------------------------------------------------------------------
(* Every step of the runtime is a step of the dialogue it promises, or a   *)
(* step the dialogue does not see.                                         *)
LEMMA DialogueInit == Init => Dialogue!Init
BY DEF Init, Dialogue!Init

LEMMA DialogueStep == TypeInv /\ [Next]_vars => [Dialogue!Next]_(Dialogue!vars)
<1> SUFFICES ASSUME TypeInv, [Next]_vars
             PROVE  Dialogue!Next \/ UNCHANGED Dialogue!vars
  OBVIOUS
<1> USE DEF ToolPhases
<1>1. phase \in ToolPhases <=> pending # <<>>
  BY DEF TypeInv, PendingInToolPhases
<1>2. CASE StartTurn
  BY <1>2 DEF StartTurn, Dialogue!Next, Dialogue!Ask
<1>3. CASE ExceedIterations \/ StreamFails
  BY <1>1, <1>3 DEF ExceedIterations, StreamFails, Dialogue!Next, Dialogue!GiveUp
<1>4. CASE AssistantReplies
  <2>1. phase = "streaming" /\ pending = <<>>
    BY <1>1, <1>4 DEF AssistantReplies
  <2>2. Dialogue!Reply
    BY <1>4, <2>1 DEF AssistantReplies, Dialogue!Reply
  <2> QED
    BY <2>2 DEF Dialogue!Next
<1>5. ASSUME phase \in ToolPhases, NEW content \in Contents, NEW error \in BOOLEAN,
             PushResult(content, error)
      PROVE  Dialogue!Next
  <2>1. [content |-> content, error |-> error] \in Outcomes
    BY DEF Outcomes
  <2>2. Dialogue!Answer
    BY <1>1, <1>5, <2>1 DEF PushResult, Dialogue!Answer
  <2> QED
    BY <2>2 DEF Dialogue!Next
<1>6. ASSUME UNCHANGED <<session, pending>>, phase # "idle", phase' # "idle"
      PROVE  UNCHANGED Dialogue!vars
  BY <1>6 DEF Dialogue!vars
<1>7. CASE \/ SendRequest \/ AuthorizeByMode \/ PreHookPasses
           \/ ExecutorRejects \/ ToolRuns \/ PostHookPasses
  BY <1>6, <1>7 DEF SendRequest, AuthorizeByMode, Proceed, PreHookPasses, ExecutorRejects,
     ToolRuns, PostHookPasses
<1>8. CASE AuthorizeByPrompt
  BY <1>5, <1>6, <1>8 DEF AuthorizeByPrompt, Proceed, Contents
<1>9. CASE Refuse \/ PreHookDenies \/ PostHookDenies
  BY <1>5, <1>9 DEF Refuse, PreHookDenies, PostHookDenies, Contents
<1>10. CASE FinishTool
  BY <1>5, <1>10 DEF FinishTool, Contents, TypeInv, TypeOK
<1>11. CASE UNCHANGED vars
  BY <1>11 DEF vars, Dialogue!vars
<1> QED
  BY <1>2, <1>3, <1>4, <1>7, <1>8, <1>9, <1>10, <1>11 DEF Next, RunTurn, HandleTool

(* The runtime implements the dialogue (its safety part: that open tool    *)
(* uses are answered in the end is model-checked).                         *)
THEOREM ImplementsDialogue == Spec => Dialogue!SafeSpec
<1>1. QED
  BY TypeInvHolds, DialogueInit, DialogueStep, PTL DEF Spec, SafeSpec, Dialogue!SafeSpec

(* The transcript can always be sent and resumed, and resuming it computes *)
(* the usage that was tracked: for any tools, policy, hooks and bounds.    *)
THEOREM ConversationIsSound == Spec => []ConversationInv
<1>1. TypeOK /\ TranscriptWellFormed /\ UsageMatchesSession => ConversationInv
  BY DEF ConversationInv
<1>2. QED
  BY <1>1, TypeCorrect, TranscriptIsWellFormed, UsageIsReconstructible, PTL

=============================================================================
