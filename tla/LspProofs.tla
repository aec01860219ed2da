------------------------------ MODULE LspProofs ------------------------------
(***************************************************************************)
(* Theorems about LspRequests, for any finite set of tasks and any number  *)
(* of requests of the server, and about LspDocuments, for any finite sets  *)
(* of callers, servers and documents.                                      *)
(***************************************************************************)
EXTENDS LspRequests, LspDocuments, FiniteSetTheorems, SequenceTheorems, TLAPS

(* The counter counts the ids drawn: it stays within Ids for as long as a  *)
(* task has none, and no two tasks hold the same id.                       *)
Drawn == {t \in Tasks : pc[t] # "start"}
IdsAreDrawn ==
  /\ nextId = Cardinality(Drawn) + 1
  /\ \A t \in Tasks : IF t \in Drawn THEN id[t] \in Ids /\ id[t] < nextId ELSE id[t] = None
  /\ \A t, u \in Drawn : id[t] = id[u] => t = u

(* Nothing arrives before the sender is in the map.                        *)
NothingArrivedYet == \A t \in Tasks : pc[t] \in {"start", "insert"} => reply[t] = NoReply

(* A sender is of a task that sends or waits, and was told nothing yet.    *)
SendersAreOfWaiters ==
  \A i \in pending : \E t \in Drawn : id[t] = i /\ pc[t] \in {"send", "wait"} /\ reply[t] = NoReply

QuestionsWereAsked ==
  \A k \in 1 .. Len(toClient) : toClient[k].kind = "question" => asked > 0

IInv ==
  /\ TypeOK
  /\ IdsAreDrawn
  /\ NothingArrivedYet
  /\ SendersAreOfWaiters
  /\ WaiterCanBeWoken
  /\ QuestionsWereAsked
  /\ AnswersAreOnesOwn

-----------------------------------------------------------------------------
LEMMA CountIsNatural == Cardinality(Tasks) \in Nat
BY LspRequestsAssumption, FS_CardinalityType

LEMMA DrawnIsCounted ==
  /\ IsFiniteSet(Drawn) /\ Cardinality(Drawn) \in 0 .. Cardinality(Tasks)
  /\ \A t \in Tasks \ Drawn :
       /\ Cardinality(Drawn) + 1 \in Ids
       /\ Cardinality(Drawn \cup {t}) = Cardinality(Drawn) + 1
<1>1. Drawn \in SUBSET Tasks
  BY DEF Drawn
<1>2. /\ IsFiniteSet(Drawn) /\ Cardinality(Drawn) <= Cardinality(Tasks)
      /\ Cardinality(Drawn) = Cardinality(Tasks) => Drawn = Tasks
  BY <1>1, LspRequestsAssumption, FS_Subset
<1>3. Cardinality(Drawn) \in Nat
  BY <1>2, FS_CardinalityType
<1>4. ASSUME NEW t \in Tasks \ Drawn
      PROVE  /\ Cardinality(Drawn) + 1 \in Ids
             /\ Cardinality(Drawn \cup {t}) = Cardinality(Drawn) + 1
  <2>1. Cardinality(Drawn) # Cardinality(Tasks)
    BY <1>2, <1>4
  <2>2. Cardinality(Drawn \cup {t}) = Cardinality(Drawn) + 1
    BY <1>2, <1>4, FS_AddElement
  <2> QED
    BY <1>2, <1>3, <2>1, <2>2, CountIsNatural DEF Ids
<1>5. Cardinality(Drawn) \in 0 .. Cardinality(Tasks)
  BY <1>2, <1>3, CountIsNatural
<1> QED
  BY <1>2, <1>4, <1>5

(* Frames are what the reader tells apart.                                 *)
LEMMA FramesByKind ==
  ASSUME NEW f \in Frames
  PROVE  \/ f = Garbage
         \/ (f.id \in Ids /\ f = Answer(f.id) /\ f.kind = "answer")
         \/ (f.id \in Ids /\ f = Question(f.id) /\ f.kind = "question")
BY DEF Frames, Answer, Question

LEMMA KindsDiffer ==
  /\ Garbage.kind = "garbage" /\ Failure.kind = "failure" /\ NoReply.kind = "none"
  /\ \A i : Answer(i).kind = "answer" /\ Question(i).kind = "question"
BY DEF Garbage, Failure, NoReply, Answer, Question

LEMMA FramesAreTyped == \A i \in Ids : Answer(i) \in Frames /\ Question(i) \in Frames
BY DEF Frames

LEMMA WritingKeepsTheFrames ==
  ASSUME toClient \in Seq(Frames), QuestionsWereAsked, NEW f \in Frames, Write(f),
         asked' \in Nat, asked > 0 => asked' > 0, f.kind = "question" => asked' > 0
  PROVE  toClient' \in Seq(Frames) /\ QuestionsWereAsked'
<1>1. CASE reader = "running"
  <2>1. toClient' = Append(toClient, f)
    BY <1>1 DEF Write
  <2>2. /\ toClient' \in Seq(Frames) /\ Len(toClient') = Len(toClient) + 1
        /\ \A k \in 1 .. Len(toClient) : toClient'[k] = toClient[k]
        /\ toClient'[Len(toClient) + 1] = f
    BY <2>1, AppendProperties
  <2>3. Len(toClient) \in Nat
    BY LenProperties
  <2> QED
    BY <2>2, <2>3 DEF QuestionsWereAsked
<1>2. CASE reader # "running"
  BY <1>2 DEF Write, QuestionsWereAsked
<1> QED
  BY <1>1, <1>2

LEMMA TakingKeepsTheFrames ==
  ASSUME toClient \in Seq(Frames), toClient # <<>>, QuestionsWereAsked,
         toClient' = Tail(toClient), asked' = asked
  PROVE  /\ toClient' \in Seq(Frames) /\ QuestionsWereAsked'
         /\ Head(toClient) \in Frames
         /\ Head(toClient).kind = "question" => asked > 0
<1>1. /\ Head(toClient) \in Frames /\ Tail(toClient) \in Seq(Frames)
      /\ Len(Tail(toClient)) = Len(toClient) - 1
      /\ \A k \in 1 .. Len(Tail(toClient)) : Tail(toClient)[k] = toClient[k + 1]
  BY HeadTailProperties
<1>2. Len(toClient) \in Nat /\ Len(toClient) # 0
  BY EmptySeq
<1>3. Head(toClient) = toClient[1]
  OBVIOUS
<1> QED
  BY <1>1, <1>2, <1>3 DEF QuestionsWereAsked

LEMMA IInvInit == Init => IInv
<1> SUFFICES ASSUME Init
             PROVE  IInv
  OBVIOUS
<1>1. Drawn = {} /\ Cardinality(Drawn) = 0
  <2>1. Drawn = {}
    BY DEF Init, Drawn
  <2> QED
    BY <2>1, FS_EmptySet
<1>2. toServer \in Seq(Ids) /\ toClient \in Seq(Frames) /\ Len(toClient) = 0
  BY EmptySeq DEF Init
<1>3. nextId \in 1 .. Cardinality(Tasks) + 1 /\ asked \in 0 .. ServerAsks
  BY CountIsNatural, LspRequestsAssumption DEF Init
<1>4. TypeOK
  BY <1>2, <1>3 DEF Init, TypeOK
<1>5. IdsAreDrawn
  BY <1>1 DEF Init, IdsAreDrawn
<1>6. QuestionsWereAsked
  BY <1>2 DEF QuestionsWereAsked
<1> QED
  BY <1>4, <1>5, <1>6 DEF Init, IInv, NothingArrivedYet, SendersAreOfWaiters, WaiterCanBeWoken,
     AnswersAreOnesOwn

(* A step that moves no task and no sender: only the pipes have changed.   *)
LEMMA PipesMove ==
  ASSUME IInv, TypeOK', QuestionsWereAsked', UNCHANGED <<nextId, pending, pc, id, reply>>,
         asked > 0 => asked' > 0
  PROVE  IInv'
<1>1. IdsAreDrawn' /\ NothingArrivedYet' /\ SendersAreOfWaiters' /\ WaiterCanBeWoken'
  BY DEF IInv, IdsAreDrawn, Drawn, NothingArrivedYet, SendersAreOfWaiters, WaiterCanBeWoken
<1>2. AnswersAreOnesOwn'
  BY DEF IInv, AnswersAreOnesOwn
<1> QED
  BY <1>1, <1>2 DEF IInv

(* A task that goes on after it drew its id.                               *)
LEMMA IdsStay ==
  ASSUME IdsAreDrawn, UNCHANGED <<nextId, id>>, Drawn' = Drawn
  PROVE  IdsAreDrawn'
BY DEF IdsAreDrawn

LEMMA IInvStep == IInv /\ [Next]_vars => IInv'
<1> SUFFICES ASSUME IInv, [Next]_vars
             PROVE  IInv'
  OBVIOUS
<1> USE DEF IInv
<1>1. ASSUME NEW t \in Tasks, DrawId(t)
      PROVE  IInv'
  <2>1. t \notin Drawn /\ Drawn' = Drawn \cup {t}
    BY <1>1 DEF DrawId, Drawn, TypeOK
  <2>2. /\ nextId \in Ids /\ nextId = Cardinality(Drawn) + 1
        /\ nextId' = Cardinality(Drawn') + 1
    BY <1>1, <2>1, DrawnIsCounted DEF DrawId, IdsAreDrawn
  <2>3. id'[t] = nextId /\ \A u \in Tasks \ {t} : id'[u] = id[u] /\ pc'[u] = pc[u]
    BY <1>1 DEF DrawId, TypeOK
  <2>4. pc'[t] = "insert" /\ pc[t] = "start"
    BY <1>1 DEF DrawId, TypeOK
  <2>5. nextId \in 1 .. Cardinality(Tasks) /\ nextId' = nextId + 1
    BY <1>1, <2>2 DEF Ids, DrawId
  <2>6. TypeOK'
    BY <1>1, <2>2, <2>5, CountIsNatural DEF DrawId, TypeOK
  <2>7. IdsAreDrawn'
    <3>1. \A u \in Drawn : id[u] \in Ids /\ id[u] < nextId /\ u # t
      BY <2>1 DEF IdsAreDrawn, Drawn
    <3>2. \A u \in Drawn' : id'[u] \in Ids /\ id'[u] < nextId'
      BY <2>1, <2>2, <2>3, <2>5, <3>1 DEF Drawn, Ids
    <3>3. \A u, v \in Drawn' : id'[u] = id'[v] => u = v
      <4>1. \A u \in Drawn : id'[u] = id[u] /\ id'[u] # id'[t]
        BY <2>3, <2>5, <3>1 DEF Drawn, Ids
      <4> QED
        BY <2>1, <4>1 DEF IdsAreDrawn
    <3>4. \A u \in Tasks \ Drawn' : id'[u] = None
      BY <2>1, <2>3 DEF IdsAreDrawn, Drawn
    <3> QED
      BY <2>2, <3>2, <3>3, <3>4 DEF IdsAreDrawn
  <2>8. NothingArrivedYet' /\ WaiterCanBeWoken' /\ QuestionsWereAsked'
    BY <1>1, <2>3, <2>4 DEF DrawId, NothingArrivedYet, WaiterCanBeWoken, QuestionsWereAsked
  <2>9. SendersAreOfWaiters'
    BY <1>1, <2>1, <2>3 DEF DrawId, SendersAreOfWaiters, Drawn
  <2>10. AnswersAreOnesOwn'
    BY <1>1, <2>3, <2>4 DEF DrawId, AnswersAreOnesOwn, NothingArrivedYet
  <2> QED
    BY <2>6, <2>7, <2>8, <2>9, <2>10
<1>2. ASSUME NEW t \in Tasks, Insert(t)
      PROVE  IInv'
  <2>1. /\ pc[t] = "insert" /\ pc'[t] = "send" /\ t \in Drawn /\ id[t] \in Ids
        /\ \A u \in Tasks \ {t} : pc'[u] = pc[u]
    BY <1>2 DEF Insert, Drawn, TypeOK, IdsAreDrawn
  <2>2. Drawn' = Drawn
    BY <2>1 DEF Drawn
  <2>3. TypeOK'
    BY <1>2, <2>1 DEF Insert, TypeOK
  <2>4. IdsAreDrawn'
    BY <1>2, <2>2, IdsStay DEF Insert
  <2>5. SendersAreOfWaiters'
    BY <1>2, <2>1, <2>2 DEF Insert, SendersAreOfWaiters, NothingArrivedYet, Drawn
  <2> QED
    BY <1>2, <2>1, <2>3, <2>4, <2>5 DEF Insert, NothingArrivedYet, WaiterCanBeWoken,
       QuestionsWereAsked, AnswersAreOnesOwn
<1>3. ASSUME NEW t \in Tasks, Send(t)
      PROVE  IInv'
  <2>1. /\ pc[t] = "send" /\ pc'[t] = "wait" /\ t \in Drawn /\ id[t] \in Ids
        /\ \A u \in Tasks \ {t} : pc'[u] = pc[u]
    BY <1>3 DEF Send, Drawn, TypeOK, IdsAreDrawn
  <2>2. Drawn' = Drawn
    BY <2>1 DEF Drawn
  <2>3. toServer' \in Seq(Ids)
    BY <1>3, <2>1, AppendProperties DEF Send, TypeOK
  <2>4. TypeOK'
    BY <1>3, <2>3 DEF Send, TypeOK
  <2>5. IdsAreDrawn'
    BY <1>3, <2>2, IdsStay DEF Send
  <2>6. SendersAreOfWaiters'
    BY <1>3, <2>1, <2>2 DEF Send, SendersAreOfWaiters, Drawn
  <2> QED
    BY <1>3, <2>1, <2>4, <2>5, <2>6 DEF Send, NothingArrivedYet, WaiterCanBeWoken,
       QuestionsWereAsked, AnswersAreOnesOwn
<1>4. ASSUME NEW t \in Tasks, SendFails(t)
      PROVE  IInv'
  <2>1. /\ pc[t] = "send" /\ pc'[t] = "failed" /\ t \in Drawn
        /\ \A u \in Tasks \ {t} : pc'[u] = pc[u]
    BY <1>4 DEF SendFails, Drawn, TypeOK
  <2>2. Drawn' = Drawn
    BY <2>1 DEF Drawn
  <2>3. TypeOK'
    BY <1>4 DEF SendFails, TypeOK
  <2>4. IdsAreDrawn'
    BY <1>4, <2>2, IdsStay DEF SendFails
  <2>5. SendersAreOfWaiters'
    BY <1>4, <2>1, <2>2 DEF SendFails, SendersAreOfWaiters, Drawn
  <2>6. WaiterCanBeWoken'
    BY <1>4, <2>1 DEF SendFails, WaiterCanBeWoken, IdsAreDrawn, Drawn
  <2> QED
    BY <1>4, <2>1, <2>3, <2>4, <2>5, <2>6 DEF SendFails, NothingArrivedYet,
       QuestionsWereAsked, AnswersAreOnesOwn
<1>5. ASSUME NEW t \in Tasks, Receive(t)
      PROVE  IInv'
  <2>1. /\ pc[t] = "wait" /\ pc'[t] \in {"failed", "done"} /\ t \in Drawn /\ reply[t] # NoReply
        /\ \A u \in Tasks \ {t} : pc'[u] = pc[u]
    BY <1>5 DEF Receive, Drawn, TypeOK
  <2>2. Drawn' = Drawn
    BY <2>1 DEF Drawn
  <2>3. TypeOK'
    BY <1>5 DEF Receive, TypeOK
  <2>4. IdsAreDrawn'
    BY <1>5, <2>2, IdsStay DEF Receive
  <2>5. SendersAreOfWaiters'
    BY <1>5, <2>1, <2>2 DEF Receive, SendersAreOfWaiters, Drawn
  <2> QED
    BY <1>5, <2>1, <2>3, <2>4, <2>5 DEF Receive, NothingArrivedYet, WaiterCanBeWoken,
       QuestionsWereAsked, AnswersAreOnesOwn
<1>6. CASE ReadResponse
  <2> DEFINE f == Head(toClient)
  <2>1. /\ toClient' \in Seq(Frames) /\ QuestionsWereAsked' /\ f \in Frames
        /\ f.kind = "question" => asked > 0
    BY <1>6, TakingKeepsTheFrames DEF ReadResponse, TypeOK
  <2>2. f # Garbage /\ f # NoReply /\ (f = Answer(f.id) \/ (f = Question(f.id) /\ asked > 0))
    BY <1>6, <2>1, FramesByKind, KindsDiffer DEF ReadResponse
  <2>3. CASE f.id \in pending
    <3>1. /\ pending' = pending \ {f.id}
          /\ reply' = [t \in Tasks |-> IF id[t] = f.id THEN f ELSE reply[t]]
      BY <1>6, <2>3 DEF ReadResponse, Deliver
    <3>2. TypeOK'
      BY <1>6, <2>1, <3>1 DEF ReadResponse, TypeOK
    <3>3. Drawn' = Drawn /\ IdsAreDrawn'
      <4>1. Drawn' = Drawn
        BY <1>6 DEF ReadResponse, Drawn
      <4> QED
        BY <1>6, <4>1, IdsStay DEF ReadResponse
    <3>4. PICK w \in Drawn : id[w] = f.id /\ pc[w] \in {"send", "wait"}
      BY <2>3 DEF SendersAreOfWaiters
    <3>5. \A u \in Tasks : u # w => id[u] # f.id /\ reply'[u] = reply[u]
      <4>1. f.id # None
        BY <3>4 DEF IdsAreDrawn, Ids, None, Drawn
      <4> QED
        BY <3>1, <3>4, <4>1 DEF IdsAreDrawn
    <3>6. reply'[w] = f
      BY <3>1, <3>4 DEF Drawn
    <3>7. NothingArrivedYet'
      BY <1>6, <3>4, <3>5 DEF ReadResponse, NothingArrivedYet, Drawn
    <3>8. SendersAreOfWaiters'
      BY <1>6, <3>1, <3>3, <3>4, <3>5 DEF ReadResponse, SendersAreOfWaiters, Drawn
    <3>9. WaiterCanBeWoken'
      BY <1>6, <2>2, <3>1, <3>5, <3>6 DEF ReadResponse, WaiterCanBeWoken
    <3>10. AnswersAreOnesOwn'
      BY <1>6, <2>2, <3>4, <3>5, <3>6 DEF ReadResponse, AnswersAreOnesOwn
    <3> QED
      BY <2>1, <3>2, <3>3, <3>7, <3>8, <3>9, <3>10
  <2>4. CASE f.id \notin pending
    <3>1. UNCHANGED <<pending, reply>>
      BY <1>6, <2>4 DEF ReadResponse, Deliver
    <3>2. TypeOK'
      BY <1>6, <2>1, <3>1 DEF ReadResponse, TypeOK
    <3> QED
      BY <1>6, <2>1, <3>1, <3>2, PipesMove DEF ReadResponse
  <2> QED
    BY <2>3, <2>4
<1>7. CASE ReaderFails
  <2>1. reply' = [t \in Tasks |-> IF id[t] \in pending THEN Failure ELSE reply[t]] /\ pending' = {}
    BY <1>7 DEF ReaderFails
  <2>2. toClient' \in Seq(Frames) /\ Len(toClient') = 0
    BY <1>7, EmptySeq DEF ReaderFails
  <2>3. TypeOK'
    BY <1>7, <2>1, <2>2 DEF ReaderFails, TypeOK
  <2>4. QuestionsWereAsked'
    BY <2>2 DEF QuestionsWereAsked
  <2>5. IdsAreDrawn'
    <3>1. Drawn' = Drawn
      BY <1>7 DEF ReaderFails, Drawn
    <3> QED
      BY <1>7, <3>1, IdsStay DEF ReaderFails
  <2>6. NothingArrivedYet'
    <3>1. \A u \in Tasks : id[u] \in pending => pc[u] \in {"send", "wait"}
      BY DEF SendersAreOfWaiters, IdsAreDrawn, Ids, None, TypeOK
    <3> QED
      BY <1>7, <2>1, <3>1 DEF ReaderFails, NothingArrivedYet
  <2>7. SendersAreOfWaiters'
    BY <2>1 DEF SendersAreOfWaiters
  <2>8. WaiterCanBeWoken'
    BY <1>7, <2>1, KindsDiffer DEF ReaderFails, WaiterCanBeWoken
  <2>9. AnswersAreOnesOwn'
    BY <1>7, <2>1 DEF ReaderFails, AnswersAreOnesOwn
  <2> QED
    BY <2>3, <2>4, <2>5, <2>6, <2>7, <2>8, <2>9
<1>8. CASE ReaderEnds
  <2>1. TypeOK' /\ QuestionsWereAsked'
    BY <1>8 DEF ReaderEnds, TypeOK, QuestionsWereAsked
  <2> QED
    BY <1>8, <2>1, PipesMove DEF ReaderEnds
<1>9. CASE ServerReads
  <2>1. Head(toServer) \in Ids /\ Tail(toServer) \in Seq(Ids)
    BY <1>9, HeadTailProperties DEF ServerReads, TypeOK
  <2>2. TypeOK' /\ QuestionsWereAsked'
    BY <1>9, <2>1 DEF ServerReads, TypeOK, QuestionsWereAsked
  <2> QED
    BY <1>9, <2>2, PipesMove DEF ServerReads
<1>10. CASE ServerAnswers
  <2>1. PICK i \in heard : Write(Answer(i)) /\ heard' = heard \ {i}
    BY <1>10 DEF ServerAnswers
  <2>2. Answer(i) \in Frames /\ Answer(i).kind # "question"
    BY FramesAreTyped, KindsDiffer DEF TypeOK
  <2>3. asked \in Nat
    BY LspRequestsAssumption DEF TypeOK
  <2>4. toClient' \in Seq(Frames) /\ QuestionsWereAsked'
    BY <1>10, <2>1, <2>2, <2>3, WritingKeepsTheFrames DEF ServerAnswers, TypeOK
  <2>5. TypeOK'
    BY <1>10, <2>1, <2>4 DEF ServerAnswers, TypeOK
  <2> QED
    BY <1>10, <2>4, <2>5, PipesMove DEF ServerAnswers
<1>11. CASE ServerQuestions
  <2>1. asked' = asked + 1 /\ asked' \in 0 .. ServerAsks /\ asked \in Nat /\ asked + 1 \in Ids
    BY <1>11, LspRequestsAssumption, CountIsNatural DEF ServerQuestions, TypeOK, Ids
  <2>2. Question(asked + 1) \in Frames
    BY <2>1, FramesAreTyped
  <2>3. toClient' \in Seq(Frames) /\ QuestionsWereAsked'
    BY <1>11, <2>1, <2>2, WritingKeepsTheFrames DEF ServerQuestions, TypeOK
  <2>4. TypeOK'
    BY <1>11, <2>1, <2>3 DEF ServerQuestions, TypeOK
  <2> QED
    BY <1>11, <2>1, <2>3, <2>4, PipesMove DEF ServerQuestions
<1>12. CASE ServerGarbles
  <2>1. Garbage \in Frames /\ Garbage.kind # "question"
    BY KindsDiffer DEF Frames
  <2>2. asked \in Nat
    BY LspRequestsAssumption DEF TypeOK
  <2>3. toClient' \in Seq(Frames) /\ QuestionsWereAsked'
    BY <1>12, <2>1, <2>2, WritingKeepsTheFrames DEF ServerGarbles, TypeOK
  <2>4. TypeOK'
    BY <1>12, <2>3 DEF ServerGarbles, TypeOK
  <2> QED
    BY <1>12, <2>3, <2>4, PipesMove DEF ServerGarbles
<1>13. CASE ServerExits
  <2>1. toServer' \in Seq(Ids)
    BY <1>13, EmptySeq DEF ServerExits
  <2>2. TypeOK' /\ QuestionsWereAsked'
    BY <1>13, <2>1 DEF ServerExits, TypeOK, QuestionsWereAsked
  <2> QED
    BY <1>13, <2>2, PipesMove DEF ServerExits
<1>14. CASE UNCHANGED vars
  <2>1. TypeOK' /\ QuestionsWereAsked'
    BY <1>14 DEF vars, TypeOK, QuestionsWereAsked
  <2> QED
    BY <1>14, <2>1, PipesMove DEF vars
<1> QED
  BY <1>1, <1>2, <1>3, <1>4, <1>5, <1>6, <1>7, <1>8, <1>9, <1>10, <1>11, <1>12, <1>13, <1>14
     DEF Next, TaskStep, ReaderStep, ServerStep

LEMMA IInvHolds == Spec => []IInv
<1>1. QED
  BY IInvInit, IInvStep, PTL DEF Spec

(* The map of senders is that of the waiting requests: no sender outlives  *)
(* its request, and no request waits without one or an answer.             *)
THEOREM SendersAreThoseOfWaiters == Spec => []SendersMatchWaiters
<1>1. IInv => SendersMatchWaiters
  <2> SUFFICES ASSUME IInv, NEW i \in pending
               PROVE  \E t \in Tasks :
                        /\ id[t] = i
                        /\ pc[t] \in {"send", "wait"}
                        /\ reply[t] = NoReply
                        /\ \A u \in Tasks : id[u] = i => u = t
    BY DEF IInv, SendersMatchWaiters, NoStraySender
  <2>1. PICK t \in Drawn : id[t] = i /\ pc[t] \in {"send", "wait"} /\ reply[t] = NoReply
    BY DEF IInv, SendersAreOfWaiters
  <2>2. i # None
    BY <2>1 DEF IInv, IdsAreDrawn, Drawn, Ids, None
  <2>3. \A u \in Tasks : id[u] = i => u = t
    BY <2>1, <2>2 DEF IInv, IdsAreDrawn
  <2> QED
    BY <2>1, <2>3 DEF Drawn
<1>2. QED
  BY <1>1, IInvHolds, PTL

(* What the run checks of the requests, for any number of tasks: each gets *)
(* the answer that is its own, in whatever order the server answers.       *)
THEOREM RequestsAreSound == Spec => []WaitersInv
<1>1. IInv => TypeOK /\ AnswersAreOnesOwn
  BY DEF IInv
<1>2. QED
  BY <1>1, IInvHolds, SendersAreThoseOfWaiters, PTL DEF WaitersInv

(* When the reader ends on an error, no request that waits is forgotten:   *)
(* the drain finds all of them in the map.                                 *)
THEOREM DrainForgetsNobody == Spec => FailureReleasesWaiters
<1>1. IInv /\ [Next]_vars =>
        [reader' = "failed" /\ reader = "running" =>
           \A t \in Tasks : pc[t] = "wait" => reply'[t] # NoReply]_vars
  <2> SUFFICES ASSUME IInv, Next, reader' = "failed", reader = "running",
                      NEW t \in Tasks, pc[t] = "wait"
               PROVE  reply'[t] # NoReply
    OBVIOUS
  <2>1. ReaderFails
    BY DEF Next, TaskStep, ReaderStep, ServerStep, DrawId, Insert, Send, SendFails, Receive,
       ReadResponse, ReaderEnds, ServerReads, ServerAnswers, ServerQuestions, ServerGarbles,
       ServerExits
  <2> QED
    BY <2>1, KindsDiffer DEF ReaderFails, IInv, WaiterCanBeWoken
<1>2. QED
  BY <1>1, IInvHolds, PTL DEF Spec, FailureReleasesWaiters

-----------------------------------------------------------------------------
(* The documents.  A call is idle, of a user of a document, of a user with *)
(* the version it drew, or a shutdown.                                     *)
Views == [open : BOOLEAN, version : Nat, sane : BOOLEAN]
Clients == [status : {"starting", "up", "dropped", "gone"}, tracked : [Documents -> Nat],
            told : [Documents -> Views], misused : SUBSET Documents]
UsingSteps == {"check", "write", "record", "ask", "wait"}
UserCalls == [op : Operations \cup {"lookup-open"}, doc : Documents,
              at : {"lock", "start"} \cup UsingSteps, client : Nat]
ChangedCalls == [op : {"changed"}, doc : Documents, at : {"write"}, client : Nat, version : Nat]
ShutdownCalls == [op : {"shutdown"}, at : {"kill", "stop", "stopping"},
                  stopping : (Servers \X Nat) \cup {<<>>}, left : SUBSET (Servers \X Nat)]

Written == {"open", "lookup-open", "save", "close"}

Numbers(s) == 1 .. Len(started[s])
Using(t) == call[t].at \in UsingSteps

CallTyped(t) ==
  \/ call[t] = Idle
  \/ /\ call[t] \in UserCalls
     /\ call[t].at # "lock" => call[t].client \in Numbers(Home[call[t].doc])
     /\ call[t].at = "write" => call[t].op \in Written
  \/ call[t] \in ChangedCalls /\ call[t].client \in Numbers(Home[call[t].doc])
  \/ /\ call[t] \in ShutdownCalls
     /\ call[t].at # "kill" => call[t].stopping # <<>>
     /\ \A c \in call[t].left \cup {call[t].stopping} : c # <<>> => c[2] \in Numbers(c[1])

DocumentsTyped ==
  /\ started \in [Servers -> Seq(Clients)]
  /\ registry \in [Servers -> Nat] /\ \A s \in Servers : registry[s] \in 0 .. Len(started[s])
  /\ lockedBy \subseteq Callers /\ \A t, u \in lockedBy : t = u
  /\ DOMAIN call = Callers /\ \A t \in Callers : CallTyped(t)
  /\ calls \in [Callers -> 0 .. MaxCalls]

(* The lock of clients is held over the start of a client, by the caller   *)
(* that starts it: the newest of its server, known to nobody else.         *)
LockIsOfStart ==
  \A t \in Callers :
    /\ call[t].at = "start" <=> t \in lockedBy
    /\ call[t].at = "start" => /\ registry[Home[call[t].doc]] = 0
                               /\ call[t].client = Len(started[Home[call[t].doc]])

StartsAreOfHolders ==
  \A s \in Servers : \A n \in Numbers(s) :
    started[s][n].status = "starting" =>
      /\ started[s][n] = NewClient
      /\ \E t \in lockedBy : Home[call[t].doc] = s /\ call[t].client = n

UsedAreStarted == \A t \in Callers : Using(t) => On(t).status # "starting"

DoomedAreStarted ==
  \A t \in Callers : call[t].op = "shutdown" =>
    \A c \in call[t].left \cup {call[t].stopping} : c # <<>> => started[c[1]][c[2]].status # "starting"

(* A client that runs is in the map, or a shutdown will come to it.        *)
Doomed(s, n) ==
  \E t \in Callers : /\ call[t].op = "shutdown"
                     /\ <<s, n>> \in call[t].left \cup {call[t].stopping}
RunningAreKnown ==
  \A s \in Servers : \A n \in Numbers(s) :
    started[s][n].status = "up" => registry[s] = n \/ Doomed(s, n)
LeftBehindAreDown ==
  \A t \in Callers : call[t].at = "kill" /\ call[t].stopping # <<>> =>
    \A n \in Numbers(call[t].stopping[1]) : n = call[t].stopping[2] => Stopping(t) # "up"

ProcessesInv ==
  /\ DocumentsTyped /\ LockIsOfStart /\ StartsAreOfHolders /\ UsedAreStarted
  /\ DoomedAreStarted /\ RunningAreKnown /\ LeftBehindAreDown

(* Client c and its server know the same of document d.                    *)
Coherent(c, d) ==
  /\ c.tracked[d] = c.told[d].version
  /\ c.told[d].open <=> c.tracked[d] > 0

(* What call k, the only one for its document, counts on at its step.      *)
CountsOn(k, c) ==
  LET tracked == c.tracked[k.doc]
      told == c.told[k.doc]
  IN  /\ k.at \in {"check", "ask", "wait"} => Coherent(c, k.doc)
      /\ k.at = "write" =>
           /\ k.op \in {"open", "lookup-open"} => Coherent(c, k.doc) /\ tracked = 0
           /\ k.op \in {"save", "close"} => Coherent(c, k.doc) /\ tracked > 0
           /\ k.op = "changed" => told.open /\ tracked = told.version + 1 /\ k.version = tracked
      /\ k.at = "record" =>
           /\ k.op = "change" => Coherent(c, k.doc) /\ tracked > 0
           /\ k.op \in {"open", "lookup-open"} => told.open /\ told.version = 1
           /\ k.op = "close" => ~told.open /\ told.version = 0

Fair(s, n, d) == d \notin started[s][n].misused

ElsewhereUnseen ==
  \A s \in Servers : \A n \in Numbers(s) : \A d \in Documents :
    Home[d] # s => started[s][n].tracked[d] = 0 /\ started[s][n].told[d] = Unseen
OneUser ==
  \A t, u \in Callers :
    /\ Using(t) /\ Using(u)
    /\ call[t].doc = call[u].doc /\ call[t].client = call[u].client
    /\ Fair(Home[call[t].doc], call[t].client, call[t].doc)
    => t = u
ToldSanely ==
  \A d \in Documents : \A n \in Numbers(Home[d]) : Fair(Home[d], n, d) => started[Home[d]][n].told[d].sane
UsersKnow ==
  \A t \in Callers :
    Using(t) /\ Running(t) /\ Fair(Home[call[t].doc], call[t].client, call[t].doc) => CountsOn(call[t], On(t))
RestKnown ==
  \A d \in Documents : \A n \in Numbers(Home[d]) :
    /\ started[Home[d]][n].status = "up" /\ Fair(Home[d], n, d)
    /\ \A t \in Callers : ~Uses(t, d, n)
    => Coherent(started[Home[d]][n], d)

KnowledgeInv == ElsewhereUnseen /\ OneUser /\ ToldSanely /\ UsersKnow /\ RestKnown

DocIInv == ProcessesInv /\ KnowledgeInv


-----------------------------------------------------------------------------
(* What a step does to the calls and the clients, taken apart.             *)
CallOf(t) == DOMAIN call' = Callers /\ \A u \in Callers \ {t} : call'[u] = call[u]
SameLengths == \A s \in Servers : Len(started'[s]) = Len(started[s])
ClientOf(s, n) ==
  \A r \in Servers : \A m \in Numbers(r) : r # s \/ m # n => started'[r][m] = started[r][m]
DocumentOf(s, n, d) ==
  LET c == started[s][n]
      c1 == started'[s][n]
  IN  /\ c1.status = c.status /\ c1.misused = c.misused
      /\ \A e \in Documents \ {d} : c1.tracked[e] = c.tracked[e] /\ c1.told[e] = c.told[e]

SetsClient(s, n, c) == started' = [started EXCEPT ![s] = [@ EXCEPT ![n] = c]]

LEMMA DocumentsHaveHomes == \A d \in Documents : Home[d] \in Servers
BY LspDocumentsAssumption DEF Documents

LEMMA NumbersAreNatural ==
  ASSUME started \in [Servers -> Seq(Clients)]
  PROVE  \A s \in Servers : /\ Len(started[s]) \in Nat /\ Numbers(s) = DOMAIN started[s]
                            /\ Numbers(s) \subseteq Nat
                            /\ \A n \in Numbers(s) : started[s][n] \in Clients
BY LenProperties DEF Numbers

LEMMA StepsDiffer ==
  /\ \A a \in UsingSteps : a \notin {"idle", "lock", "start", "kill", "stop", "stopping"}
  /\ Idle.at = "idle" /\ Idle.op = "idle"
BY DEF UsingSteps, Idle

(* A call by the step it is at.                                            *)
LEMMA CallsByStep ==
  ASSUME NEW t, CallTyped(t)
  PROVE  /\ call[t].at = "idle" => call[t] = Idle
         /\ call[t].at \in {"lock", "start"} => call[t] \in UserCalls
         /\ Using(t) => /\ call[t] \in UserCalls \/ call[t] \in ChangedCalls
                        /\ call[t].doc \in Documents
                        /\ call[t].client \in Numbers(Home[call[t].doc])
         /\ call[t].at \in {"kill", "stop", "stopping"} <=> call[t].op = "shutdown"
         /\ call[t].op = "shutdown" => call[t] \in ShutdownCalls
<1> USE DEF CallTyped, Using, UsingSteps
<1>1. CASE call[t] = Idle
  BY <1>1 DEF Idle
<1>2. CASE call[t] \in UserCalls
  BY <1>2 DEF UserCalls, Operations, ChangedCalls, ShutdownCalls, Idle
<1>3. CASE call[t] \in ChangedCalls
  BY <1>3 DEF UserCalls, ChangedCalls, ShutdownCalls, Idle
<1>4. CASE call[t] \in ShutdownCalls
  BY <1>4 DEF UserCalls, ChangedCalls, ShutdownCalls, Idle
<1> QED
  BY <1>1, <1>2, <1>3, <1>4

(* Typing, for the callers a step is not of.                               *)
LEMMA OthersStayTyped ==
  ASSUME DocumentsTyped, NEW u \in Callers, call'[u] = call[u],
         \A s \in Servers : Len(started'[s]) \in Nat /\ Len(started'[s]) >= Len(started[s])
  PROVE  CallTyped(u)'
<1>1. CallTyped(u)
  BY DEF DocumentsTyped
<1>2. \A s \in Servers : \A n \in Numbers(s) : n \in 1 .. Len(started'[s])
  BY NumbersAreNatural DEF DocumentsTyped, Numbers
<1>3. call[u] \in UserCalls \/ call[u] \in ChangedCalls => Home[call[u].doc] \in Servers
  BY DocumentsHaveHomes DEF UserCalls, ChangedCalls
<1>4. CASE call[u] \in UserCalls \/ call[u] \in ChangedCalls
  <2>1. call[u] # Idle /\ call[u] \notin ShutdownCalls
    BY <1>4 DEF ShutdownCalls, UserCalls, ChangedCalls, Idle, Operations
  <2>2. Home[call[u].doc] \in Servers
    BY <1>3, <1>4
  <2>3. call[u].client \in Numbers(Home[call[u].doc]) => call[u].client \in Numbers(Home[call[u].doc])'
    BY <1>2, <2>2 DEF Numbers
  <2> QED
    BY <1>1, <1>4, <2>1, <2>3 DEF CallTyped
<1>5. CASE call[u] \in ShutdownCalls
  <2>1. \A c \in call[u].left \cup {call[u].stopping} : c # <<>> => c[1] \in Servers
    BY <1>5 DEF ShutdownCalls
  <2>2. call[u] # Idle /\ call[u] \notin UserCalls /\ call[u] \notin ChangedCalls
    BY <1>5 DEF ShutdownCalls, UserCalls, ChangedCalls, Idle, Operations
  <2> QED
    BY <1>1, <1>2, <1>5, <2>1, <2>2 DEF CallTyped, Numbers
<1>6. CASE call[u] = Idle
  BY <1>6 DEF CallTyped
<1> QED
  BY <1>1, <1>4, <1>5, <1>6 DEF CallTyped

(* No client starts a second time, so what is to stop has started.         *)
NoneRestarts ==
  \A s \in Servers : \A n \in Numbers(s) :
    started[s][n].status # "starting" => started'[s][n].status # "starting"

LEMMA DoomedStayStarted ==
  ASSUME DocumentsTyped, DoomedAreStarted, NoneRestarts,
         \A u \in Callers : call'[u].op = "shutdown" =>
           \/ /\ call[u].op = "shutdown"
              /\ call'[u].left \cup {call'[u].stopping} \subseteq call[u].left \cup {call[u].stopping}
           \/ \A c \in call'[u].left \cup {call'[u].stopping} :
                c # <<>> => started'[c[1]][c[2]].status # "starting"
  PROVE  DoomedAreStarted'
<1> SUFFICES ASSUME NEW u \in Callers, call'[u].op = "shutdown",
                    NEW c \in call'[u].left \cup {call'[u].stopping}, c # <<>>,
                    call[u].op = "shutdown", c \in call[u].left \cup {call[u].stopping}
             PROVE  started'[c[1]][c[2]].status # "starting"
  BY DEF DoomedAreStarted
<1>1. CallTyped(u) /\ call[u] \in ShutdownCalls
  BY CallsByStep DEF DocumentsTyped
<1>2. c[1] \in Servers
  BY <1>1 DEF ShutdownCalls
<1>3. call[u] # Idle /\ call[u] \notin UserCalls /\ call[u] \notin ChangedCalls
  BY <1>1 DEF ShutdownCalls, UserCalls, ChangedCalls, Idle, Operations
<1>4. c[2] \in Numbers(c[1])
  BY <1>1, <1>3 DEF CallTyped
<1> QED
  BY <1>2, <1>4 DEF DoomedAreStarted, NoneRestarts

LEMMA ClientSet ==
  ASSUME started \in [Servers -> Seq(Clients)], NEW s \in Servers, NEW n \in Numbers(s),
         NEW c \in Clients, SetsClient(s, n, c)
  PROVE  /\ started' \in [Servers -> Seq(Clients)] /\ SameLengths
         /\ ClientOf(s, n) /\ started'[s][n] = c
<1>1. started[s] \in Seq(Clients) /\ n \in 1 .. Len(started[s])
  BY DEF Numbers
<1>2. [started[s] EXCEPT ![n] = c] \in Seq(Clients) /\ Len([started[s] EXCEPT ![n] = c]) = Len(started[s])
  BY <1>1, ExceptSeq
<1>3. \A m \in 1 .. Len(started[s]) : [started[s] EXCEPT ![n] = c][m] = IF m = n THEN c ELSE started[s][m]
  BY <1>1, ExceptSeq
<1>4. started'[s] = [started[s] EXCEPT ![n] = c] /\ \A r \in Servers \ {s} : started'[r] = started[r]
  BY DEF SetsClient
<1>5. started' \in [Servers -> Seq(Clients)]
  BY <1>2 DEF SetsClient
<1> QED
  BY <1>1, <1>2, <1>3, <1>4, <1>5 DEF SameLengths, ClientOf, Numbers

(* The user of a document goes on, or returns: it touches nothing but what *)
(* its client and its server know of that document.                        *)
UserMoves(t) ==
  LET d == call[t].doc
      n == call[t].client
      s == Home[d]
  IN  /\ Using(t) /\ CallOf(t)
      /\ UNCHANGED <<registry, lockedBy, calls>>
      /\ \/ call'[t] = Idle
         \/ /\ \/ call'[t] \in UserCalls /\ (call'[t].at = "write" => call'[t].op \in Written)
               \/ call'[t] \in ChangedCalls
            /\ call'[t].at \in UsingSteps /\ call'[t].doc = d /\ call'[t].client = n
      /\ started' \in [Servers -> Seq(Clients)] /\ SameLengths
      /\ ClientOf(s, n) /\ DocumentOf(s, n, d)
Informed(t) ==
  LET d == call[t].doc
      n == call[t].client
      s == Home[d]
  IN  Fair(s, n, d) =>
        /\ started[s][n].told[d].sane => started'[s][n].told[d].sane
        /\ started[s][n].status = "up" =>
             IF call'[t] = Idle THEN Coherent(started'[s][n], d) ELSE CountsOn(call'[t], started'[s][n])

LEMMA UserMovesApart ==
  ASSUME ProcessesInv, NEW t \in Callers, UserMoves(t)
  PROVE  /\ call[t].doc \in Documents /\ Home[call[t].doc] \in Servers
         /\ call[t].client \in Numbers(Home[call[t].doc])
         /\ \A s \in Servers : Numbers(s)' = Numbers(s)
         /\ \A s \in Servers : \A n \in Numbers(s) :
              started'[s][n].status = started[s][n].status /\ started'[s][n].misused = started[s][n].misused
         /\ \A u \in Callers : Using(u)' => /\ Using(u) /\ call'[u].doc = call[u].doc
                                            /\ call'[u].client = call[u].client
         /\ \A u \in Callers \ {t} : call'[u] = call[u]
         /\ call[t].op # "shutdown" /\ call'[t].op # "shutdown"
         /\ call'[t].at \notin {"start", "kill", "stop", "stopping"}
         /\ call[t].at \notin {"start", "kill", "stop", "stopping"}
<1> USE DEF UserMoves
<1>1. CallTyped(t)
  BY DEF ProcessesInv, DocumentsTyped
<1>2. /\ call[t].doc \in Documents /\ call[t].client \in Numbers(Home[call[t].doc])
      /\ call[t].op # "shutdown"
  BY <1>1, CallsByStep, StepsDiffer DEF Using
<1>3. Home[call[t].doc] \in Servers
  BY <1>2, DocumentsHaveHomes
<1>4. \A s \in Servers : Numbers(s)' = Numbers(s)
  BY DEF SameLengths, Numbers
<1>5. \A s \in Servers : \A n \in Numbers(s) :
        started'[s][n].status = started[s][n].status /\ started'[s][n].misused = started[s][n].misused
  BY Zenon DEF ClientOf, DocumentOf
<1>6. call'[t].op # "shutdown" /\ call'[t].at \notin {"start", "kill", "stop", "stopping"}
  BY StepsDiffer DEF Operations, UserCalls, ChangedCalls
<1>7. \A u \in Callers \ {t} : call'[u] = call[u]
  BY DEF CallOf
<1>8. \A u \in Callers : Using(u)' => /\ Using(u) /\ call'[u].doc = call[u].doc
                                      /\ call'[u].client = call[u].client
  BY <1>7, StepsDiffer DEF Using
<1>9. call[t].at \notin {"start", "kill", "stop", "stopping"}
  BY StepsDiffer DEF Using
<1> QED
  BY <1>2, <1>3, <1>4, <1>5, <1>6, <1>7, <1>8, <1>9

LEMMA UserMovesKeepsProcesses ==
  ASSUME ProcessesInv, NEW t \in Callers, UserMoves(t)
  PROVE  ProcessesInv'
<1> DEFINE d == call[t].doc
           n == call[t].client
<1>1. /\ d \in Documents /\ Home[d] \in Servers /\ n \in Numbers(Home[d])
      /\ \A s \in Servers : Numbers(s)' = Numbers(s)
      /\ \A s \in Servers : \A m \in Numbers(s) : started'[s][m].status = started[s][m].status
      /\ \A u \in Callers \ {t} : call'[u] = call[u]
      /\ call[t].op # "shutdown" /\ call'[t].op # "shutdown"
      /\ call'[t].at \notin {"start", "kill", "stop", "stopping"}
      /\ call[t].at \notin {"start", "kill", "stop", "stopping"}
  BY UserMovesApart
<1>2. \A u \in Callers : Using(u)' => Using(u) /\ call'[u].doc = call[u].doc /\ call'[u].client = call[u].client
  BY UserMovesApart
<1>3. DocumentsTyped'
  <2>1. CallTyped(t)'
    BY <1>1, UserMovesApart DEF UserMoves, CallTyped
  <2>2. \A u \in Callers \ {t} : CallTyped(u)'
    <3>1. \A s \in Servers : Len(started'[s]) = Len(started[s]) /\ Len(started[s]) \in Nat
      BY NumbersAreNatural DEF UserMoves, SameLengths, ProcessesInv, DocumentsTyped
    <3> QED
      BY <1>1, <3>1, OthersStayTyped DEF ProcessesInv
  <2>3. \A s \in Servers : Len(started'[s]) = Len(started[s])
    BY DEF UserMoves, SameLengths
  <2> QED
    BY <1>1, <2>1, <2>2, <2>3 DEF UserMoves, ProcessesInv, DocumentsTyped, CallOf
<1>4. LockIsOfStart'
  <2>1. \A u \in Callers : call'[u].at = "start" => u # t /\ call'[u] = call[u] /\ call[u].doc \in Documents
    <3> SUFFICES ASSUME NEW u \in Callers, call'[u].at = "start"
                 PROVE  u # t /\ call'[u] = call[u] /\ call[u].doc \in Documents
      OBVIOUS
    <3>1. u # t /\ call'[u] = call[u]
      BY <1>1
    <3>2. call[u] \in UserCalls
      BY <3>1, CallsByStep DEF ProcessesInv, DocumentsTyped
    <3> QED
      BY <3>1, <3>2 DEF UserCalls
  <2>2. \A u \in Callers : call'[u].at = "start" <=> call[u].at = "start"
    BY <1>1
  <2> QED
    BY <1>1, <2>1, <2>2, DocumentsHaveHomes DEF ProcessesInv, LockIsOfStart, UserMoves, SameLengths
<1>5. StartsAreOfHolders'
  <2> SUFFICES ASSUME NEW s \in Servers, NEW m \in Numbers(s), started[s][m].status = "starting"
               PROVE  /\ started'[s][m] = NewClient
                      /\ \E u \in lockedBy : Home[call'[u].doc] = s /\ call'[u].client = m
    BY <1>1 DEF StartsAreOfHolders, UserMoves
  <2>1. s # Home[d] \/ m # n
    BY DEF ProcessesInv, UsedAreStarted, UserMoves, On
  <2>2. started'[s][m] = started[s][m]
    BY <2>1 DEF UserMoves, ClientOf
  <2>3. t \notin lockedBy /\ lockedBy \subseteq Callers
    BY <1>1 DEF ProcessesInv, LockIsOfStart, DocumentsTyped
  <2> QED
    BY <1>1, <2>2, <2>3 DEF ProcessesInv, StartsAreOfHolders
<1>6. UsedAreStarted'
  <2> SUFFICES ASSUME NEW u \in Callers, Using(u)'
               PROVE  started'[Home[call'[u].doc]][call'[u].client].status # "starting"
    BY DEF UsedAreStarted, On
  <2>1. Using(u) /\ call'[u].doc = call[u].doc /\ call'[u].client = call[u].client
    BY <1>2
  <2>2. call[u].doc \in Documents /\ call[u].client \in Numbers(Home[call[u].doc])
    BY <2>1, CallsByStep DEF ProcessesInv, DocumentsTyped
  <2>3. started[Home[call[u].doc]][call[u].client].status # "starting"
    BY <2>1 DEF ProcessesInv, UsedAreStarted, On
  <2> QED
    BY <1>1, <2>1, <2>2, <2>3, DocumentsHaveHomes
<1>7. RunningAreKnown'
  <2> SUFFICES ASSUME NEW s \in Servers, NEW m \in Numbers(s), started[s][m].status = "up"
               PROVE  registry[s] = m \/ Doomed(s, m)'
    BY <1>1 DEF RunningAreKnown, UserMoves
  <2>1. Doomed(s, m) => Doomed(s, m)'
    BY <1>1 DEF Doomed
  <2> QED
    BY <2>1 DEF ProcessesInv, RunningAreKnown
<1>8. LeftBehindAreDown'
  <2> SUFFICES ASSUME NEW u \in Callers, call'[u].at = "kill", call'[u].stopping # <<>>,
                      NEW m \in 1 .. Len(started'[call'[u].stopping[1]]), m = call'[u].stopping[2]
               PROVE  started'[call'[u].stopping[1]][call'[u].stopping[2]].status # "up"
    BY DEF LeftBehindAreDown, Stopping, Numbers
  <2>1. u # t /\ call'[u] = call[u]
    BY <1>1
  <2>2. call[u].stopping \in Servers \X Nat
    BY <2>1, CallsByStep DEF ProcessesInv, DocumentsTyped, ShutdownCalls
  <2>3. call[u].stopping[1] \in Servers
    BY <2>2
  <2>4. m \in Numbers(call[u].stopping[1])
    BY <2>1, <2>3 DEF UserMoves, SameLengths, Numbers
  <2> QED
    BY <1>1, <2>1, <2>3, <2>4 DEF ProcessesInv, LeftBehindAreDown, Stopping
<1>9. DoomedAreStarted'
  <2>1. NoneRestarts
    BY <1>1 DEF NoneRestarts
  <2> QED
    BY <1>1, <2>1, DoomedStayStarted DEF ProcessesInv
<1> QED
  BY <1>3, <1>4, <1>5, <1>6, <1>7, <1>8, <1>9 DEF ProcessesInv

LEMMA UserMovesKeepsKnowledge ==
  ASSUME ProcessesInv, KnowledgeInv, NEW t \in Callers, UserMoves(t), Informed(t)
  PROVE  KnowledgeInv'
<1> DEFINE d == call[t].doc
           n == call[t].client
<1>1. /\ d \in Documents /\ Home[d] \in Servers /\ n \in Numbers(Home[d])
      /\ \A s \in Servers : Numbers(s)' = Numbers(s)
      /\ \A s \in Servers : \A m \in Numbers(s) :
           started'[s][m].status = started[s][m].status /\ started'[s][m].misused = started[s][m].misused
      /\ \A u \in Callers \ {t} : call'[u] = call[u]
  BY UserMovesApart
<1>2. \A u \in Callers : Using(u)' => Using(u) /\ call'[u].doc = call[u].doc /\ call'[u].client = call[u].client
  BY UserMovesApart
<1>3. \A u \in Callers : Using(u) => /\ call[u].doc \in Documents /\ Home[call[u].doc] \in Servers
                                     /\ call[u].client \in Numbers(Home[call[u].doc])
  BY CallsByStep, DocumentsHaveHomes DEF ProcessesInv, DocumentsTyped
<1>4. \A e \in Documents : Home[e] \in Servers
  BY DocumentsHaveHomes
<1>5. \A s \in Servers : \A m \in Numbers(s) : \A e \in Documents :
        /\ Fair(s, m, e)' <=> Fair(s, m, e)
        /\ s # Home[d] \/ m # n \/ e # d =>
             /\ started'[s][m].tracked[e] = started[s][m].tracked[e]
             /\ started'[s][m].told[e] = started[s][m].told[e]
  BY Zenon, <1>1 DEF Fair, UserMoves, ClientOf, DocumentOf
<1>6. ElsewhereUnseen'
  BY <1>1, <1>4, <1>5 DEF KnowledgeInv, ElsewhereUnseen
<1>7. OneUser'
  <2> SUFFICES ASSUME NEW u \in Callers, NEW v \in Callers, Using(u)', Using(v)',
                      call'[u].doc = call'[v].doc, call'[u].client = call'[v].client,
                      Fair(Home[call[u].doc], call[u].client, call[u].doc)'
               PROVE  u = v
    BY DEF OneUser
  <2> QED
    BY <1>2, <1>3, <1>5 DEF KnowledgeInv, OneUser
<1>8. ToldSanely'
  <2> SUFFICES ASSUME NEW e \in Documents, NEW m \in Numbers(Home[e]), Fair(Home[e], m, e)
               PROVE  started'[Home[e]][m].told[e].sane
    BY <1>1, <1>4, <1>5 DEF ToldSanely
  <2>1. started[Home[e]][m].told[e].sane
    BY DEF KnowledgeInv, ToldSanely
  <2>2. CASE m = n /\ e = d
    BY Zenon, <2>1, <2>2 DEF Informed
  <2>3. CASE m # n \/ e # d
    BY <1>4, <1>5, <2>1, <2>3
  <2> QED
    BY <2>2, <2>3
<1>9. UsersKnow'
  <2> SUFFICES ASSUME NEW u \in Callers, Using(u)',
                      started'[Home[call'[u].doc]][call'[u].client].status = "up",
                      Fair(Home[call[u].doc], call[u].client, call[u].doc)'
               PROVE  CountsOn(call'[u], started'[Home[call'[u].doc]][call'[u].client])
    BY DEF UsersKnow, Running, On
  <2> DEFINE e == call[u].doc
             m == call[u].client
  <2>1. Using(u) /\ call'[u].doc = e /\ call'[u].client = m
    BY <1>2
  <2>2. e \in Documents /\ Home[e] \in Servers /\ m \in Numbers(Home[e])
    BY <1>3, <2>1
  <2>3. Fair(Home[e], m, e) /\ started[Home[e]][m].status = "up"
    <3>1. started'[Home[e]][m].status = "up" /\ e \notin started'[Home[e]][m].misused
      BY <2>1 DEF Fair
    <3> QED
      BY <1>1, <2>2, <3>1 DEF Fair
  <2>4. CASE u = t
    <3>1. call'[t] # Idle
      BY <2>4, StepsDiffer DEF Using
    <3> QED
      BY <2>1, <2>3, <2>4, <3>1 DEF Informed
  <2>5. CASE u # t
    <3>1. CountsOn(call[u], started[Home[e]][m])
      BY <2>1, <2>3 DEF KnowledgeInv, UsersKnow, Running, On
    <3>2. m # n \/ e # d
      <4> SUFFICES ASSUME m = n, e = d
                   PROVE  FALSE
        OBVIOUS
      <4> QED
        BY <2>1, <2>3, <2>5 DEF KnowledgeInv, OneUser, UserMoves
    <3>3. /\ started'[Home[e]][m].tracked[e] = started[Home[e]][m].tracked[e]
          /\ started'[Home[e]][m].told[e] = started[Home[e]][m].told[e]
      BY Zenon, <1>5, <2>2, <3>2
    <3>4. call'[u] = call[u]
      BY <1>1, <2>5
    <3> QED
      BY Zenon, <3>1, <3>3, <3>4 DEF CountsOn, Coherent
  <2> QED
    BY <2>4, <2>5
<1>10. RestKnown'
  <2> SUFFICES ASSUME NEW e \in Documents, NEW m \in Numbers(Home[e]),
                      started[Home[e]][m].status = "up", Fair(Home[e], m, e),
                      \A u \in Callers : ~Uses(u, e, m)'
               PROVE  Coherent(started'[Home[e]][m], e)
    BY Zenon, <1>1, <1>4, <1>5 DEF RestKnown
  <2>1. \A u \in Callers : (Using(u) /\ call[u].doc = e /\ call[u].client = m <=> Uses(u, e, m))
    BY DEF Using, Uses, UsingSteps
  <2>2. CASE m = n /\ e = d
    <3>1. call'[t] = Idle
      BY <2>2 DEF UserMoves, Uses, UsingSteps
    <3> QED
      BY <2>2, <3>1 DEF Informed
  <2>3. CASE m # n \/ e # d
    <3>1. \A u \in Callers : ~Uses(u, e, m)
      BY <1>1, <2>1, <2>3 DEF Uses
    <3>2. Coherent(started[Home[e]][m], e)
      BY <3>1 DEF KnowledgeInv, RestKnown
    <3>3. /\ started'[Home[e]][m].tracked[e] = started[Home[e]][m].tracked[e]
          /\ started'[Home[e]][m].told[e] = started[Home[e]][m].told[e]
      BY <1>4, <1>5, <2>3
    <3> QED
      BY <3>2, <3>3 DEF Coherent
  <2> QED
    BY <2>2, <2>3
<1> QED
  BY <1>6, <1>7, <1>8, <1>9, <1>10 DEF KnowledgeInv

-----------------------------------------------------------------------------
LEMMA UserMovesKeeps ==
  ASSUME DocIInv, NEW t \in Callers, UserMoves(t), Informed(t)
  PROVE  DocIInv'
BY UserMovesKeepsProcesses, UserMovesKeepsKnowledge DEF DocIInv

(* What the user of a document knows before its step.                      *)
LEMMA UserIsTyped ==
  ASSUME DocIInv, NEW t \in Callers, Using(t)
  PROVE  /\ call[t] \in UserCalls \cup ChangedCalls
         /\ call[t].doc \in Documents /\ Home[call[t].doc] \in Servers
         /\ call[t].client \in Numbers(Home[call[t].doc])
         /\ On(t) \in Clients /\ DOMAIN call = Callers
         /\ started \in [Servers -> Seq(Clients)]
<1>1. CallTyped(t) /\ DOMAIN call = Callers /\ started \in [Servers -> Seq(Clients)]
  BY DEF DocIInv, ProcessesInv, DocumentsTyped
<1>2. /\ call[t] \in UserCalls \cup ChangedCalls
      /\ call[t].doc \in Documents /\ call[t].client \in Numbers(Home[call[t].doc])
  BY <1>1, CallsByStep
<1>3. Home[call[t].doc] \in Servers
  BY <1>2, DocumentsHaveHomes
<1>4. On(t) \in Clients
  BY <1>1, <1>2, <1>3, NumbersAreNatural DEF On
<1> QED
  BY <1>1, <1>2, <1>3, <1>4

LEMMA UserCountsOn ==
  ASSUME DocIInv, NEW t \in Callers, Using(t), Running(t),
         Fair(Home[call[t].doc], call[t].client, call[t].doc)
  PROVE  CountsOn(call[t], On(t))
BY DEF DocIInv, KnowledgeInv, UsersKnow

LEMMA GotoOnly ==
  ASSUME DOMAIN call = Callers, NEW t \in Callers, call[t] \in UserCalls \cup ChangedCalls,
         NEW a \in UsingSteps, Goto(t, a), call[t] \in ChangedCalls => a = "write"
  PROVE  /\ CallOf(t) /\ call'[t] \in UserCalls \cup ChangedCalls
         /\ call'[t].at = a /\ call'[t].op = call[t].op
         /\ call'[t].doc = call[t].doc /\ call'[t].client = call[t].client
<1>1. CallOf(t) /\ call'[t] = [call[t] EXCEPT !.at = a]
  BY DEF Goto, CallOf
<1>2. CASE call[t] \in UserCalls
  BY <1>1, <1>2 DEF UserCalls
<1>3. CASE call[t] \in ChangedCalls
  BY <1>1, <1>3 DEF ChangedCalls
<1> QED
  BY <1>1, <1>2, <1>3

LEMMA ReturnOnly ==
  ASSUME DOMAIN call = Callers, NEW t \in Callers, Return(t)
  PROVE  CallOf(t) /\ call'[t] = Idle
BY DEF Return, CallOf

LEMMA ClientsStay ==
  ASSUME started \in [Servers -> Seq(Clients)], UNCHANGED started, NEW s, NEW n, NEW d
  PROVE  /\ started' \in [Servers -> Seq(Clients)] /\ SameLengths
         /\ ClientOf(s, n) /\ DocumentOf(s, n, d)
BY DEF SameLengths, ClientOf, DocumentOf

LEMMA AskKeeps == ASSUME DocIInv, NEW t \in Callers, Ask(t) PROVE DocIInv'
<1>1. Using(t) /\ call[t].at = "ask"
  BY DEF Ask, Using, UsingSteps
<1>2. call[t] \in UserCalls \cup ChangedCalls /\ DOMAIN call = Callers
  BY <1>1, UserIsTyped
<1>3. call[t] \in UserCalls
  BY <1>1, <1>2 DEF ChangedCalls
<1>4. UNCHANGED <<started, registry, lockedBy, calls>>
  BY DEF Ask
<1>5. UserMoves(t) /\ (call'[t] = Idle \/ (call'[t].at = "wait" /\ call'[t].doc = call[t].doc))
  <2>1. CASE Running(t)
    <3>1. CallOf(t) /\ call'[t] \in UserCalls \cup ChangedCalls /\ call'[t].at = "wait"
          /\ call'[t].doc = call[t].doc /\ call'[t].client = call[t].client
      BY <1>2, <1>3, <2>1, GotoOnly DEF Ask, UsingSteps, UserCalls, ChangedCalls
    <3> QED
      BY <1>1, <1>4, <3>1, UserIsTyped, ClientsStay DEF UserMoves, UsingSteps
  <2>2. CASE ~Running(t)
    <3>1. CallOf(t) /\ call'[t] = Idle
      BY <1>2, <2>2, ReturnOnly DEF Ask
    <3> QED
      BY <1>1, <1>4, <3>1, UserIsTyped, ClientsStay DEF UserMoves, UsingSteps
  <2> QED
    BY <2>1, <2>2
<1>6. Informed(t)
  BY Zenon, <1>1, <1>4, <1>5, UserCountsOn DEF Informed, CountsOn, Running, On
<1> QED
  BY <1>5, <1>6, UserMovesKeeps

LEMMA AnsweredKeeps == ASSUME DocIInv, NEW t \in Callers, Answered(t) PROVE DocIInv'
<1>1. Using(t) /\ call[t].at = "wait"
  BY DEF Answered, Using, UsingSteps
<1>2. DOMAIN call = Callers /\ UNCHANGED <<started, registry, lockedBy, calls>> /\ Return(t)
  BY <1>1, UserIsTyped DEF Answered
<1>3. CallOf(t) /\ call'[t] = Idle
  BY <1>2, ReturnOnly
<1>4. UserMoves(t)
  BY <1>1, <1>2, <1>3, UserIsTyped, ClientsStay DEF UserMoves
<1>5. Informed(t)
  BY Zenon, <1>1, <1>2, <1>3, UserCountsOn DEF Informed, CountsOn, Running, On
<1> QED
  BY <1>4, <1>5, UserMovesKeeps

LEMMA CheckKeeps == ASSUME DocIInv, NEW t \in Callers, Check(t) PROVE DocIInv'
<1>1. Using(t) /\ call[t].at = "check"
  BY DEF Check, Using, UsingSteps
<1>2. /\ call[t] \in UserCalls /\ DOMAIN call = Callers /\ On(t) \in Clients
      /\ call[t].doc \in Documents
  BY <1>1, UserIsTyped DEF ChangedCalls
<1>3. UNCHANGED <<started, registry, lockedBy, calls>>
  BY DEF Check
<1>4. Tracked(t) \in Nat /\ call[t].op \in Operations \cup {"lookup-open"}
  BY <1>2 DEF Tracked, Clients, UserCalls
<1>5. CASE NextStep(t) = "idle"
  <2>1. CallOf(t) /\ call'[t] = Idle
    BY <1>2, <1>5, ReturnOnly DEF Check
  <2>2. UserMoves(t)
    BY <1>1, <1>3, <2>1, UserIsTyped, ClientsStay DEF UserMoves
  <2>3. Informed(t)
    BY Zenon, <1>1, <1>3, <2>1, UserCountsOn DEF Informed, CountsOn, Running, On
  <2> QED
    BY <2>2, <2>3, UserMovesKeeps
<1>6. CASE NextStep(t) # "idle"
  <2> DEFINE o == IF Tracked(t) > 0 THEN call[t].op
                  ELSE IF call[t].op = "lookup" THEN "lookup-open" ELSE "open"
  <2>1. /\ NextStep(t) = "record" => Tracked(t) > 0 /\ o = "change"
        /\ NextStep(t) = "write" => \/ Tracked(t) > 0 /\ o \in {"save", "close"}
                                    \/ Tracked(t) = 0 /\ o \in {"open", "lookup-open"}
        /\ NextStep(t) \in {"record", "write", "ask"}
    BY <1>4, <1>6 DEF NextStep, Operations
  <2>2. o \in Operations \cup {"lookup-open"}
    BY <1>4 DEF Operations
  <2>3. CallOf(t) /\ call'[t] = [call[t] EXCEPT !.at = NextStep(t), !.op = o]
    BY <1>2, <1>6 DEF Check, CallOf
  <2> HIDE DEF o
  <2>4. /\ call'[t] \in UserCalls /\ call'[t].at = NextStep(t) /\ call'[t].op = o
        /\ call'[t].doc = call[t].doc /\ call'[t].client = call[t].client
    BY <1>2, <2>1, <2>2, <2>3 DEF UserCalls, UsingSteps
  <2>5. UserMoves(t)
    BY <1>1, <1>3, <2>1, <2>3, <2>4, UserIsTyped, ClientsStay DEF UserMoves, UsingSteps, Written
  <2>6. Informed(t)
    <3> SUFFICES ASSUME Fair(Home[call[t].doc], call[t].client, call[t].doc), Running(t)
                 PROVE  CountsOn(call'[t], On(t))
      BY Zenon, <1>3, <2>4, StepsDiffer, <2>1 DEF Informed, Running, On, UsingSteps
    <3>1. Coherent(On(t), call[t].doc)
      BY <1>1, UserCountsOn DEF CountsOn
    <3>2. Tracked(t) = On(t).tracked[call'[t].doc]
      BY <2>4 DEF Tracked
    <3> QED
      BY <2>1, <2>4, <3>1, <3>2 DEF CountsOn
  <2> QED
    BY <2>5, <2>6, UserMovesKeeps
<1> QED
  BY <1>5, <1>6

LEMMA DrawVersionKeeps == ASSUME DocIInv, NEW t \in Callers, DrawVersion(t) PROVE DocIInv'
<1> DEFINE d == call[t].doc
           n == call[t].client
           s == Home[d]
           c == started[s][n]
           c1 == [c EXCEPT !.tracked = [c.tracked EXCEPT ![d] = c.tracked[d] + 1]]
           k == [op |-> "changed", doc |-> d, at |-> "write", client |-> n, version |-> Tracked(t) + 1]
<1>1. Using(t) /\ call[t].at = "record" /\ call[t].op = "change"
  BY Zenon DEF DrawVersion, Using, UsingSteps
<1>2. /\ DOMAIN call = Callers /\ c \in Clients /\ d \in Documents /\ s \in Servers /\ n \in Numbers(s)
      /\ started \in [Servers -> Seq(Clients)] /\ Tracked(t) = c.tracked[d] /\ n \in Nat
  BY <1>1, UserIsTyped, NumbersAreNatural DEF On, Tracked
<1>3. /\ c1 \in Clients /\ c1.status = c.status /\ c1.misused = c.misused /\ c1.told = c.told
      /\ c1.tracked[d] = c.tracked[d] + 1 /\ \A e \in Documents \ {d} : c1.tracked[e] = c.tracked[e]
      /\ c.tracked[d] \in Nat
  <2>1. c.tracked \in [Documents -> Nat] /\ c.tracked[d] \in Nat /\ c.tracked[d] + 1 \in Nat
    BY <1>2 DEF Clients
  <2>2. /\ [c.tracked EXCEPT ![d] = c.tracked[d] + 1] \in [Documents -> Nat]
        /\ [c.tracked EXCEPT ![d] = c.tracked[d] + 1][d] = c.tracked[d] + 1
        /\ \A e \in Documents \ {d} : [c.tracked EXCEPT ![d] = c.tracked[d] + 1][e] = c.tracked[e]
    BY Zenon, <1>2, <2>1
  <2>3. /\ c1.status = c.status /\ c1.misused = c.misused /\ c1.told = c.told
        /\ c1.tracked = [c.tracked EXCEPT ![d] = c.tracked[d] + 1]
    BY <1>2 DEF Clients
  <2>4. c1 \in Clients
    BY Zenon, <1>2, <2>2 DEF Clients
  <2> QED
    BY Zenon, <2>1, <2>2, <2>3, <2>4
<1>4. SetsClient(s, n, c1)
  BY Zenon DEF DrawVersion, SetsClient
<1> HIDE DEF c1
<1>5. /\ started' \in [Servers -> Seq(Clients)] /\ SameLengths /\ ClientOf(s, n) /\ started'[s][n] = c1
  BY Zenon, <1>2, <1>3, <1>4, ClientSet
<1>6. DocumentOf(s, n, d)
  BY Zenon, <1>3, <1>5 DEF DocumentOf
<1>7. CallOf(t) /\ call'[t] = k
  BY Zenon, <1>2 DEF DrawVersion, CallOf
<1>8. k \in ChangedCalls /\ k # Idle
  BY <1>2, <1>3, StepsDiffer DEF ChangedCalls, UsingSteps
<1>9. UserMoves(t)
  <2>1. k.at = "write" /\ k.doc = d /\ k.client = n
    OBVIOUS
  <2>2. UNCHANGED <<registry, lockedBy, calls>>
    BY Zenon DEF DrawVersion
  <2> QED
    BY <1>1, <1>5, <1>6, <1>7, <1>8, <2>1, <2>2 DEF UserMoves, UsingSteps
<1>10. Informed(t)
  <2> SUFFICES ASSUME Fair(s, n, d)
               PROVE  /\ c.told[d].sane => c1.told[d].sane
                      /\ c.status = "up" => CountsOn(k, c1)
    BY <1>5, <1>7, <1>8 DEF Informed
  <2>1. c.status = "up" => Coherent(c, d) /\ c.tracked[d] > 0
    BY Zenon, <1>1, UserCountsOn DEF CountsOn, Running, On
  <2> QED
    BY Zenon, <1>2, <1>3, <2>1 DEF CountsOn, Coherent
<1> QED
  BY <1>9, <1>10, UserMovesKeeps

LEMMA RecordKeeps == ASSUME DocIInv, NEW t \in Callers, Record(t) PROVE DocIInv'
<1> DEFINE d == call[t].doc
           n == call[t].client
           s == Home[d]
           c == started[s][n]
           v == IF call[t].op = "close" THEN 0 ELSE 1
           c1 == [c EXCEPT !.tracked = [@ EXCEPT ![d] = v]]
<1>1. /\ Using(t) /\ call[t].at = "record" /\ call[t].op \in {"open", "lookup-open", "close"}
      /\ UNCHANGED <<registry, lockedBy, calls>>
  BY Zenon DEF Record, Using, UsingSteps
<1>2. /\ DOMAIN call = Callers /\ c \in Clients /\ d \in Documents /\ s \in Servers /\ n \in Numbers(s)
      /\ started \in [Servers -> Seq(Clients)] /\ call[t] \in UserCalls
  BY <1>1, UserIsTyped DEF On, ChangedCalls
<1>3. /\ c1 \in Clients /\ c1.status = c.status /\ c1.misused = c.misused /\ c1.told = c.told
      /\ c1.tracked[d] = v /\ \A e \in Documents \ {d} : c1.tracked[e] = c.tracked[e]
  BY Zenon, <1>2 DEF Clients
<1>4. SetsClient(s, n, c1)
  BY Zenon DEF Record, SetsClient
<1> HIDE DEF c1
<1>5. started' \in [Servers -> Seq(Clients)] /\ SameLengths /\ ClientOf(s, n) /\ started'[s][n] = c1
  BY <1>2, <1>3, <1>4, ClientSet
<1>6. DocumentOf(s, n, d)
  BY Zenon, <1>3, <1>5 DEF DocumentOf
<1>7. c.status = "up" /\ Fair(s, n, d) => Coherent(c1, d)
  <2> SUFFICES ASSUME c.status = "up", Fair(s, n, d)
               PROVE  Coherent(c1, d)
    OBVIOUS
  <2>1. CountsOn(call[t], c)
    BY <1>1, UserCountsOn DEF Running, On
  <2>2. CASE call[t].op = "close"
    <3>1. ~c.told[d].open /\ c.told[d].version = 0
      BY Zenon, <1>1, <2>1, <2>2 DEF CountsOn
    <3>2. c1.tracked[d] = 0
      BY <1>3, <2>2
    <3> QED
      BY <1>3, <3>1, <3>2 DEF Coherent
  <2>3. CASE call[t].op # "close"
    <3>1. c.told[d].open /\ c.told[d].version = 1
      BY Zenon, <1>1, <2>1, <2>3 DEF CountsOn
    <3>2. c1.tracked[d] = 1 /\ c1.told[d] = c.told[d]
      BY <1>3, <2>3
    <3>3. c1.tracked[d] > 0
      BY <3>2
    <3> QED
      BY Zenon, <3>1, <3>2, <3>3 DEF Coherent
  <2> QED
    BY <2>2, <2>3
<1>8. CASE call[t].op = "lookup-open"
  <2>1. /\ CallOf(t) /\ call'[t] \in UserCalls \cup ChangedCalls /\ call'[t].at = "ask"
        /\ call'[t].doc = d /\ call'[t].client = n
    BY <1>2, <1>8, GotoOnly DEF Record, UsingSteps, UserCalls, ChangedCalls
  <2>2. UserMoves(t)
    BY <1>1, <1>5, <1>6, <2>1 DEF UserMoves, UsingSteps
  <2>3. Informed(t)
    BY Zenon, <1>3, <1>5, <1>7, <2>1, StepsDiffer DEF Informed, CountsOn
  <2> QED
    BY <2>2, <2>3, UserMovesKeeps
<1>9. CASE call[t].op # "lookup-open"
  <2>1. CallOf(t) /\ call'[t] = Idle
    BY <1>2, <1>9, ReturnOnly DEF Record
  <2>2. UserMoves(t)
    BY <1>1, <1>5, <1>6, <2>1 DEF UserMoves
  <2>3. Informed(t)
    BY Zenon, <1>3, <1>5, <1>7, <2>1 DEF Informed
  <2> QED
    BY <2>2, <2>3, UserMovesKeeps
<1> QED
  BY <1>8, <1>9

LEMMA NotifyKeeps == ASSUME DocIInv, NEW t \in Callers, Notify(t) PROVE DocIInv'
<1> DEFINE d == call[t].doc
           n == call[t].client
           s == Home[d]
           c == started[s][n]
<1>1. /\ Using(t) /\ call[t].at = "write" /\ UNCHANGED <<registry, lockedBy, calls>>
  BY Zenon DEF Notify, Using, UsingSteps
<1>2. /\ DOMAIN call = Callers /\ c \in Clients /\ d \in Documents /\ s \in Servers /\ n \in Numbers(s)
      /\ started \in [Servers -> Seq(Clients)] /\ call[t] \in UserCalls \cup ChangedCalls
  BY <1>1, UserIsTyped DEF On
<1>3. CASE ~Running(t)
  <2>1. CallOf(t) /\ call'[t] = Idle /\ UNCHANGED started
    BY <1>2, <1>3, ReturnOnly DEF Notify
  <2>2. UserMoves(t)
    BY <1>1, <1>2, <2>1, ClientsStay DEF UserMoves
  <2>3. Informed(t)
    BY Zenon, <1>3, <2>1 DEF Informed, Running, On
  <2> QED
    BY <2>2, <2>3, UserMovesKeeps
<1>4. CASE Running(t)
  <2> DEFINE version == IF call[t].op = "changed" THEN call[t].version ELSE 1
             view == c.told[d]
             w == Hears(view, call[t].op, version)
             c1 == [c EXCEPT !.told = [@ EXCEPT ![d] = w]]
  <2>1. view \in Views /\ version \in Nat /\ c.tracked[d] \in Nat
    BY <1>2 DEF Clients, ChangedCalls, UserCalls, Operations
  <2>2. call[t].op \in Written \cup {"changed"} /\ w \in Views
    <3>1. call[t].op \in Written \cup {"changed"}
      <4>1. CallTyped(t)
        BY DEF DocIInv, ProcessesInv, DocumentsTyped
      <4> QED
        BY <1>1, <4>1 DEF CallTyped, ChangedCalls, ShutdownCalls, Idle
    <3> HIDE DEF view, version
    <3>2. CASE call[t].op \in {"open", "lookup-open"}
      <4>1. w = [open |-> TRUE, version |-> 1, sane |-> view.sane /\ ~view.open]
        BY <3>2 DEF Hears
      <4> QED
        BY <3>1, <4>1 DEF Views
    <3>3. CASE call[t].op = "changed"
      <4>1. w = [view EXCEPT !.version = version, !.sane = @ /\ view.open /\ version > view.version]
        BY <3>3 DEF Hears
      <4> QED
        BY <2>1, <3>1, <4>1 DEF Views
    <3>4. CASE call[t].op = "close"
      <4>1. w = [open |-> FALSE, version |-> 0, sane |-> view.sane /\ view.open]
        BY <3>4 DEF Hears
      <4> QED
        BY <3>1, <4>1 DEF Views
    <3>5. CASE call[t].op = "save"
      <4>1. w = [view EXCEPT !.sane = @ /\ view.open]
        BY <3>5 DEF Hears
      <4> QED
        BY <2>1, <3>1, <4>1 DEF Views
    <3> QED
      BY <3>1, <3>2, <3>3, <3>4, <3>5 DEF Written
  <2>3. /\ c1 \in Clients /\ c1.status = c.status /\ c1.misused = c.misused /\ c1.tracked = c.tracked
        /\ c1.told[d] = w /\ \A e \in Documents \ {d} : c1.told[e] = c.told[e]
    <3> HIDE DEF w
    <3>1. QED
      BY Zenon, <1>2, <2>2 DEF Clients
  <2>4. SetsClient(s, n, c1)
    BY Zenon, <1>4 DEF Notify, SetsClient
  <2> HIDE DEF c1, w
  <2>5. started' \in [Servers -> Seq(Clients)] /\ SameLengths /\ ClientOf(s, n) /\ started'[s][n] = c1
    BY <1>2, <2>3, <2>4, ClientSet
  <2>6. DocumentOf(s, n, d)
    BY Zenon, <2>3, <2>5 DEF DocumentOf
  <2>7. CASE call[t].op \in {"open", "lookup-open", "close"}
    <3>1. /\ CallOf(t) /\ call'[t] \in UserCalls /\ call'[t].at = "record"
          /\ call'[t].doc = d /\ call'[t].client = n /\ call'[t].op = call[t].op
      <4>1. call[t] \in UserCalls /\ Goto(t, "record")
        BY <1>2, <1>4, <2>7 DEF Notify, ChangedCalls
      <4> QED
        BY <1>2, <4>1, GotoOnly DEF UsingSteps, UserCalls, ChangedCalls, Operations
    <3>2. UserMoves(t)
      BY <1>1, <2>5, <2>6, <3>1 DEF UserMoves, UsingSteps
    <3>3. Informed(t)
      <4> SUFFICES ASSUME Fair(s, n, d), c.status = "up"
                   PROVE  (view.sane => w.sane) /\ CountsOn(call'[t], c1)
        BY Zenon, <1>4, <2>3, <2>5, <3>1, StepsDiffer DEF Informed, Running, On, UsingSteps
      <4>1. CountsOn(call[t], c)
        BY <1>1, <1>4, UserCountsOn DEF On
      <4>2. CASE call[t].op = "close"
        <5>1. Coherent(c, d) /\ c.tracked[d] > 0
          BY Zenon, <1>1, <4>1, <4>2 DEF CountsOn
        <5>2. w.open = FALSE /\ w.version = 0 /\ w.sane = (view.sane /\ view.open)
          BY Zenon, <4>2 DEF Hears, w
        <5> QED
          BY Zenon, <2>3, <3>1, <4>2, <5>1, <5>2 DEF CountsOn, Coherent
      <4>3. CASE call[t].op \in {"open", "lookup-open"}
        <5>1. Coherent(c, d) /\ c.tracked[d] = 0
          BY Zenon, <1>1, <4>1, <4>3 DEF CountsOn
        <5>2. w.open = TRUE /\ w.version = 1 /\ w.sane = (view.sane /\ ~view.open)
          BY Zenon, <4>3 DEF Hears, w
        <5>3. view.sane => w.sane
          <6>1. ~(c.tracked[d] > 0)
            BY <5>1
          <6>2. ~view.open
            BY Zenon, <5>1, <6>1 DEF Coherent
          <6> QED
            BY Zenon, <5>2, <6>2
        <5>4. CountsOn(call'[t], c1)
          BY Zenon, <2>3, <3>1, <4>3, <5>2 DEF CountsOn
        <5> QED
          BY <5>3, <5>4
      <4> QED
        BY Zenon, <2>7, <4>2, <4>3
    <3> QED
      BY <3>2, <3>3, UserMovesKeeps
  <2>8. CASE call[t].op \in {"save", "changed"}
    <3>1. CallOf(t) /\ call'[t] = Idle
      BY <1>2, <1>4, <2>8, ReturnOnly DEF Notify
    <3>2. UserMoves(t)
      BY <1>1, <2>5, <2>6, <3>1 DEF UserMoves
    <3>3. Informed(t)
      <4> SUFFICES ASSUME Fair(s, n, d), c.status = "up"
                   PROVE  (view.sane => w.sane) /\ Coherent(c1, d)
        BY Zenon, <1>4, <2>3, <2>5, <3>1 DEF Informed, Running, On
      <4>1. CountsOn(call[t], c)
        BY <1>1, <1>4, UserCountsOn DEF On
      <4>2. CASE call[t].op = "save"
        <5>1. Coherent(c, d) /\ c.tracked[d] > 0
          BY Zenon, <1>1, <4>1, <4>2 DEF CountsOn
        <5>2. w.open = view.open /\ w.version = view.version /\ w.sane = (view.sane /\ view.open)
          BY Zenon, <2>1, <4>2 DEF Hears, w, Views
        <5> QED
          BY Zenon, <2>3, <5>1, <5>2 DEF Coherent
      <4>3. CASE call[t].op = "changed"
        <5>1. /\ view.open /\ c.tracked[d] = view.version + 1 /\ version = c.tracked[d]
              /\ view.version \in Nat
          BY Zenon, <1>1, <2>1, <4>1, <4>3 DEF CountsOn, Views
        <5>2. /\ w.open = view.open /\ w.version = version
              /\ w.sane = (view.sane /\ view.open /\ version > view.version)
          <6> HIDE DEF version, view
          <6> QED
            BY <2>1, <4>3 DEF Hears, w, Views
        <5> HIDE DEF version, view
        <5>3. version > view.version /\ c1.tracked[d] > 0 /\ c1.tracked[d] = version
          BY <2>3, <5>1
        <5> QED
          BY Zenon, <2>3, <5>1, <5>2, <5>3 DEF Coherent
      <4> QED
        BY <2>8, <4>2, <4>3
    <3> QED
      BY <3>2, <3>3, UserMovesKeeps
  <2> QED
    BY <2>2, <2>7, <2>8 DEF Written
<1> QED
  BY <1>3, <1>4

-----------------------------------------------------------------------------
(* Steps that leave the users of documents where they are: a client is     *)
(* new, or what is known of its documents stays, and none comes up.        *)
UsersStay ==
  /\ \A u \in Callers : (Using(u)' <=> Using(u)) /\ (Using(u) => call'[u] = call[u])
  /\ \A s \in Servers :
       /\ Len(started'[s]) \in Nat /\ Len(started'[s]) >= Len(started[s])
       /\ \A n \in 1 .. Len(started'[s]) :
            IF n \in Numbers(s)
            THEN /\ started'[s][n].tracked = started[s][n].tracked
                 /\ started'[s][n].told = started[s][n].told
                 /\ started'[s][n].misused = started[s][n].misused
                 /\ started'[s][n].status = "up" => started[s][n].status = "up"
            ELSE started'[s][n] = NewClient

LEMMA NewClientIsTyped ==
  /\ NewClient \in Clients /\ NewClient.status = "starting" /\ NewClient.misused = {}
  /\ \A d \in Documents : NewClient.tracked[d] = 0 /\ NewClient.told[d] = Unseen
BY DEF NewClient, Clients, Unseen, Views

LEMMA UsersStayKeepsKnowledge ==
  ASSUME ProcessesInv, KnowledgeInv, UsersStay
  PROVE  KnowledgeInv'
<1> USE DEF UsersStay
<1>1. \A u \in Callers : Using(u)' => Using(u) /\ call'[u] = call[u]
  OBVIOUS
<1>2. \A u \in Callers : Using(u) => /\ call[u].doc \in Documents /\ Home[call[u].doc] \in Servers
                                     /\ call[u].client \in Numbers(Home[call[u].doc])
  BY CallsByStep, DocumentsHaveHomes DEF ProcessesInv, DocumentsTyped
<1>3. \A e \in Documents : Home[e] \in Servers
  BY DocumentsHaveHomes
<1>4. \A s \in Servers : \A m \in Numbers(s) : \A e \in Documents :
        /\ Fair(s, m, e)' <=> Fair(s, m, e)
        /\ started'[s][m].tracked[e] = started[s][m].tracked[e]
        /\ started'[s][m].told[e] = started[s][m].told[e]
        /\ started'[s][m].status = "up" => started[s][m].status = "up"
  <2> SUFFICES ASSUME NEW s \in Servers, NEW m \in Numbers(s)
               PROVE  /\ started'[s][m].tracked = started[s][m].tracked
                      /\ started'[s][m].told = started[s][m].told
                      /\ started'[s][m].misused = started[s][m].misused
                      /\ started'[s][m].status = "up" => started[s][m].status = "up"
    BY DEF Fair
  <2>1. Len(started[s]) \in Nat
    BY NumbersAreNatural DEF ProcessesInv, DocumentsTyped
  <2>2. m \in 1 .. Len(started'[s])
    BY <2>1 DEF Numbers
  <2> QED
    BY <2>2
<1>5. \A s \in Servers : \A m \in 1 .. Len(started'[s]) : m \notin Numbers(s) => started'[s][m] = NewClient
  OBVIOUS
<1>6. ElsewhereUnseen'
  <2> SUFFICES ASSUME NEW s \in Servers, NEW m \in 1 .. Len(started'[s]), NEW e \in Documents, Home[e] # s
               PROVE  started'[s][m].tracked[e] = 0 /\ started'[s][m].told[e] = Unseen
    BY DEF ElsewhereUnseen, Numbers
  <2>1. CASE m \in Numbers(s)
    BY <1>4, <2>1 DEF KnowledgeInv, ElsewhereUnseen
  <2>2. CASE m \notin Numbers(s)
    BY <1>5, <2>2, NewClientIsTyped
  <2> QED
    BY <2>1, <2>2
<1>7. OneUser'
  <2> SUFFICES ASSUME NEW u \in Callers, NEW v \in Callers, Using(u)', Using(v)',
                      call'[u].doc = call'[v].doc, call'[u].client = call'[v].client,
                      Fair(Home[call[u].doc], call[u].client, call[u].doc)'
               PROVE  u = v
    BY DEF OneUser
  <2>1. Fair(Home[call[u].doc], call[u].client, call[u].doc)
    <3>1. call[u].doc \notin started'[Home[call[u].doc]][call[u].client].misused
      BY <1>1 DEF Fair
    <3> QED
      BY <1>1, <1>2, <1>4, <3>1 DEF Fair
  <2> QED
    BY <1>1, <2>1 DEF KnowledgeInv, OneUser
<1>8. ToldSanely'
  <2> SUFFICES ASSUME NEW e \in Documents, NEW m \in 1 .. Len(started'[Home[e]]), Fair(Home[e], m, e)'
               PROVE  started'[Home[e]][m].told[e].sane
    BY DEF ToldSanely, Numbers
  <2>1. CASE m \in Numbers(Home[e])
    BY <1>3, <1>4, <2>1 DEF KnowledgeInv, ToldSanely
  <2>2. CASE m \notin Numbers(Home[e])
    BY <1>3, <1>5, <2>2, NewClientIsTyped DEF Unseen
  <2> QED
    BY <2>1, <2>2
<1>9. UsersKnow'
  <2> SUFFICES ASSUME NEW u \in Callers, Using(u)',
                      started'[Home[call'[u].doc]][call'[u].client].status = "up",
                      Fair(Home[call[u].doc], call[u].client, call[u].doc)'
               PROVE  CountsOn(call'[u], started'[Home[call'[u].doc]][call'[u].client])
    BY DEF UsersKnow, Running, On
  <2> DEFINE e == call[u].doc
             m == call[u].client
  <2>1. Using(u) /\ call'[u] = call[u]
    BY <1>1
  <2>2. e \in Documents /\ Home[e] \in Servers /\ m \in Numbers(Home[e])
    BY <1>2, <2>1
  <2>3. Fair(Home[e], m, e) /\ started[Home[e]][m].status = "up"
    <3>1. started'[Home[e]][m].status = "up" /\ e \notin started'[Home[e]][m].misused
      BY <2>1 DEF Fair
    <3> QED
      BY Zenon, <1>4, <2>2, <3>1 DEF Fair
  <2>4. CountsOn(call[u], started[Home[e]][m])
    BY <2>1, <2>3 DEF KnowledgeInv, UsersKnow, Running, On
  <2>5. /\ started'[Home[e]][m].tracked[e] = started[Home[e]][m].tracked[e]
        /\ started'[Home[e]][m].told[e] = started[Home[e]][m].told[e]
    BY Zenon, <1>4, <2>2
  <2>6. CountsOn(call[u], started'[Home[e]][m])
    BY Zenon, <2>4, <2>5 DEF CountsOn, Coherent
  <2> QED
    BY <2>1, <2>6
<1>10. RestKnown'
  <2> SUFFICES ASSUME NEW e \in Documents, NEW m \in 1 .. Len(started'[Home[e]]),
                      started'[Home[e]][m].status = "up", Fair(Home[e], m, e)',
                      \A u \in Callers : ~Uses(u, e, m)'
               PROVE  Coherent(started'[Home[e]][m], e)
    BY DEF RestKnown, Numbers
  <2>1. m \in Numbers(Home[e])
    BY <1>3, <1>5, NewClientIsTyped
  <2>2. \A u \in Callers : ~Uses(u, e, m)
    BY DEF Using, Uses, UsingSteps
  <2>3. Coherent(started[Home[e]][m], e)
    BY <1>3, <1>4, <2>1, <2>2 DEF KnowledgeInv, RestKnown
  <2>4. /\ started'[Home[e]][m].tracked[e] = started[Home[e]][m].tracked[e]
        /\ started'[Home[e]][m].told[e] = started[Home[e]][m].told[e]
    BY <1>3, <1>4, <2>1
  <2> QED
    BY <2>3, <2>4 DEF Coherent
<1> QED
  BY <1>6, <1>7, <1>8, <1>9, <1>10 DEF KnowledgeInv

(* A step of one caller that leaves clients, map and lock alone, and is    *)
(* not of a user or of one that starts a client.                           *)
LEMMA QuietStep ==
  ASSUME DocIInv, NEW t \in Callers, CallOf(t), UNCHANGED <<started, registry, lockedBy>>,
         calls' \in [Callers -> 0 .. MaxCalls], CallTyped(t)',
         call[t].at \notin UsingSteps \cup {"start"}, call'[t].at \notin UsingSteps \cup {"start"},
         call'[t].at = "kill" /\ call'[t].stopping # <<>> =>
           started[call'[t].stopping[1]][call'[t].stopping[2]].status # "up",
         \A s \in Servers, n \in Nat :
           /\ call[t].op = "shutdown" /\ <<s, n>> \in call[t].left \cup {call[t].stopping}
           /\ n \in Numbers(s) /\ started[s][n].status = "up"
           => call'[t].op = "shutdown" /\ <<s, n>> \in call'[t].left \cup {call'[t].stopping},
         call'[t].op = "shutdown" =>
           /\ call[t].op = "shutdown"
           /\ call'[t].left \cup {call'[t].stopping} \subseteq call[t].left \cup {call[t].stopping}
  PROVE  DocIInv'
<1> USE DEF DocIInv, ProcessesInv
<1>1. \A u \in Callers \ {t} : call'[u] = call[u]
  BY DEF CallOf
<1>2. /\ started \in [Servers -> Seq(Clients)]
      /\ \A s \in Servers : Numbers(s)' = Numbers(s) /\ Len(started[s]) \in Nat
  BY NumbersAreNatural DEF DocumentsTyped, Numbers
<1>3. UsersStay
  <2>1. \A u \in Callers : (Using(u)' <=> Using(u)) /\ (Using(u) => call'[u] = call[u])
    BY <1>1 DEF Using
  <2> QED
    BY <1>2, <2>1 DEF UsersStay, Numbers
<1>4. KnowledgeInv'
  BY <1>3, UsersStayKeepsKnowledge
<1>5. DocumentsTyped'
  <2>1. \A u \in Callers : CallTyped(u)'
    BY <1>1, <1>2, OthersStayTyped
  <2> QED
    BY <2>1 DEF DocumentsTyped, CallOf
<1>6. LockIsOfStart'
  BY <1>1 DEF LockIsOfStart
<1>7. StartsAreOfHolders'
  <2>1. t \notin lockedBy /\ lockedBy \subseteq Callers
    BY DEF LockIsOfStart, DocumentsTyped
  <2> QED
    BY <1>1, <1>2, <2>1 DEF StartsAreOfHolders
<1>8. UsedAreStarted'
  BY <1>1 DEF UsedAreStarted, Using, On
<1>9. RunningAreKnown'
  <2> SUFFICES ASSUME NEW s \in Servers, NEW n \in Numbers(s), started[s][n].status = "up", Doomed(s, n)
               PROVE  Doomed(s, n)'
    BY <1>2 DEF RunningAreKnown
  <2>1. PICK u \in Callers : call[u].op = "shutdown" /\ <<s, n>> \in call[u].left \cup {call[u].stopping}
    BY DEF Doomed
  <2>2. n \in Nat
    BY DEF Numbers
  <2>3. call'[u].op = "shutdown" /\ <<s, n>> \in call'[u].left \cup {call'[u].stopping}
    BY <1>1, <2>1, <2>2
  <2> QED
    BY <2>3 DEF Doomed
<1>10. LeftBehindAreDown'
  <2> SUFFICES ASSUME NEW u \in Callers, call'[u].at = "kill", call'[u].stopping # <<>>,
                      \E n \in 1 .. Len(started'[call'[u].stopping[1]]) : n = call'[u].stopping[2]
               PROVE  started'[call'[u].stopping[1]][call'[u].stopping[2]].status # "up"
    BY Zenon DEF LeftBehindAreDown, Stopping, Numbers
  <2>1. CASE u = t
    BY <2>1
  <2>2. CASE u # t
    BY <1>1, <2>2 DEF LeftBehindAreDown, Stopping, Numbers
  <2> QED
    BY <2>1, <2>2
<1>11. DoomedAreStarted'
  <2>1. NoneRestarts
    BY DEF NoneRestarts
  <2>2. \A u \in Callers : call'[u].op = "shutdown" =>
          /\ call[u].op = "shutdown"
          /\ call'[u].left \cup {call'[u].stopping} \subseteq call[u].left \cup {call[u].stopping}
    BY <1>1
  <2> QED
    BY <2>1, <2>2, DoomedStayStarted
<1> QED
  BY <1>4, <1>5, <1>6, <1>7, <1>8, <1>9, <1>10, <1>11

LEMMA CallAt ==
  ASSUME DocIInv, NEW t \in Callers
  PROVE  /\ CallTyped(t) /\ DOMAIN call = Callers /\ calls \in [Callers -> 0 .. MaxCalls]
         /\ MaxCalls \in Nat /\ started \in [Servers -> Seq(Clients)] /\ registry \in [Servers -> Nat]
         /\ \A s \in Servers : registry[s] \in 0 .. Len(started[s])
BY LspDocumentsAssumption DEF DocIInv, ProcessesInv, DocumentsTyped

LEMMA PairsAreNotEmpty == \A a, b : <<a, b>> # <<>>
<1> SUFFICES ASSUME NEW a, NEW b
             PROVE  <<a, b>> # <<>>
  OBVIOUS
<1>1. Len(<<a, b>>) = 2 /\ Len(<<>>) = 0
  OBVIOUS
<1> QED
  BY <1>1

LEMMA ShutdownIsTyped ==
  ASSUME DocIInv, NEW t \in Callers, call[t].op = "shutdown"
  PROVE  /\ call[t] \in ShutdownCalls
         /\ \A c \in call[t].left \cup {call[t].stopping} : c # <<>> => c[1] \in Servers /\ c[2] \in Numbers(c[1])
<1>1. CallTyped(t) /\ call[t] \in ShutdownCalls
  BY CallAt, CallsByStep
<1>2. \A c \in call[t].left \cup {call[t].stopping} : c # <<>> => c[1] \in Servers
  BY <1>1 DEF ShutdownCalls
<1>3. call[t] # Idle /\ call[t] \notin UserCalls /\ call[t] \notin ChangedCalls
  BY <1>1 DEF ShutdownCalls, UserCalls, ChangedCalls, Idle, Operations
<1> QED
  BY <1>1, <1>2, <1>3 DEF CallTyped

LEMMA BeginKeeps == ASSUME DocIInv, NEW t \in Callers, Begin(t) PROVE DocIInv'
<1>1. PICK op \in Operations, d \in Documents :
        call' = [call EXCEPT ![t] = [op |-> op, doc |-> d, at |-> "lock", client |-> 0]]
  BY DEF Begin
<1> DEFINE k == [op |-> op, doc |-> d, at |-> "lock", client |-> 0]
<1>2. CallOf(t) /\ call'[t] = k /\ k \in UserCalls /\ k.at = "lock" /\ k.op # "shutdown"
  BY <1>1, CallAt DEF CallOf, UserCalls, Operations
<1>3. CallTyped(t)'
  BY <1>2 DEF CallTyped
<1>4. calls' \in [Callers -> 0 .. MaxCalls]
  BY CallAt DEF Begin
<1>5. call[t].at = "idle" /\ call[t].op = "idle"
  BY StepsDiffer DEF Begin
<1> QED
  BY <1>2, <1>3, <1>4, <1>5, QuietStep DEF Begin, UsingSteps

LEMMA AskToStopKeeps == ASSUME DocIInv, NEW t \in Callers, AskToStop(t) PROVE DocIInv'
<1> DEFINE a == IF Stopping(t) = "up" THEN "stopping" ELSE "kill"
<1>1. call[t].at = "stop" /\ call[t] \in ShutdownCalls /\ call[t].stopping # <<>> /\ call[t].op = "shutdown"
  <2>1. call[t].at = "stop" /\ CallTyped(t)
    BY CallAt DEF AskToStop
  <2>2. call[t].op = "shutdown" /\ call[t] \in ShutdownCalls
    BY <2>1, CallsByStep
  <2> QED
    BY <2>1, <2>2 DEF CallTyped, Idle, UserCalls, ChangedCalls, Operations
<1>0. \A c \in call[t].left \cup {call[t].stopping} : c # <<>> => c[1] \in Servers /\ c[2] \in Numbers(c[1])
  BY <1>1, ShutdownIsTyped
<1>2. CallOf(t) /\ call'[t] = [call[t] EXCEPT !.at = a]
  BY CallAt DEF AskToStop, Goto, CallOf
<1>3. /\ call'[t] \in ShutdownCalls /\ call'[t].at = a /\ call'[t].op = "shutdown"
      /\ call'[t].left = call[t].left /\ call'[t].stopping = call[t].stopping
  BY <1>1, <1>2 DEF ShutdownCalls
<1>5. calls' \in [Callers -> 0 .. MaxCalls] /\ UNCHANGED <<started, registry, lockedBy>>
  BY CallAt DEF AskToStop
<1>4. CallTyped(t)'
  BY <1>0, <1>1, <1>3, <1>5 DEF CallTyped, Numbers
<1>6. call'[t].at = "kill" => started[call'[t].stopping[1]][call'[t].stopping[2]].status # "up"
  BY <1>3 DEF Stopping
<1> QED
  BY <1>1, <1>2, <1>3, <1>4, <1>5, <1>6, QuietStep DEF UsingSteps

LEMMA KillKeeps == ASSUME DocIInv, NEW t \in Callers, Kill(t) PROVE DocIInv'
<1>1. call[t].at = "kill" /\ call[t] \in ShutdownCalls /\ call[t].op = "shutdown"
  <2>1. call[t].at = "kill" /\ CallTyped(t)
    BY CallAt DEF Kill
  <2> QED
    BY <2>1, CallsByStep
<1>2. calls' \in [Callers -> 0 .. MaxCalls] /\ UNCHANGED <<started, registry, lockedBy>>
  BY CallAt DEF Kill
<1>3. \A s \in Servers, n \in Nat : n \in Numbers(s) /\ started[s][n].status = "up" => <<s, n>> # call[t].stopping
  <2> SUFFICES ASSUME NEW s \in Servers, NEW n \in Numbers(s), <<s, n>> = call[t].stopping,
                      started[s][n].status = "up"
               PROVE  FALSE
    OBVIOUS
  <2>1. call[t].stopping[1] = s /\ call[t].stopping[2] = n /\ call[t].stopping # <<>>
    <3>1. <<s, n>>[1] = s /\ <<s, n>>[2] = n /\ <<s, n>> # <<>>
      BY PairsAreNotEmpty
    <3> QED
      BY <3>1
  <2> QED
    BY <1>1, <2>1 DEF DocIInv, ProcessesInv, LeftBehindAreDown, Stopping
<1>4. ASSUME NEW c \in call[t].left,
             call' = [call EXCEPT ![t].left = @ \ {c}, ![t].stopping = c, ![t].at = "stop"]
      PROVE  DocIInv'
  <2>1. c \in Servers \X Nat /\ c # <<>>
    <3>1. c \in Servers \X Nat
      BY <1>1 DEF ShutdownCalls
    <3>2. c = <<c[1], c[2]>>
      BY <3>1
    <3> QED
      BY <3>1, <3>2, PairsAreNotEmpty
  <2>2. CallOf(t) /\ call'[t] = [call[t] EXCEPT !.left = @ \ {c}, !.stopping = c, !.at = "stop"]
    BY <1>4, CallAt DEF CallOf
  <2>3. /\ call'[t] \in ShutdownCalls /\ call'[t].at = "stop" /\ call'[t].op = "shutdown"
        /\ call'[t].left = call[t].left \ {c} /\ call'[t].stopping = c
    BY Zenon, <1>1, <2>1, <2>2 DEF ShutdownCalls
  <2>4. CallTyped(t)'
    <3>1. \A b \in call'[t].left \cup {call'[t].stopping} : b # <<>> => b[1] \in Servers /\ b[2] \in Numbers(b[1])
      BY <1>1, <2>3, ShutdownIsTyped
    <3> QED
      BY <1>2, <2>1, <2>3, <3>1 DEF CallTyped, Numbers
  <2> QED
    BY Zenon, <1>1, <1>2, <1>3, <2>2, <2>3, <2>4, QuietStep DEF UsingSteps
<1>5. CASE call[t].left = {} /\ Return(t)
  <2>1. CallOf(t) /\ call'[t] = Idle
    BY <1>5, CallAt, ReturnOnly
  <2>2. CallTyped(t)'
    BY <2>1 DEF CallTyped
  <2> QED
    BY <1>1, <1>2, <1>3, <1>5, <2>1, <2>2, StepsDiffer, QuietStep DEF UsingSteps
<1> QED
  BY Zenon, <1>4, <1>5 DEF Kill

-----------------------------------------------------------------------------
(* A process ends.                                                         *)
Ends(s, n) ==
  /\ s \in Servers /\ n \in Numbers(s)
  /\ \E x \in {"dropped", "gone"} : SetsClient(s, n, [started[s][n] EXCEPT !.status = x])

LEMMA EndsApart ==
  ASSUME DocIInv, NEW s, NEW n, Ends(s, n)
  PROVE  /\ started' \in [Servers -> Seq(Clients)] /\ SameLengths
         /\ \A r \in Servers : Numbers(r)' = Numbers(r) /\ Len(started[r]) \in Nat
         /\ started'[s][n].status \in {"dropped", "gone"}
         /\ \A r \in Servers : \A m \in Numbers(r) :
              /\ started'[r][m].status \in {"starting", "up"} =>
                   started'[r][m] = started[r][m] /\ (r # s \/ m # n)
              /\ started'[r][m].tracked = started[r][m].tracked
              /\ started'[r][m].told = started[r][m].told
              /\ started'[r][m].misused = started[r][m].misused
<1>1. PICK x \in {"dropped", "gone"} : SetsClient(s, n, [started[s][n] EXCEPT !.status = x])
  BY DEF Ends
<1> DEFINE c1 == [started[s][n] EXCEPT !.status = x]
<1>2. /\ s \in Servers /\ n \in Numbers(s) /\ started \in [Servers -> Seq(Clients)]
      /\ started[s][n] \in Clients /\ \A r \in Servers : Len(started[r]) \in Nat
  BY CallAt, NumbersAreNatural DEF Ends, DocIInv, ProcessesInv, DocumentsTyped
<1>3. /\ c1 \in Clients /\ c1.status = x /\ c1.tracked = started[s][n].tracked
      /\ c1.told = started[s][n].told /\ c1.misused = started[s][n].misused
  BY <1>2 DEF Clients
<1> HIDE DEF c1
<1>4. started' \in [Servers -> Seq(Clients)] /\ SameLengths /\ ClientOf(s, n) /\ started'[s][n] = c1
  <2>1. SetsClient(s, n, c1)
    BY <1>1 DEF c1
  <2> QED
    BY <1>2, <1>3, <2>1, ClientSet
<1>5. \A r \in Servers : Numbers(r)' = Numbers(r)
  BY <1>4 DEF SameLengths, Numbers
<1>6. \A r \in Servers : \A m \in Numbers(r) : r # s \/ m # n => started'[r][m] = started[r][m]
  BY <1>4 DEF ClientOf
<1> QED
  BY <1>2, <1>3, <1>4, <1>5, <1>6

(* It takes no user of a document along, and no start but that of the      *)
(* caller that gives the lock back.                                        *)
LEMMA EndsKeeps ==
  ASSUME DocIInv, NEW s, NEW n, Ends(s, n), DocumentsTyped', LockIsOfStart', LeftBehindAreDown',
         registry' = registry,
         \A u \in Callers : call'[u].at \in UsingSteps \/ call[u].at \in UsingSteps => call'[u] = call[u],
         \A u \in lockedBy : (u \in lockedBy' /\ call'[u] = call[u]) \/ (Home[call[u].doc] = s /\ call[u].client = n),
         \A u \in Callers : /\ call[u].op = "shutdown" <=> call'[u].op = "shutdown"
                            /\ call[u].op = "shutdown" => /\ call'[u].left = call[u].left
                                                          /\ call'[u].stopping = call[u].stopping
  PROVE  DocIInv'
<1> USE DEF DocIInv, ProcessesInv
<1>1. /\ \A r \in Servers : Numbers(r)' = Numbers(r) /\ Len(started[r]) \in Nat
      /\ \A r \in Servers : \A m \in Numbers(r) :
              /\ started'[r][m].status \in {"starting", "up"} =>
                   started'[r][m] = started[r][m] /\ (r # s \/ m # n)
              /\ started'[r][m].tracked = started[r][m].tracked
              /\ started'[r][m].told = started[r][m].told
              /\ started'[r][m].misused = started[r][m].misused
  BY EndsApart
<1>2. \A r \in Servers : Len(started'[r]) = Len(started[r])
  BY EndsApart DEF SameLengths
<1>3. \A u \in Callers : (Using(u)' <=> Using(u)) /\ (Using(u) => call'[u] = call[u])
  BY DEF Using
<1>4. UsersStay
  <2>1. \A r \in Servers : \A m \in 1 .. Len(started'[r]) : m \in Numbers(r)
    BY <1>2 DEF Numbers
  <2>2. \A r \in Servers : Len(started'[r]) \in Nat /\ Len(started'[r]) >= Len(started[r])
    BY <1>1, <1>2
  <2> QED
    BY <1>1, <1>3, <2>1, <2>2 DEF UsersStay
<1>5. KnowledgeInv'
  BY <1>4, UsersStayKeepsKnowledge
<1>6. StartsAreOfHolders'
  <2> SUFFICES ASSUME NEW r \in Servers, NEW m \in Numbers(r), started'[r][m].status = "starting"
               PROVE  /\ started'[r][m] = NewClient
                      /\ \E u \in lockedBy' : Home[call'[u].doc] = r /\ call'[u].client = m
    BY <1>1 DEF StartsAreOfHolders
  <2>1. started'[r][m] = started[r][m] /\ (r # s \/ m # n)
    BY <1>1
  <2>2. PICK u \in lockedBy : Home[call[u].doc] = r /\ call[u].client = m
    BY <2>1 DEF StartsAreOfHolders
  <2>3. started'[r][m] = NewClient
    BY <2>1 DEF StartsAreOfHolders
  <2> QED
    BY <2>1, <2>2, <2>3
<1>7. UsedAreStarted'
  <2> SUFFICES ASSUME NEW u \in Callers, Using(u)',
                      started'[Home[call'[u].doc]][call'[u].client].status = "starting"
               PROVE  FALSE
    BY DEF UsedAreStarted, On
  <2>1. Using(u) /\ call'[u] = call[u]
    BY <1>3
  <2>2. call[u].doc \in Documents /\ call[u].client \in Numbers(Home[call[u].doc])
    BY <2>1, CallsByStep DEF DocumentsTyped
  <2>3. started[Home[call[u].doc]][call[u].client].status = "starting"
    BY <1>1, <2>1, <2>2, DocumentsHaveHomes
  <2> QED
    BY <2>1, <2>3 DEF UsedAreStarted, On
<1>8. RunningAreKnown'
  <2> SUFFICES ASSUME NEW r \in Servers, NEW m \in Numbers(r), started'[r][m].status = "up"
               PROVE  registry[r] = m \/ Doomed(r, m)'
    BY <1>1 DEF RunningAreKnown
  <2>1. registry[r] = m \/ Doomed(r, m)
    <3>1. started[r][m].status = "up"
      BY <1>1
    <3> QED
      BY <3>1 DEF RunningAreKnown
  <2>2. Doomed(r, m) => Doomed(r, m)'
    BY DEF Doomed
  <2> QED
    BY <2>1, <2>2
<1>9. DoomedAreStarted'
  <2>1. NoneRestarts
    BY <1>1 DEF NoneRestarts
  <2> QED
    BY <2>1, DoomedStayStarted
<1> QED
  BY <1>5, <1>6, <1>7, <1>8, <1>9

(* No process comes up again: what a shutdown left behind is down.         *)
LEMMA LeftStayDown ==
  ASSUME DocIInv, NEW s, NEW n, Ends(s, n), NEW u \in Callers, call'[u] = call[u],
         call[u].at = "kill", call[u].stopping # <<>>, NEW m \in 1 .. Len(started'[call[u].stopping[1]]),
         m = call[u].stopping[2]
  PROVE  started'[call[u].stopping[1]][call[u].stopping[2]].status # "up"
<1>1. call[u].stopping \in Servers \X Nat
  BY CallAt, CallsByStep DEF ShutdownCalls
<1>2. call[u].stopping[1] \in Servers
  BY <1>1
<1>3. m \in Numbers(call[u].stopping[1])
  BY <1>2, EndsApart DEF SameLengths, Numbers
<1>4. started[call[u].stopping[1]][m].status # "up"
  BY <1>3 DEF DocIInv, ProcessesInv, LeftBehindAreDown, Stopping
<1> QED
  BY <1>2, <1>3, <1>4, EndsApart

LEMMA ExitsKeeps == ASSUME DocIInv, NEW s \in Servers, Exits(s) PROVE DocIInv'
<1>1. PICK n \in DOMAIN started[s] : started' = [started EXCEPT ![s][n].status = "gone"]
  BY DEF Exits
<1>2. UNCHANGED <<registry, lockedBy, call, calls>>
  BY DEF Exits
<1>3. Ends(s, n)
  <2>1. SetsClient(s, n, [started[s][n] EXCEPT !.status = "gone"])
    BY <1>1 DEF SetsClient
  <2>2. started \in [Servers -> Seq(Clients)]
    BY DEF DocIInv, ProcessesInv, DocumentsTyped
  <2>3. n \in Numbers(s)
    BY <2>2, NumbersAreNatural
  <2> QED
    BY <2>1, <2>3 DEF Ends
<1>4. \A r \in Servers : Len(started'[r]) = Len(started[r]) /\ Len(started[r]) \in Nat
  BY <1>3, EndsApart DEF SameLengths
<1>5. DocumentsTyped'
  <2>1. \A u \in Callers : CallTyped(u)'
    BY <1>2, <1>4, OthersStayTyped DEF DocIInv, ProcessesInv
  <2> QED
    BY <1>2, <1>3, <1>4, <2>1, EndsApart DEF DocIInv, ProcessesInv, DocumentsTyped
<1>6. LockIsOfStart'
  <2>1. \A u \in Callers : call[u].at = "start" => Home[call[u].doc] \in Servers
    BY CallAt, CallsByStep, DocumentsHaveHomes DEF UserCalls
  <2> QED
    BY <1>2, <1>4, <2>1 DEF DocIInv, ProcessesInv, LockIsOfStart
<1>7. LeftBehindAreDown'
  BY <1>2, <1>3, LeftStayDown DEF LeftBehindAreDown, Stopping, Numbers
<1> QED
  BY <1>2, <1>3, <1>5, <1>6, <1>7, EndsKeeps

LEMMA StartFailsKeeps == ASSUME DocIInv, NEW t \in Callers, StartFails(t) PROVE DocIInv'
<1> DEFINE s == Home[call[t].doc]
           n == call[t].client
<1>1. /\ call[t].at = "start" /\ call[t] \in UserCalls /\ call[t].doc \in Documents
      /\ s \in Servers /\ n \in Numbers(s) /\ call[t].op # "shutdown"
  <2>1. call[t].at = "start" /\ CallTyped(t)
    BY CallAt DEF StartFails
  <2>2. call[t] \in UserCalls
    BY <2>1, CallsByStep
  <2>3. n \in Numbers(s)
    BY <2>1 DEF CallTyped, Idle, ChangedCalls, ShutdownCalls
  <2> QED
    BY <2>1, <2>2, <2>3, DocumentsHaveHomes DEF UserCalls, Operations
<1>2. CallOf(t) /\ call'[t] = Idle /\ UNCHANGED <<registry, calls>> /\ lockedBy' = {}
  BY CallAt, ReturnOnly DEF StartFails
<1>3. Ends(s, n)
  <2>1. SetsClient(s, n, [started[s][n] EXCEPT !.status = "dropped"])
    BY DEF StartFails, SetsClient
  <2> QED
    BY Zenon, <1>1, <2>1 DEF Ends
<1>4. lockedBy = {t}
  BY <1>1 DEF DocIInv, ProcessesInv, LockIsOfStart, DocumentsTyped
<1>5. \A r \in Servers : Len(started'[r]) = Len(started[r]) /\ Len(started[r]) \in Nat
  BY <1>3, EndsApart DEF SameLengths
<1>6. \A u \in Callers \ {t} : call'[u] = call[u] /\ call[u].at # "start"
  BY <1>2, <1>4 DEF CallOf, DocIInv, ProcessesInv, LockIsOfStart
<1>7. DocumentsTyped'
  <2>1. \A u \in Callers : CallTyped(u)'
    <3>1. CallTyped(t)'
      BY <1>2 DEF CallTyped
    <3> QED
      BY <1>5, <1>6, <3>1, OthersStayTyped DEF DocIInv, ProcessesInv
  <2> QED
    BY <1>2, <1>3, <1>5, <2>1, EndsApart DEF DocIInv, ProcessesInv, DocumentsTyped, CallOf
<1>8. LockIsOfStart'
  BY <1>2, <1>6, StepsDiffer DEF LockIsOfStart
<1>9. LeftBehindAreDown'
  <2>1. \A u \in Callers : call'[u].at = "kill" => u # t /\ call'[u] = call[u]
    BY <1>2, <1>6, StepsDiffer
  <2> QED
    BY <1>3, <2>1, LeftStayDown DEF LeftBehindAreDown, Stopping, Numbers
<1> QED
  BY <1>1, <1>2, <1>3, <1>4, <1>6, <1>7, <1>8, <1>9, StepsDiffer, EndsKeeps DEF UsingSteps

LEMMA StoppedKeeps == ASSUME DocIInv, NEW t \in Callers, Stopped(t) PROVE DocIInv'
<1> DEFINE s == call[t].stopping[1]
           n == call[t].stopping[2]
<1>1. /\ call[t].at = "stopping" /\ call[t] \in ShutdownCalls /\ call[t].op = "shutdown"
      /\ s \in Servers /\ n \in Numbers(s) /\ call[t].stopping = <<s, n>>
  <2>1. call[t].at = "stopping" /\ CallTyped(t)
    BY CallAt DEF Stopped
  <2>2. call[t].op = "shutdown" /\ call[t] \in ShutdownCalls
    BY <2>1, CallsByStep
  <2>3. call[t].stopping # <<>>
    BY <2>1, <2>2 DEF CallTyped, Idle, UserCalls, ChangedCalls, Operations
  <2>4. call[t].stopping \in Servers \X Nat
    BY <2>2, <2>3 DEF ShutdownCalls
  <2>5. s \in Servers /\ n \in Nat /\ call[t].stopping = <<s, n>>
    BY <2>4
  <2>6. n \in Numbers(s)
    BY <2>2, <2>3, ShutdownIsTyped
  <2> QED
    BY <2>1, <2>2, <2>5, <2>6
<1>2. Ends(s, n)
  <2>1. SetsClient(s, n, [started[s][n] EXCEPT !.status = "gone"])
    BY DEF Stopped, SetsClient
  <2> QED
    BY Zenon, <1>1, <2>1 DEF Ends
<1>3. CallOf(t) /\ call'[t] = [call[t] EXCEPT !.at = "kill"] /\ UNCHANGED <<registry, lockedBy, calls>>
  BY CallAt DEF Stopped, Goto, CallOf
<1>4. /\ call'[t] \in ShutdownCalls /\ call'[t].at = "kill" /\ call'[t].op = "shutdown"
      /\ call'[t].left = call[t].left /\ call'[t].stopping = call[t].stopping
  BY <1>1, <1>3 DEF ShutdownCalls
<1>5. \A r \in Servers : Len(started'[r]) = Len(started[r]) /\ Len(started[r]) \in Nat
  BY <1>2, EndsApart DEF SameLengths
<1>6. \A u \in Callers \ {t} : call'[u] = call[u]
  BY <1>3 DEF CallOf
<1>7. DocumentsTyped'
  <2>1. CallTyped(t)'
    BY <1>1, <1>4, <1>5, ShutdownIsTyped DEF CallTyped, Numbers
  <2>2. \A u \in Callers : CallTyped(u)'
    BY <1>5, <1>6, <2>1, OthersStayTyped DEF DocIInv, ProcessesInv
  <2> QED
    BY <1>2, <1>3, <1>5, <2>2, EndsApart DEF DocIInv, ProcessesInv, DocumentsTyped, CallOf
<1>8. LockIsOfStart'
  <2>1. \A u \in Callers : call[u].at = "start" => Home[call[u].doc] \in Servers
    BY CallAt, CallsByStep, DocumentsHaveHomes DEF UserCalls
  <2>2. call[t].at # "start" /\ call'[t].at # "start"
    BY <1>1, <1>4
  <2>3. \A u \in Callers : call[u].at = "start" \/ call'[u].at = "start" => call'[u] = call[u]
    BY <1>6, <2>2
  <2>4. \A u \in Callers : call'[u].at = "start" <=> call[u].at = "start"
    BY <2>3
  <2> QED
    BY <1>3, <1>5, <2>1, <2>3, <2>4 DEF DocIInv, ProcessesInv, LockIsOfStart
<1>9. LeftBehindAreDown'
  <2> SUFFICES ASSUME NEW u \in Callers, call'[u].at = "kill", call'[u].stopping # <<>>,
                      NEW m \in 1 .. Len(started'[call'[u].stopping[1]]), m = call'[u].stopping[2]
               PROVE  started'[call'[u].stopping[1]][call'[u].stopping[2]].status # "up"
    BY DEF LeftBehindAreDown, Stopping, Numbers
  <2>1. CASE u = t
    BY <1>2, <1>4, <2>1, EndsApart
  <2>2. CASE u # t
    BY <1>2, <1>6, <2>2, LeftStayDown
  <2> QED
    BY <2>1, <2>2
<1> QED
  <2>1. \A u \in lockedBy : u # t /\ u \in Callers
    BY <1>1 DEF DocIInv, ProcessesInv, LockIsOfStart, DocumentsTyped
  <2>2. call[t].at \notin UsingSteps /\ call'[t].at \notin UsingSteps
    BY <1>1, <1>4 DEF UsingSteps
  <2>3. \A u \in Callers : call'[u].at \in UsingSteps \/ call[u].at \in UsingSteps => call'[u] = call[u]
    BY <1>6, <2>2
  <2> QED
    BY Zenon, <1>1, <1>2, <1>3, <1>4, <1>6, <1>7, <1>8, <1>9, <2>1, <2>3, EndsKeeps

-----------------------------------------------------------------------------
(* Shutdown takes every client from the map, and has them all to stop.     *)
LEMMA ShutdownKeeps == ASSUME DocIInv, NEW t \in Callers, Shutdown(t) PROVE DocIInv'
<1> DEFINE taken == {<<s, registry[s]>> : s \in {r \in Servers : registry[r] # 0}}
           k == [op |-> "shutdown", at |-> "kill", stopping |-> <<>>, left |-> taken]
<1> USE DEF DocIInv, ProcessesInv
<1>1. /\ CallOf(t) /\ call'[t] = k /\ call[t] = Idle /\ UNCHANGED <<started, lockedBy>> /\ lockedBy = {}
      /\ registry' = [s \in Servers |-> 0] /\ calls' \in [Callers -> 0 .. MaxCalls]
  BY CallAt DEF Shutdown, CallOf
<1>2. \A u \in Callers \ {t} : call'[u] = call[u]
  BY <1>1 DEF CallOf
<1>3. /\ started \in [Servers -> Seq(Clients)] /\ registry \in [Servers -> Nat]
      /\ \A s \in Servers : registry[s] \in 0 .. Len(started[s]) /\ Len(started[s]) \in Nat
  BY NumbersAreNatural DEF DocumentsTyped
<1>4. \A c \in taken : c \in Servers \X Nat /\ c[2] \in Numbers(c[1])
  <2> SUFFICES ASSUME NEW s \in Servers, registry[s] # 0
               PROVE  <<s, registry[s]>> \in Servers \X Nat /\ registry[s] \in Numbers(s)
    OBVIOUS
  <2> QED
    BY <1>3 DEF Numbers
<1> HIDE DEF taken
<1>5. CallTyped(t)'
  <2>1. k \in ShutdownCalls
    BY <1>4 DEF ShutdownCalls
  <2>2. \A c \in k.left \cup {k.stopping} : c # <<>> => c[2] \in Numbers(c[1])
    BY <1>4
  <2>3. k.at = "kill"
    OBVIOUS
  <2> HIDE DEF k
  <2> QED
    BY <1>1, <2>1, <2>2, <2>3 DEF CallTyped, Numbers
<1>6. UsersStay
  <2>1. ~Using(t) /\ ~Using(t)'
    BY <1>1, StepsDiffer DEF Using, UsingSteps
  <2>2. \A u \in Callers : (Using(u)' <=> Using(u)) /\ (Using(u) => call'[u] = call[u])
    BY <1>2, <2>1 DEF Using
  <2> QED
    BY <1>1, <1>3, <2>2 DEF UsersStay, Numbers
<1>7. KnowledgeInv'
  BY <1>6, UsersStayKeepsKnowledge
<1>8. DocumentsTyped'
  <2>1. \A u \in Callers : CallTyped(u)'
    BY <1>1, <1>2, <1>3, <1>5, OthersStayTyped
  <2>2. registry' \in [Servers -> Nat] /\ \A s \in Servers : registry'[s] \in 0 .. Len(started[s])
    BY <1>1, <1>3
  <2> QED
    BY <1>1, <2>1, <2>2 DEF DocumentsTyped, CallOf
<1>9. \A u \in Callers : call'[u].at # "start"
  BY <1>1, <1>2 DEF LockIsOfStart
<1>10. LockIsOfStart'
  BY <1>1, <1>9 DEF LockIsOfStart
<1>11. StartsAreOfHolders'
  <2>1. \A s \in Servers : \A n \in Numbers(s) : started[s][n].status # "starting"
    BY <1>1 DEF StartsAreOfHolders
  <2> QED
    BY <1>1, <2>1 DEF StartsAreOfHolders, Numbers
<1>12. UsedAreStarted'
  BY <1>1, <1>6 DEF UsedAreStarted, UsersStay, On
<1>13. RunningAreKnown'
  <2> SUFFICES ASSUME NEW s \in Servers, NEW n \in Numbers(s), started[s][n].status = "up"
               PROVE  Doomed(s, n)'
    BY <1>1 DEF RunningAreKnown, Numbers
  <2>1. CASE registry[s] = n
    <3>1. n # 0
      BY <1>3 DEF Numbers
    <3>2. <<s, n>> \in taken
      BY <2>1, <3>1 DEF taken
    <3> QED
      BY <1>1, <3>2 DEF Doomed
  <2>2. CASE registry[s] # n
    <3>1. PICK u \in Callers : call[u].op = "shutdown" /\ <<s, n>> \in call[u].left \cup {call[u].stopping}
      BY <2>2 DEF RunningAreKnown, Doomed
    <3>2. u # t
      BY <1>1, <3>1, StepsDiffer
    <3> QED
      BY <1>2, <3>1, <3>2 DEF Doomed
  <2> QED
    BY <2>1, <2>2
<1>14. LeftBehindAreDown'
  <2>1. \A u \in Callers : call'[u].at = "kill" /\ call'[u].stopping # <<>> => call'[u] = call[u]
    BY <1>1, <1>2
  <2> QED
    BY <1>1, <2>1 DEF LeftBehindAreDown, Stopping, Numbers
<1>15. DoomedAreStarted'
  <2>1. NoneRestarts
    BY <1>1 DEF NoneRestarts
  <2>2. \A c \in k.left \cup {k.stopping} : c # <<>> => started[c[1]][c[2]].status # "starting"
    <3> SUFFICES ASSUME NEW c \in taken
                 PROVE  started[c[1]][c[2]].status # "starting"
      OBVIOUS
    <3>1. c[1] \in Servers /\ c[2] \in Numbers(c[1])
      BY <1>4
    <3> QED
      BY <1>1, <3>1 DEF StartsAreOfHolders
  <2> HIDE DEF k
  <2> QED
    BY <1>1, <1>2, <2>1, <2>2, DoomedStayStarted
<1> QED
  BY <1>7, <1>8, <1>10, <1>11, <1>12, <1>13, <1>14, <1>15

(* A caller on its way to a client.                                        *)
LEMMA WaiterIsTyped ==
  ASSUME DocIInv, NEW t \in Callers, call[t].at \in {"lock", "start"}
  PROVE  /\ call[t] \in UserCalls /\ call[t].doc \in Documents /\ Home[call[t].doc] \in Servers
         /\ ~Using(t) /\ call[t].op # "shutdown"
         /\ call[t].at = "start" => call[t].client \in Numbers(Home[call[t].doc])
<1>1. CallTyped(t) /\ call[t] \in UserCalls
  BY CallAt, CallsByStep
<1> QED
  BY <1>1, DocumentsHaveHomes DEF UserCalls, Using, UsingSteps, CallTyped, Idle, ChangedCalls,
     ShutdownCalls, Operations

LEMMA StartClientKeeps == ASSUME DocIInv, NEW t \in Callers, StartClient(t) PROVE DocIInv'
<1> DEFINE s == Home[call[t].doc]
           n == Len(started[s]) + 1
<1> USE DEF DocIInv, ProcessesInv
<1>1. /\ call[t].at = "lock" /\ lockedBy = {} /\ registry[s] = 0 /\ lockedBy' = {t}
      /\ UNCHANGED <<registry, calls>>
      /\ call[t] \in UserCalls /\ s \in Servers /\ ~Using(t) /\ call[t].op # "shutdown"
      /\ call[t].doc \in Documents
  BY WaiterIsTyped DEF StartClient
<1>2. started \in [Servers -> Seq(Clients)] /\ \A r \in Servers : Len(started[r]) \in Nat
  BY NumbersAreNatural DEF DocumentsTyped
<1>3. CallOf(t) /\ call'[t] = [call[t] EXCEPT !.client = n, !.at = "start"]
  BY CallAt DEF StartClient, CallOf
<1>4. /\ call'[t] \in UserCalls /\ call'[t].client = n /\ call'[t].at = "start"
      /\ call'[t].doc = call[t].doc /\ call'[t].op = call[t].op
  <2>1. n \in Nat
    BY <1>1, <1>2
  <2> HIDE DEF n
  <2> QED
    BY <1>1, <1>3, <2>1 DEF UserCalls
<1>5. \A u \in Callers \ {t} : call'[u] = call[u]
  BY <1>3 DEF CallOf
<1>6. /\ started' = [started EXCEPT ![s] = Append(started[s], NewClient)]
      /\ Append(started[s], NewClient) \in Seq(Clients) /\ Len(Append(started[s], NewClient)) = n
      /\ \A m \in 1 .. Len(started[s]) : Append(started[s], NewClient)[m] = started[s][m]
      /\ Append(started[s], NewClient)[n] = NewClient
  BY <1>1, <1>2, AppendProperties, NewClientIsTyped DEF StartClient
<1>7. /\ started' \in [Servers -> Seq(Clients)] /\ Len(started'[s]) = n /\ started'[s][n] = NewClient
      /\ \A r \in Servers \ {s} : started'[r] = started[r]
      /\ \A m \in Numbers(s) : started'[s][m] = started[s][m]
  BY <1>1, <1>2, <1>6 DEF Numbers
<1>8. /\ \A r \in Servers : Len(started'[r]) \in Nat /\ Len(started'[r]) >= Len(started[r])
      /\ \A r \in Servers : \A m \in 1 .. Len(started'[r]) :
           \/ m \in Numbers(r) /\ started'[r][m] = started[r][m]
           \/ r = s /\ m = n /\ m \notin Numbers(r) /\ started'[r][m] = NewClient
      /\ \A r \in Servers : \A m \in Numbers(r) : started'[r][m] = started[r][m]
  <2>1. Len(started[s]) \in Nat /\ n = Len(started[s]) + 1
    BY <1>1, <1>2
  <2>2. \A r \in Servers : Len(started'[r]) \in Nat /\ Len(started'[r]) >= Len(started[r])
    BY <1>2, <1>7, <2>1
  <2>3. \A r \in Servers : \A m \in Numbers(r) : started'[r][m] = started[r][m]
    BY <1>7
  <2>4. \A m \in 1 .. n : m \in Numbers(s) \/ (m = n /\ m \notin Numbers(s))
    BY <2>1 DEF Numbers
  <2>5. \A r \in Servers : \A m \in 1 .. Len(started'[r]) :
          m \in Numbers(r) \/ (r = s /\ m = n /\ m \notin Numbers(r))
    BY <1>7, <2>4 DEF Numbers
  <2> QED
    BY <1>7, <2>2, <2>3, <2>5
<1>9. UsersStay
  <2>1. ~Using(t)'
    BY <1>4, StepsDiffer DEF Using, UsingSteps
  <2>2. \A u \in Callers : (Using(u)' <=> Using(u)) /\ (Using(u) => call'[u] = call[u])
    BY <1>1, <1>5, <2>1 DEF Using
  <2> QED
    BY <1>8, <2>2 DEF UsersStay
<1>10. KnowledgeInv'
  BY <1>9, UsersStayKeepsKnowledge
<1>11. DocumentsTyped'
  <2>1. CallTyped(t)'
    BY <1>1, <1>2, <1>4, <1>7 DEF CallTyped, Numbers
  <2>2. \A u \in Callers : CallTyped(u)'
    BY <1>5, <1>8, <2>1, OthersStayTyped
  <2>3. registry' \in [Servers -> Nat] /\ \A r \in Servers : registry'[r] \in 0 .. Len(started'[r])
    <3>1. registry \in [Servers -> Nat] /\ \A r \in Servers : registry[r] \in 0 .. Len(started[r])
      BY DEF DocumentsTyped
    <3> QED
      BY <1>1, <1>2, <1>8, <3>1
  <2> QED
    BY <1>1, <1>3, <1>7, <2>2, <2>3 DEF DocumentsTyped, CallOf
<1>12. LockIsOfStart'
  <2>1. \A u \in Callers \ {t} : call'[u].at # "start"
    BY <1>1, <1>5 DEF LockIsOfStart
  <2> QED
    BY <1>1, <1>4, <1>7, <2>1 DEF LockIsOfStart
<1>13. StartsAreOfHolders'
  <2>1. \A r \in Servers : \A m \in Numbers(r) : started[r][m].status # "starting"
    BY <1>1 DEF StartsAreOfHolders
  <2> SUFFICES ASSUME NEW r \in Servers, NEW m \in 1 .. Len(started'[r]), started'[r][m].status = "starting"
               PROVE  /\ started'[r][m] = NewClient
                      /\ \E u \in lockedBy' : Home[call'[u].doc] = r /\ call'[u].client = m
    BY DEF StartsAreOfHolders, Numbers
  <2>2. r = s /\ m = n /\ started'[r][m] = NewClient
    BY <1>8, <2>1
  <2> QED
    BY <1>1, <1>4, <2>2
<1>14. UsedAreStarted'
  <2> SUFFICES ASSUME NEW u \in Callers, Using(u)',
                      started'[Home[call'[u].doc]][call'[u].client].status = "starting"
               PROVE  FALSE
    BY DEF UsedAreStarted, On
  <2>1. Using(u) /\ call'[u] = call[u]
    BY <1>9 DEF UsersStay
  <2>2. call[u].doc \in Documents /\ call[u].client \in Numbers(Home[call[u].doc])
    BY <2>1, UserIsTyped
  <2>3. started[Home[call[u].doc]][call[u].client].status = "starting"
    BY <1>8, <2>1, <2>2, DocumentsHaveHomes
  <2> QED
    BY <2>1, <2>3 DEF UsedAreStarted, On
<1>15. RunningAreKnown'
  <2> SUFFICES ASSUME NEW r \in Servers, NEW m \in 1 .. Len(started'[r]), started'[r][m].status = "up"
               PROVE  registry[r] = m \/ Doomed(r, m)'
    BY <1>1 DEF RunningAreKnown, Numbers
  <2>1. m \in Numbers(r) /\ started[r][m].status = "up"
    BY <1>8, NewClientIsTyped
  <2>2. registry[r] = m \/ Doomed(r, m)
    BY <2>1 DEF RunningAreKnown
  <2>3. Doomed(r, m) => Doomed(r, m)'
    BY <1>1, <1>5 DEF Doomed
  <2> QED
    BY <2>2, <2>3
<1>16. LeftBehindAreDown'
  <2> SUFFICES ASSUME NEW u \in Callers, call'[u].at = "kill", call'[u].stopping # <<>>,
                      NEW m \in 1 .. Len(started'[call'[u].stopping[1]]), m = call'[u].stopping[2]
               PROVE  started'[call'[u].stopping[1]][call'[u].stopping[2]].status # "up"
    BY DEF LeftBehindAreDown, Stopping, Numbers
  <2>1. u # t /\ call'[u] = call[u]
    BY <1>4, <1>5
  <2>2. call[u].stopping[1] \in Servers /\ call[u].stopping[2] \in Numbers(call[u].stopping[1])
    BY <2>1, CallAt, CallsByStep, ShutdownIsTyped
  <2> QED
    BY <1>8, <2>1, <2>2 DEF LeftBehindAreDown, Stopping
<1>17. DoomedAreStarted'
  <2>1. NoneRestarts
    BY <1>8 DEF NoneRestarts
  <2> QED
    BY <1>1, <1>4, <1>5, <2>1, DoomedStayStarted
<1> QED
  BY <1>10, <1>11, <1>12, <1>13, <1>14, <1>15, <1>16, <1>17

(* The client came up: the caller is the first to use it.                  *)
LEMMA StartedKeeps == ASSUME DocIInv, NEW t \in Callers, Started(t) PROVE DocIInv'
<1> DEFINE d == call[t].doc
           s == Home[d]
           n == call[t].client
           c == started[s][n]
           c1 == [c EXCEPT !.status = "up"]
           a == FirstStep(call[t].op)
<1> USE DEF DocIInv, ProcessesInv
<1>1. /\ call[t].at = "start" /\ c.status = "starting" /\ call[t] \in UserCalls /\ d \in Documents
      /\ s \in Servers /\ n \in Numbers(s) /\ n \in Nat /\ ~Using(t) /\ call[t].op # "shutdown"
      /\ lockedBy' = {} /\ UNCHANGED calls /\ registry' = [registry EXCEPT ![s] = n]
      /\ started \in [Servers -> Seq(Clients)] /\ c \in Clients
      /\ \A r \in Servers : Len(started[r]) \in Nat
  <2>1. call[t].at = "start" /\ c.status = "starting" /\ lockedBy' = {} /\ UNCHANGED calls
        /\ registry' = [registry EXCEPT ![s] = n]
    BY DEF Started, On
  <2>2. call[t] \in UserCalls /\ d \in Documents /\ s \in Servers /\ n \in Numbers(s) /\ ~Using(t)
        /\ call[t].op # "shutdown"
    BY <2>1, WaiterIsTyped
  <2>3. started \in [Servers -> Seq(Clients)]
    BY CallAt
  <2> QED
    BY <2>1, <2>2, <2>3, NumbersAreNatural DEF Numbers
<1>2. c = NewClient /\ registry[s] = 0 /\ n = Len(started[s]) /\ lockedBy = {t}
  BY <1>1 DEF StartsAreOfHolders, LockIsOfStart, DocumentsTyped
<1>3. /\ c1 \in Clients /\ c1.status = "up" /\ c1.tracked = c.tracked /\ c1.told = c.told
      /\ c1.misused = c.misused
  BY Zenon, <1>1 DEF Clients
<1> HIDE DEF c1
<1>4. started' \in [Servers -> Seq(Clients)] /\ SameLengths /\ ClientOf(s, n) /\ started'[s][n] = c1
  <2>1. SetsClient(s, n, c1)
    BY DEF Started, SetsClient, c1
  <2> QED
    BY <1>1, <1>3, <2>1, ClientSet
<1>5. a \in {"check", "write"} /\ (a = "write" => call[t].op = "open")
  BY DEF FirstStep
<1> HIDE DEF a
<1>6. /\ CallOf(t) /\ call'[t] \in UserCalls /\ call'[t].at = a /\ call'[t].op = call[t].op
      /\ call'[t].doc = d /\ call'[t].client = n
  <2>1. Goto(t, a)
    BY DEF Started, a
  <2>2. call[t] \notin ChangedCalls
    BY <1>1 DEF UserCalls, ChangedCalls, Operations
  <2>3. /\ CallOf(t) /\ call'[t] \in UserCalls \cup ChangedCalls
        /\ call'[t].at = a /\ call'[t].op = call[t].op
        /\ call'[t].doc = d /\ call'[t].client = n
    BY <1>1, <1>5, <2>1, <2>2, CallAt, GotoOnly DEF UsingSteps
  <2>4. call'[t] \notin ChangedCalls
    BY <1>1, <2>3 DEF UserCalls, ChangedCalls, Operations
  <2> QED
    BY <2>3, <2>4
<1>7. \A u \in Callers \ {t} : call'[u] = call[u] /\ call[u].at # "start"
  BY <1>2, <1>6 DEF CallOf, LockIsOfStart
<1>8. \A r \in Servers : Len(started'[r]) = Len(started[r]) /\ Numbers(r)' = Numbers(r)
  BY <1>4 DEF SameLengths, Numbers
<1>9. \A r \in Servers : \A m \in Numbers(r) : r # s \/ m # n => started'[r][m] = started[r][m]
  BY <1>4 DEF ClientOf
<1>10. \A u \in Callers : Using(u) => /\ u # t /\ call[u].doc \in Documents /\ Home[call[u].doc] \in Servers
                                      /\ call[u].client \in Numbers(Home[call[u].doc])
                                      /\ Home[call[u].doc] # s \/ call[u].client # n
  <2> SUFFICES ASSUME NEW u \in Callers, Using(u)
               PROVE  /\ u # t /\ call[u].doc \in Documents /\ Home[call[u].doc] \in Servers
                      /\ call[u].client \in Numbers(Home[call[u].doc])
                      /\ Home[call[u].doc] # s \/ call[u].client # n
    OBVIOUS
  <2>1. started[Home[call[u].doc]][call[u].client].status # "starting"
    BY DEF UsedAreStarted, On
  <2> QED
    BY <1>1, <2>1, UserIsTyped
<1>11. Using(t)' /\ \A u \in Callers \ {t} : (Using(u)' <=> Using(u))
  BY <1>5, <1>6, <1>7 DEF Using, UsingSteps
<1>12. DocumentsTyped'
  <2>1. CallTyped(t)'
    <3>1. n \in 1 .. Len(started'[s])
      BY <1>1, <1>8 DEF Numbers
    <3> QED
      BY <1>5, <1>6, <3>1 DEF CallTyped, Written, Numbers
  <2>2. \A u \in Callers : CallTyped(u)'
    BY <1>1, <1>7, <1>8, <2>1, OthersStayTyped
  <2>3. registry' \in [Servers -> Nat] /\ \A r \in Servers : registry'[r] \in 0 .. Len(started'[r])
    <3>1. registry \in [Servers -> Nat] /\ \A r \in Servers : registry[r] \in 0 .. Len(started[r])
      BY DEF DocumentsTyped
    <3>2. n \in 0 .. Len(started[s])
      BY <1>1 DEF Numbers
    <3> QED
      BY <1>1, <1>8, <3>1, <3>2
  <2> QED
    BY <1>1, <1>4, <1>6, <2>2, <2>3 DEF DocumentsTyped, CallOf
<1>13. LockIsOfStart'
  BY <1>1, <1>5, <1>6, <1>7 DEF LockIsOfStart
<1>14. StartsAreOfHolders'
  <2> SUFFICES ASSUME NEW r \in Servers, NEW m \in Numbers(r), started'[r][m].status = "starting"
               PROVE  FALSE
    BY <1>8 DEF StartsAreOfHolders
  <2>1. (r # s \/ m # n) /\ started[r][m].status = "starting"
    BY <1>3, <1>4, <1>9
  <2> QED
    BY <1>2, <2>1 DEF StartsAreOfHolders
<1>15. UsedAreStarted'
  <2> SUFFICES ASSUME NEW u \in Callers, Using(u)'
               PROVE  started'[Home[call'[u].doc]][call'[u].client].status # "starting"
    BY DEF UsedAreStarted, On
  <2>1. CASE u = t
    BY <1>3, <1>4, <1>6, <2>1
  <2>2. CASE u # t
    BY <1>7, <1>9, <1>10, <1>11, <2>2 DEF UsedAreStarted, On
  <2> QED
    BY <2>1, <2>2
<1>16. RunningAreKnown'
  <2> SUFFICES ASSUME NEW r \in Servers, NEW m \in Numbers(r), started'[r][m].status = "up"
               PROVE  registry'[r] = m \/ Doomed(r, m)'
    BY <1>8 DEF RunningAreKnown
  <2>1. CASE r = s /\ m = n
    BY <1>1, <2>1 DEF DocumentsTyped
  <2>2. CASE r # s \/ m # n
    <3>1. registry[r] = m \/ Doomed(r, m)
      BY <1>9, <2>2 DEF RunningAreKnown
    <3>2. Doomed(r, m) => Doomed(r, m)'
      BY <1>1, <1>7 DEF Doomed
    <3>3. registry[r] = m => r # s
      BY <1>2 DEF Numbers
    <3>4. r # s => registry'[r] = registry[r]
      BY <1>1 DEF DocumentsTyped
    <3> QED
      BY <3>1, <3>2, <3>3, <3>4
  <2> QED
    BY <2>1, <2>2
<1>17. LeftBehindAreDown'
  <2> SUFFICES ASSUME NEW u \in Callers, call'[u].at = "kill", call'[u].stopping # <<>>,
                      NEW m \in 1 .. Len(started'[call'[u].stopping[1]]), m = call'[u].stopping[2]
               PROVE  started'[call'[u].stopping[1]][call'[u].stopping[2]].status # "up"
    BY DEF LeftBehindAreDown, Stopping, Numbers
  <2>1. u # t /\ call'[u] = call[u]
    BY <1>5, <1>6, <1>7
  <2>2. call[u].stopping[1] \in Servers /\ call[u].stopping[2] \in Numbers(call[u].stopping[1])
    BY <2>1, CallAt, CallsByStep, ShutdownIsTyped
  <2>3. started[call[u].stopping[1]][call[u].stopping[2]].status # "up"
    BY <2>1, <2>2 DEF LeftBehindAreDown, Stopping
  <2>4. call[u].stopping[1] # s \/ call[u].stopping[2] # n
    <3>1. started[call[u].stopping[1]][call[u].stopping[2]].status # "starting"
      BY <2>1, CallAt, CallsByStep DEF DoomedAreStarted
    <3> QED
      BY <1>1, <3>1
  <2> QED
    BY <1>9, <2>1, <2>2, <2>3, <2>4
<1>18. DoomedAreStarted'
  <2>1. NoneRestarts
    BY <1>3, <1>4, <1>9 DEF NoneRestarts
  <2> QED
    BY <1>1, <1>6, <1>7, <2>1, DoomedStayStarted
<1>19. \A r \in Servers : \A m \in Numbers(r) : \A e \in Documents :
        /\ Fair(r, m, e)' <=> Fair(r, m, e)
        /\ started'[r][m].tracked[e] = started[r][m].tracked[e]
        /\ started'[r][m].told[e] = started[r][m].told[e]
  BY <1>3, <1>4, <1>9 DEF Fair
<1>20. ElsewhereUnseen' /\ ToldSanely'
  <2>1. ElsewhereUnseen'
    BY <1>8, <1>19 DEF KnowledgeInv, ElsewhereUnseen
  <2>2. ToldSanely'
    <3> SUFFICES ASSUME NEW e \in Documents, NEW m \in Numbers(Home[e]), Fair(Home[e], m, e)'
                 PROVE  started'[Home[e]][m].told[e].sane
      BY <1>8, DocumentsHaveHomes DEF ToldSanely
    <3>1. Home[e] \in Servers
      BY DocumentsHaveHomes
    <3>2. Fair(Home[e], m, e)
      BY <1>19, <3>1
    <3> QED
      BY <1>19, <3>1, <3>2 DEF KnowledgeInv, ToldSanely
  <2> QED
    BY <2>1, <2>2
<1>21. OneUser'
  <2> SUFFICES ASSUME NEW u \in Callers, NEW v \in Callers, Using(u)', Using(v)',
                      call'[u].doc = call'[v].doc, call'[u].client = call'[v].client,
                      Fair(Home[call[u].doc], call[u].client, call[u].doc)'
               PROVE  u = v
    BY DEF OneUser
  <2>1. CASE u # t /\ v # t
    <3>1. Using(u) /\ Using(v) /\ call'[u] = call[u] /\ call'[v] = call[v]
      BY <1>7, <1>11, <2>1
    <3>2. call[u].doc \notin started'[Home[call[u].doc]][call[u].client].misused
      BY <3>1 DEF Fair
    <3>3. Fair(Home[call[u].doc], call[u].client, call[u].doc)
      BY <1>10, <1>19, <3>1, <3>2 DEF Fair
    <3> QED
      BY <3>1, <3>3 DEF KnowledgeInv, OneUser
  <2>2. \A w \in Callers \ {t} : Using(w)' => call'[w].doc # call'[t].doc \/ call'[w].client # call'[t].client
    BY <1>6, <1>7, <1>10, <1>11
  <2> QED
    BY <2>1, <2>2
<1>22. Coherent(c1, d)
  BY <1>1, <1>2, <1>3, NewClientIsTyped DEF Coherent, Unseen
<1>23. UsersKnow'
  <2> SUFFICES ASSUME NEW u \in Callers, Using(u)',
                      started'[Home[call'[u].doc]][call'[u].client].status = "up",
                      Fair(Home[call[u].doc], call[u].client, call[u].doc)'
               PROVE  CountsOn(call'[u], started'[Home[call'[u].doc]][call'[u].client])
    BY DEF UsersKnow, Running, On
  <2>1. CASE u = t
    <3>1. c1.tracked[d] = 0
      BY <1>1, <1>2, <1>3, NewClientIsTyped
    <3> QED
      BY Zenon, <1>4, <1>5, <1>6, <1>22, <2>1, <3>1 DEF CountsOn
  <2>2. CASE u # t
    <3>1. Using(u) /\ call'[u] = call[u]
      BY <1>7, <1>11, <2>2
    <3> DEFINE e == call[u].doc
               m == call[u].client
    <3>2. /\ e \in Documents /\ Home[e] \in Servers /\ m \in Numbers(Home[e])
          /\ started'[Home[e]][m] = started[Home[e]][m]
      BY <1>9, <1>10, <3>1
    <3>3. e \notin started'[Home[e]][m].misused /\ started'[Home[e]][m].status = "up"
      BY <3>1 DEF Fair
    <3>4. CountsOn(call[u], started[Home[e]][m])
      BY Zenon, <3>1, <3>2, <3>3 DEF KnowledgeInv, UsersKnow, Running, On, Fair
    <3> QED
      BY <3>1, <3>2, <3>4
  <2> QED
    BY <2>1, <2>2
<1>24. RestKnown'
  <2> SUFFICES ASSUME NEW e \in Documents, NEW m \in Numbers(Home[e]),
                      started'[Home[e]][m].status = "up", Fair(Home[e], m, e),
                      \A u \in Callers : ~Uses(u, e, m)'
               PROVE  Coherent(started'[Home[e]][m], e)
    BY <1>8, <1>19, DocumentsHaveHomes DEF RestKnown
  <2>1. CASE Home[e] = s /\ m = n
    <3>1. started'[Home[e]][m] = c1
      BY <1>4, <2>1
    <3>2. c1.tracked[e] = 0 /\ c1.told[e] = Unseen
      BY <1>2, <1>3, NewClientIsTyped
    <3>3. Coherent(c1, e)
      BY <3>2 DEF Coherent, Unseen
    <3> QED
      BY <3>1, <3>3
  <2>2. CASE Home[e] # s \/ m # n
    <3>1. started'[Home[e]][m] = started[Home[e]][m]
      BY <1>9, <2>2, DocumentsHaveHomes
    <3>2. \A u \in Callers : ~Uses(u, e, m)
      <4> SUFFICES ASSUME NEW u \in Callers, Uses(u, e, m)
                   PROVE  FALSE
        OBVIOUS
      <4>1. Using(u) /\ call[u].doc = e /\ call[u].client = m
        BY DEF Uses, Using, UsingSteps
      <4>2. u # t /\ call'[u] = call[u]
        BY <1>7, <1>10, <4>1
      <4> QED
        BY <4>2 DEF Uses
    <3> QED
      BY <3>1, <3>2 DEF KnowledgeInv, RestKnown
  <2> QED
    BY <2>1, <2>2
<1> QED
  BY <1>12, <1>13, <1>14, <1>15, <1>16, <1>17, <1>18, <1>20, <1>21, <1>23, <1>24 DEF KnowledgeInv

(* The client is in the map: the caller becomes a user of the document, of *)
(* one that is not used by another call, or the document is misused.       *)
LEMMA GetClientKeeps == ASSUME DocIInv, NEW t \in Callers, GetClient(t) PROVE DocIInv'
<1> DEFINE d == call[t].doc
           s == Home[d]
           n == registry[s]
           c == started[s][n]
           a == FirstStep(call[t].op)
           met == \/ \E u \in Callers : Uses(u, d, n)
                  \/ call[t].op = "open" /\ c.tracked[d] > 0
<1> USE DEF DocIInv, ProcessesInv
<1>1. /\ call[t].at = "lock" /\ lockedBy = {} /\ n # 0 /\ UNCHANGED <<registry, lockedBy, calls>>
      /\ call[t] \in UserCalls /\ d \in Documents /\ s \in Servers /\ ~Using(t)
      /\ call[t].op # "shutdown" /\ n \in Numbers(s) /\ n \in Nat
      /\ started \in [Servers -> Seq(Clients)] /\ c \in Clients
      /\ \A r \in Servers : Len(started[r]) \in Nat
  <2>1. call[t].at = "lock" /\ lockedBy = {} /\ n # 0 /\ UNCHANGED <<registry, lockedBy, calls>>
    BY Zenon DEF GetClient
  <2>2. call[t] \in UserCalls /\ d \in Documents /\ s \in Servers /\ ~Using(t) /\ call[t].op # "shutdown"
    BY <2>1, WaiterIsTyped
  <2>3. started \in [Servers -> Seq(Clients)]
    BY CallAt
  <2>4. n \in 0 .. Len(started[s]) /\ \A r \in Servers : Len(started[r]) \in Nat
    BY <2>2, <2>3, CallAt, NumbersAreNatural
  <2>5. n \in Numbers(s) /\ n \in Nat
    BY <2>1, <2>2, <2>4 DEF Numbers
  <2> QED
    BY <2>1, <2>2, <2>3, <2>4, <2>5, NumbersAreNatural
<1>2. a \in {"check", "write"} /\ (a = "write" <=> call[t].op = "open")
  BY DEF FirstStep
<1>3. CallOf(t) /\ call'[t] = [call[t] EXCEPT !.client = n, !.at = a]
  BY Zenon, CallAt DEF GetClient, CallOf
<1>4. /\ started' = IF met THEN [started EXCEPT ![s] = [@ EXCEPT ![n] = [c EXCEPT !.misused = @ \cup {d}]]]
                    ELSE started
  BY Zenon DEF GetClient
<1> HIDE DEF a, met
<1>5. /\ call'[t] \in UserCalls /\ call'[t].at = a /\ call'[t].op = call[t].op
      /\ call'[t].doc = d /\ call'[t].client = n
  BY <1>1, <1>2, <1>3 DEF UserCalls, UsingSteps
<1>6. \A u \in Callers \ {t} : call'[u] = call[u]
  BY <1>3 DEF CallOf
<1>7. /\ started' \in [Servers -> Seq(Clients)] /\ SameLengths /\ ClientOf(s, n)
      /\ started'[s][n].status = c.status /\ started'[s][n].tracked = c.tracked /\ started'[s][n].told = c.told
      /\ started'[s][n].misused = IF met THEN c.misused \cup {d} ELSE c.misused
  <2>1. CASE met
    <3> DEFINE c1 == [c EXCEPT !.misused = @ \cup {d}]
    <3>1. c1 \in Clients /\ c1.status = c.status /\ c1.tracked = c.tracked /\ c1.told = c.told
          /\ c1.misused = c.misused \cup {d}
      BY Zenon, <1>1 DEF Clients
    <3>2. SetsClient(s, n, c1)
      BY Zenon, <1>4, <2>1 DEF SetsClient
    <3> HIDE DEF c1
    <3>3. started' \in [Servers -> Seq(Clients)] /\ SameLengths /\ ClientOf(s, n) /\ started'[s][n] = c1
      BY Zenon, <1>1, <3>1, <3>2, ClientSet
    <3> QED
      BY Zenon, <2>1, <3>1, <3>3
  <2>2. CASE ~met
    BY <1>1, <1>4, <2>2, ClientsStay
  <2> QED
    BY Zenon, <2>1, <2>2
<1>8. \A r \in Servers : Len(started'[r]) = Len(started[r]) /\ Numbers(r)' = Numbers(r)
  BY Zenon, <1>7 DEF SameLengths, Numbers
<1>9. \A r \in Servers : \A m \in Numbers(r) :
        /\ started'[r][m].status = started[r][m].status
        /\ started'[r][m].tracked = started[r][m].tracked
        /\ started'[r][m].told = started[r][m].told
        /\ \A e \in Documents : Fair(r, m, e)' => Fair(r, m, e)
        /\ r # s \/ m # n => started'[r][m] = started[r][m]
  BY Zenon, <1>7 DEF ClientOf, Fair
<1>10. \A r \in Servers : \A m \in Numbers(r) : started[r][m].status # "starting"
  BY <1>1 DEF StartsAreOfHolders
<1>11. Using(t)' /\ \A u \in Callers \ {t} : (Using(u)' <=> Using(u))
  BY <1>2, <1>5, <1>6 DEF Using, UsingSteps
<1>12. \A u \in Callers : Using(u) => /\ u # t /\ call'[u] = call[u]
                                      /\ call[u].doc \in Documents /\ Home[call[u].doc] \in Servers
                                      /\ call[u].client \in Numbers(Home[call[u].doc])
  BY <1>1, <1>6, UserIsTyped
<1>13. DocumentsTyped'
  <2>1. CallTyped(t)'
    <3>1. n \in 1 .. Len(started'[s])
      BY <1>1, <1>8 DEF Numbers
    <3> QED
      BY <1>2, <1>5, <3>1 DEF CallTyped, Written, Numbers
  <2>2. \A u \in Callers : CallTyped(u)'
    BY <1>1, <1>6, <1>8, <2>1, OthersStayTyped
  <2>3. registry' \in [Servers -> Nat] /\ \A r \in Servers : registry'[r] \in 0 .. Len(started'[r])
    <3>1. registry \in [Servers -> Nat] /\ \A r \in Servers : registry[r] \in 0 .. Len(started[r])
      BY DEF DocumentsTyped
    <3> QED
      BY <1>1, <1>8, <3>1
  <2> QED
    BY Zenon, <1>1, <1>3, <1>7, <2>2, <2>3 DEF DocumentsTyped, CallOf
<1>14. LockIsOfStart'
  BY <1>1, <1>2, <1>5, <1>6 DEF LockIsOfStart
<1>15. StartsAreOfHolders'
  BY <1>8, <1>9, <1>10 DEF StartsAreOfHolders
<1>16. UsedAreStarted'
  <2> SUFFICES ASSUME NEW u \in Callers, Using(u)'
               PROVE  started'[Home[call'[u].doc]][call'[u].client].status # "starting"
    BY DEF UsedAreStarted, On
  <2>1. CASE u = t
    BY <1>1, <1>5, <1>9, <1>10, <2>1
  <2>2. CASE u # t
    BY <1>9, <1>10, <1>11, <1>12, <2>2
  <2> QED
    BY <2>1, <2>2
<1>17. RunningAreKnown'
  <2> SUFFICES ASSUME NEW r \in Servers, NEW m \in Numbers(r), started[r][m].status = "up"
               PROVE  registry[r] = m \/ Doomed(r, m)'
    BY <1>1, <1>8, <1>9 DEF RunningAreKnown
  <2>1. Doomed(r, m) => Doomed(r, m)'
    BY <1>1, <1>6 DEF Doomed
  <2> QED
    BY <2>1 DEF RunningAreKnown
<1>18. LeftBehindAreDown'
  <2> SUFFICES ASSUME NEW u \in Callers, call'[u].at = "kill", call'[u].stopping # <<>>,
                      NEW m \in 1 .. Len(started'[call'[u].stopping[1]]), m = call'[u].stopping[2]
               PROVE  started'[call'[u].stopping[1]][call'[u].stopping[2]].status # "up"
    BY DEF LeftBehindAreDown, Stopping, Numbers
  <2>1. u # t /\ call'[u] = call[u]
    BY <1>2, <1>5, <1>6
  <2>2. call[u].stopping[1] \in Servers /\ call[u].stopping[2] \in Numbers(call[u].stopping[1])
    BY <2>1, CallAt, CallsByStep, ShutdownIsTyped
  <2>3. started[call[u].stopping[1]][call[u].stopping[2]].status # "up"
    BY <2>1, <2>2 DEF LeftBehindAreDown, Stopping
  <2> QED
    BY <1>9, <2>1, <2>2, <2>3
<1>19. DoomedAreStarted'
  <2>1. NoneRestarts
    BY <1>9 DEF NoneRestarts
  <2> QED
    BY <1>1, <1>5, <1>6, <2>1, DoomedStayStarted
<1>20. ElsewhereUnseen' /\ ToldSanely'
  <2>1. ElsewhereUnseen'
    BY <1>8, <1>9 DEF KnowledgeInv, ElsewhereUnseen
  <2>2. ToldSanely'
    <3> SUFFICES ASSUME NEW e \in Documents, NEW m \in Numbers(Home[e]), Fair(Home[e], m, e)'
                 PROVE  started'[Home[e]][m].told[e].sane
      BY <1>8, DocumentsHaveHomes DEF ToldSanely
    <3>1. Home[e] \in Servers
      BY DocumentsHaveHomes
    <3>2. Fair(Home[e], m, e)
      BY <1>9, <3>1
    <3> QED
      BY <1>9, <3>1, <3>2 DEF KnowledgeInv, ToldSanely
  <2> QED
    BY <2>1, <2>2
<1>21. \A u \in Callers : Using(u) /\ call[u].doc = d /\ call[u].client = n => met
  BY DEF Using, Uses, UsingSteps, met
<1>22. d \in started'[s][n].misused \/ ~met
  BY Zenon, <1>7
<1>23. OneUser'
  <2> SUFFICES ASSUME NEW u \in Callers, NEW v \in Callers, Using(u)', Using(v)',
                      call'[u].doc = call'[v].doc, call'[u].client = call'[v].client,
                      call'[u].doc \notin started'[Home[call'[u].doc]][call'[u].client].misused
               PROVE  u = v
    BY DEF OneUser, Fair
  <2>1. CASE u # t /\ v # t
    <3>1. Using(u) /\ Using(v) /\ call'[u] = call[u] /\ call'[v] = call[v]
      BY <1>6, <1>11, <2>1
    <3>2. Fair(Home[call[u].doc], call[u].client, call[u].doc)
      BY <1>9, <1>12, <3>1 DEF Fair
    <3> QED
      BY <3>1, <3>2 DEF KnowledgeInv, OneUser
  <2>2. CASE u = t /\ v # t
    <3>1. Using(v) /\ call[v].doc = d /\ call[v].client = n
      BY <1>5, <1>11, <1>12, <2>2
    <3> QED
      BY <1>5, <1>21, <1>22, <2>2, <3>1
  <2>3. CASE u # t /\ v = t
    <3>1. Using(u) /\ call[u].doc = d /\ call[u].client = n
      BY <1>5, <1>11, <1>12, <2>3
    <3> QED
      BY <1>5, <1>21, <1>22, <2>3, <3>1
  <2> QED
    BY <2>1, <2>2, <2>3
<1>24. UsersKnow'
  <2> SUFFICES ASSUME NEW u \in Callers, Using(u)',
                      started'[Home[call'[u].doc]][call'[u].client].status = "up",
                      call'[u].doc \notin started'[Home[call'[u].doc]][call'[u].client].misused
               PROVE  CountsOn(call'[u], started'[Home[call'[u].doc]][call'[u].client])
    BY DEF UsersKnow, Running, On, Fair
  <2>1. CASE u = t
    <3>1. ~met /\ started'[s][n].status = "up" /\ d \notin started'[s][n].misused
      BY <1>5, <1>22, <2>1
    <3>2. c.status = "up" /\ Fair(s, n, d) /\ \A v \in Callers : ~Uses(v, d, n)
      BY Zenon, <1>7, <3>1 DEF met, Fair
    <3>3. Coherent(c, d)
      BY Zenon, <1>1, <3>2 DEF KnowledgeInv, RestKnown
    <3>4. call[t].op = "open" => c.tracked[d] = 0
      <4>1. c.tracked[d] \in Nat
        BY Zenon, <1>1 DEF Clients
      <4> QED
        BY <3>1, <4>1 DEF met
    <3>5. CountsOn(call'[t], c)
      BY Zenon, <1>2, <1>5, <3>3, <3>4 DEF CountsOn
    <3>6. CountsOn(call'[t], started'[s][n])
      BY Zenon, <1>5, <1>7, <3>5 DEF CountsOn, Coherent
    <3> QED
      BY <1>5, <2>1, <3>6
  <2>2. CASE u # t
    <3>1. Using(u) /\ call'[u] = call[u]
      BY <1>6, <1>11, <2>2
    <3> DEFINE e == call[u].doc
               m == call[u].client
    <3>2. /\ e \in Documents /\ Home[e] \in Servers /\ m \in Numbers(Home[e])
          /\ started'[Home[e]][m].status = started[Home[e]][m].status
          /\ started'[Home[e]][m].tracked = started[Home[e]][m].tracked
          /\ started'[Home[e]][m].told = started[Home[e]][m].told
      BY <1>9, <1>12, <3>1
    <3>3. Fair(Home[e], m, e) /\ started[Home[e]][m].status = "up"
      BY Zenon, <1>9, <3>1, <3>2 DEF Fair
    <3>4. CountsOn(call[u], started[Home[e]][m])
      BY <3>1, <3>3 DEF KnowledgeInv, UsersKnow, Running, On
    <3>5. CountsOn(call[u], started'[Home[e]][m])
      BY Zenon, <3>2, <3>4 DEF CountsOn, Coherent
    <3> QED
      BY <3>1, <3>5
  <2> QED
    BY <2>1, <2>2
<1>25. RestKnown'
  <2> SUFFICES ASSUME NEW e \in Documents, NEW m \in Numbers(Home[e]),
                      started'[Home[e]][m].status = "up", Fair(Home[e], m, e)',
                      \A u \in Callers : ~Uses(u, e, m)'
               PROVE  Coherent(started'[Home[e]][m], e)
    BY <1>8, DocumentsHaveHomes DEF RestKnown
  <2>1. Home[e] \in Servers
    BY DocumentsHaveHomes
  <2>2. Fair(Home[e], m, e) /\ started[Home[e]][m].status = "up"
    BY <1>9, <2>1
  <2>3. \A u \in Callers : ~Uses(u, e, m)
    <3> SUFFICES ASSUME NEW u \in Callers, Uses(u, e, m)
                 PROVE  FALSE
      OBVIOUS
    <3>1. Using(u)
      BY DEF Uses, Using, UsingSteps
    <3>2. call'[u] = call[u]
      BY <1>12, <3>1
    <3> QED
      BY <3>2 DEF Uses
  <2>4. Coherent(started[Home[e]][m], e)
    BY <2>2, <2>3 DEF KnowledgeInv, RestKnown
  <2> QED
    BY <1>9, <2>1, <2>4 DEF Coherent
<1> QED
  BY <1>13, <1>14, <1>15, <1>16, <1>17, <1>18, <1>19, <1>20, <1>23, <1>24, <1>25 DEF KnowledgeInv

-----------------------------------------------------------------------------
LEMMA DocIInvInit == DocInit => DocIInv
<1> SUFFICES ASSUME DocInit
             PROVE  DocIInv
  OBVIOUS
<1>1. /\ started = [s \in Servers |-> <<>>] /\ registry = [s \in Servers |-> 0] /\ lockedBy = {}
      /\ call = [t \in Callers |-> Idle] /\ calls = [t \in Callers |-> 0]
  BY DEF DocInit
<1>2. started \in [Servers -> Seq(Clients)] /\ \A s \in Servers : Len(started[s]) = 0 /\ Numbers(s) = {}
  BY <1>1, EmptySeq DEF Numbers
<1>3. \A t \in Callers : call[t] = Idle /\ ~Using(t) /\ CallTyped(t)
  BY <1>1, StepsDiffer DEF CallTyped, Using
<1>4. DocumentsTyped
  <2>1. calls \in [Callers -> 0 .. MaxCalls]
    BY <1>1, LspDocumentsAssumption
  <2> QED
    BY <1>1, <1>2, <1>3, <2>1 DEF DocumentsTyped
<1>5. LockIsOfStart /\ UsedAreStarted /\ DoomedAreStarted /\ LeftBehindAreDown
  BY <1>1, <1>3, StepsDiffer DEF LockIsOfStart, UsedAreStarted, DoomedAreStarted, LeftBehindAreDown
<1>6. StartsAreOfHolders /\ RunningAreKnown
  BY <1>2 DEF StartsAreOfHolders, RunningAreKnown
<1>7. KnowledgeInv
  BY <1>2, <1>3, DocumentsHaveHomes
     DEF KnowledgeInv, ElsewhereUnseen, OneUser, ToldSanely, UsersKnow, RestKnown
<1> QED
  BY <1>4, <1>5, <1>6, <1>7 DEF DocIInv, ProcessesInv

LEMMA DocIInvStep == DocIInv /\ [DocNext]_docVars => DocIInv'
<1> SUFFICES ASSUME DocIInv, [DocNext]_docVars
             PROVE  DocIInv'
  OBVIOUS
<1>1. ASSUME NEW t \in Callers, CallerStep(t) PROVE DocIInv'
  BY <1>1, GetClientKeeps, StartClientKeeps, CheckKeeps, DrawVersionKeeps, NotifyKeeps, RecordKeeps,
     AskKeeps, KillKeeps, AskToStopKeeps DEF CallerStep
<1>2. ASSUME NEW t \in Callers, Answers(t) PROVE DocIInv'
  BY <1>2, StartedKeeps, StartFailsKeeps, AnsweredKeeps, StoppedKeeps DEF Answers
<1>3. ASSUME NEW t \in Callers, Begin(t) \/ Shutdown(t) PROVE DocIInv'
  BY <1>3, BeginKeeps, ShutdownKeeps
<1>4. ASSUME NEW s \in Servers, Exits(s) PROVE DocIInv'
  BY <1>4, ExitsKeeps
<1>5. CASE UNCHANGED docVars
  <2>1. UNCHANGED <<started, registry, lockedBy, call, calls>>
    BY <1>5 DEF docVars
  <2>2. ProcessesInv'
    BY Zenon, <2>1 DEF DocIInv, ProcessesInv, DocumentsTyped, CallTyped, Numbers, LockIsOfStart, StartsAreOfHolders,
       UsedAreStarted, Using, On, DoomedAreStarted, RunningAreKnown, Doomed, LeftBehindAreDown, Stopping
  <2>3. KnowledgeInv'
    BY <2>1 DEF DocIInv, KnowledgeInv, ElsewhereUnseen, OneUser, ToldSanely, UsersKnow, RestKnown, Numbers,
       Using, Fair, Running, On, Uses
  <2> QED
    BY <2>2, <2>3 DEF DocIInv
<1> QED
  BY <1>1, <1>2, <1>3, <1>4, <1>5 DEF DocNext

LEMMA DocIInvHolds == DocSpec => []DocIInv
<1>1. QED
  BY DocIInvInit, DocIInvStep, PTL DEF DocSpec

LEMMA DocIInvSuffices == DocIInv => DocumentsInv
<1> SUFFICES ASSUME DocIInv
             PROVE  DocumentsInv
  OBVIOUS
<1>1. \A s \in Servers : DOMAIN started[s] = Numbers(s) /\ \A n \in Numbers(s) : started[s][n] \in Clients
  BY NumbersAreNatural DEF DocIInv, ProcessesInv, DocumentsTyped
<1>2. DocTypeOK
  <2>1. Cardinality(lockedBy) <= 1
    <3>1. CASE lockedBy = {}
      BY <3>1, FS_EmptySet
    <3>2. CASE lockedBy # {}
      <4>1. PICK t \in lockedBy : lockedBy = {t}
        BY <3>2 DEF DocIInv, ProcessesInv, DocumentsTyped
      <4> QED
        BY <4>1, FS_Singleton
    <3> QED
      BY <3>1, <3>2
  <2> QED
    BY <1>1, <2>1 DEF DocTypeOK, DocIInv, ProcessesInv, DocumentsTyped, Clients
<1>3. OneProcess
  <2> SUFFICES ASSUME NEW s \in Servers, NEW n \in Numbers(s)
               PROVE  /\ started[s][n].status = "starting" => registry[s] = 0 /\ n = Len(started[s])
                      /\ started[s][n].status = "up" => registry[s] = n \/ Doomed(s, n)
    BY <1>1 DEF OneProcess, Doomed
  <2>1. started[s][n].status = "starting" => registry[s] = 0 /\ n = Len(started[s])
    BY DEF DocIInv, ProcessesInv, StartsAreOfHolders, LockIsOfStart, DocumentsTyped
  <2> QED
    BY <2>1 DEF DocIInv, ProcessesInv, RunningAreKnown
<1>4. ServerIsInTheKnow
  <2> SUFFICES ASSUME NEW s \in Servers, NEW n \in Numbers(s), NEW d \in Documents \ started[s][n].misused
               PROVE  /\ started[s][n].told[d].sane
                      /\ started[s][n].status = "up" /\ (\A t \in Callers : ~Uses(t, d, n)) =>
                           started[s][n].tracked[d] = started[s][n].told[d].version
    BY <1>1 DEF ServerIsInTheKnow
  <2>1. CASE Home[d] = s
    BY <2>1 DEF DocIInv, KnowledgeInv, ToldSanely, RestKnown, Fair, Coherent
  <2>2. CASE Home[d] # s
    BY <2>2 DEF DocIInv, KnowledgeInv, ElsewhereUnseen, Unseen
  <2> QED
    BY <2>1, <2>2
<1> QED
  BY <1>2, <1>3, <1>4 DEF DocumentsInv

(* What the run checks of the documents, for any number of callers,        *)
(* servers and documents: a server has one process that calls are sent to, *)
(* and knows of a document what its client notes of it.                    *)
THEOREM DocumentsAreTold == DocSpec => []DocumentsInv
<1>1. QED
  BY DocIInvHolds, DocIInvSuffices, PTL

=============================================================================
