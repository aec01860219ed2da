----------------------------- MODULE LspRequests -----------------------------
(***************************************************************************)
(* Requests of an LspClient (lsp/src/client.rs): tasks share one client,   *)
(* a reader task hands the answers of the language server back to them     *)
(* through the pending_requests map.  The locks are held for one step      *)
(* each, so every step below is one critical section or one await.         *)
(***************************************************************************)
EXTENDS Naturals, Sequences, FiniteSets

CONSTANTS
  Tasks,        \* tasks that call request, each once
  ServerAsks,   \* bound: requests the server sends on its own account
  MayBreak      \* may the server send something read_message cannot parse?

ASSUME LspRequestsAssumption ==
  /\ IsFiniteSet(Tasks)
  /\ ServerAsks \in 0 .. Cardinality(Tasks)
  /\ MayBreak \in BOOLEAN

VARIABLES
  nextId,     \* next_request_id
  pending,    \* keys of pending_requests: ids with a sender to wake
  toServer,   \* requests written and not read by the server yet
  toClient,   \* frames the server wrote and the reader did not read yet
  server,     \* the process: "up", or "exited" with its pipes closed
  reader,     \* the reader task: "running", "eof" (read Ok(None)), "failed"
  pc,         \* where each task is in request
  id,         \* the id each task drew
  reply,      \* what arrived in each task's oneshot channel
  asked,      \* server requests sent so far
  heard       \* requests the server read: it may answer these, once each

vars == <<nextId, pending, toServer, toClient, server, reader, pc, id, reply, asked, heard>>

None == 0
Ids == 1 .. Cardinality(Tasks)
NoReply == [kind |-> "none"]
Answer(i) == [kind |-> "answer", id |-> i]     \* the server's answer to request i
Question(i) == [kind |-> "question", id |-> i] \* a request of the server, with an id
Garbage == [kind |-> "garbage"]                \* bad header, bad JSON, bad diagnostics
Failure == [kind |-> "failure"]                \* Err(LspError) sent by the drain
Frames == {Answer(i) : i \in Ids} \cup {Question(i) : i \in Ids} \cup {Garbage}

Init ==
  /\ nextId = 1
  /\ pending = {}
  /\ toServer = <<>>
  /\ toClient = <<>>
  /\ server = "up"
  /\ reader = "running"
  /\ pc = [t \in Tasks |-> "start"]
  /\ id = [t \in Tasks |-> None]
  /\ reply = [t \in Tasks |-> NoReply]
  /\ asked = 0
  /\ heard = {}

-----------------------------------------------------------------------------
(* request: fetch_add, insert the sender, send, await the receiver.        *)

DrawId(t) ==
  /\ pc[t] = "start"
  /\ id' = [id EXCEPT ![t] = nextId]
  /\ nextId' = nextId + 1
  /\ pc' = [pc EXCEPT ![t] = "insert"]
  /\ UNCHANGED <<pending, toServer, toClient, server, reader, reply, asked, heard>>

Insert(t) ==
  /\ pc[t] = "insert"
  /\ pending' = pending \cup {id[t]}
  /\ pc' = [pc EXCEPT ![t] = "send"]
  /\ UNCHANGED <<nextId, toServer, toClient, server, reader, id, reply, asked, heard>>

Send(t) ==
  /\ pc[t] = "send"
  /\ server = "up"
  /\ toServer' = Append(toServer, id[t])
  /\ pc' = [pc EXCEPT ![t] = "wait"]
  /\ UNCHANGED <<nextId, pending, toClient, server, reader, id, reply, asked, heard>>

(* The pipe is broken: the sender is taken back and the error returned.    *)
SendFails(t) ==
  /\ pc[t] = "send"
  /\ server = "exited"
  /\ pending' = pending \ {id[t]}
  /\ pc' = [pc EXCEPT ![t] = "failed"]
  /\ UNCHANGED <<nextId, toServer, toClient, server, reader, id, reply, asked, heard>>

Receive(t) ==
  /\ pc[t] = "wait"
  /\ reply[t] # NoReply
  /\ pc' = [pc EXCEPT ![t] = IF reply[t] = Failure THEN "failed" ELSE "done"]
  /\ UNCHANGED <<nextId, pending, toServer, toClient, server, reader, id, reply, asked, heard>>

-----------------------------------------------------------------------------
(* The language server: reads requests, answers them in any order, asks    *)
(* on its own account with ids of its own, writes something unparsable,    *)
(* exits.  What it writes once the reader has dropped the pipe is lost.    *)
Write(frame) == toClient' = IF reader = "running" THEN Append(toClient, frame) ELSE toClient

ServerReads ==
  /\ server = "up"
  /\ toServer # <<>>
  /\ heard' = heard \cup {Head(toServer)}
  /\ toServer' = Tail(toServer)
  /\ UNCHANGED <<nextId, pending, toClient, server, reader, pc, id, reply, asked>>

ServerAnswers ==
  /\ server = "up"
  /\ \E i \in heard :
       /\ Write(Answer(i))
       /\ heard' = heard \ {i}
  /\ UNCHANGED <<nextId, pending, toServer, server, reader, pc, id, reply, asked>>

ServerQuestions ==
  /\ server = "up"
  /\ asked < ServerAsks
  /\ asked' = asked + 1
  /\ Write(Question(asked + 1))
  /\ UNCHANGED <<nextId, pending, toServer, server, reader, pc, id, reply, heard>>

ServerGarbles ==
  /\ server = "up"
  /\ MayBreak
  /\ Garbage \notin {toClient[k] : k \in DOMAIN toClient}
  /\ reader = "running"
  /\ Write(Garbage)
  /\ UNCHANGED <<nextId, pending, toServer, server, reader, pc, id, reply, asked, heard>>

ServerExits ==
  /\ server = "up"
  /\ server' = "exited"
  /\ toServer' = <<>>
  /\ UNCHANGED <<nextId, pending, toClient, reader, pc, id, reply, asked, heard>>

-----------------------------------------------------------------------------
(* The reader task.  A frame with an id is taken for an answer, whoever    *)
(* asked; its sender is removed from the map before it is used.            *)

(* Slip: the first pending sender gets the answer, whatever its id.        *)
DeliverFirst(i) ==
  LET least == CHOOSE j \in pending : \A k \in pending : j <= k
  IN  IF pending = {} THEN UNCHANGED <<pending, reply>>
      ELSE /\ pending' = pending \ {least}
           /\ reply' = [t \in Tasks |-> IF id[t] = least THEN Answer(i) ELSE reply[t]]

Deliver(i) ==
  IF i \in pending
  THEN /\ pending' = pending \ {i}
       /\ reply' = [t \in Tasks |-> IF id[t] = i THEN Head(toClient) ELSE reply[t]]
  ELSE UNCHANGED <<pending, reply>>

ReadResponse ==
  /\ reader = "running"
  /\ toClient # <<>>
  /\ Head(toClient) # Garbage
  /\ Deliver(Head(toClient).id)
  /\ toClient' = Tail(toClient)
  /\ UNCHANGED <<nextId, toServer, server, reader, pc, id, asked, heard>>

(* Slip: the reader ends on an error without a word to those who wait. *)
ReaderFailsSilently ==
  /\ reader = "running"
  /\ toClient # <<>>
  /\ Head(toClient) = Garbage
  /\ reader' = "failed"
  /\ toClient' = <<>>
  /\ UNCHANGED <<nextId, pending, toServer, server, pc, id, reply, asked, heard>>

(* The reader ends on an error and fails every request that is waiting.    *)
ReaderFails ==
  /\ reader = "running"
  /\ toClient # <<>>
  /\ Head(toClient) = Garbage
  /\ reader' = "failed"
  /\ toClient' = <<>>
  /\ reply' = [t \in Tasks |-> IF id[t] \in pending THEN Failure ELSE reply[t]]
  /\ pending' = {}
  /\ UNCHANGED <<nextId, toServer, server, pc, id, asked, heard>>

(* The server closed its output: read_message returns Ok(None), the loop   *)
(* ends with Ok(()), and nothing is drained.                               *)
ReaderEnds ==
  /\ reader = "running"
  /\ toClient = <<>>
  /\ server = "exited"
  /\ reader' = "eof"
  /\ UNCHANGED <<nextId, pending, toServer, toClient, server, pc, id, reply, asked, heard>>

-----------------------------------------------------------------------------
TaskStep(t) == DrawId(t) \/ Insert(t) \/ Send(t) \/ SendFails(t) \/ Receive(t)
ReaderStep == ReadResponse \/ ReaderFails \/ ReaderEnds
ServerStep ==
  ServerReads \/ ServerAnswers \/ ServerQuestions \/ ServerGarbles \/ ServerExits

Next == (\E t \in Tasks : TaskStep(t)) \/ ReaderStep \/ ServerStep

(* The executor polls every task that can go on.  The server is another    *)
(* program: it is only assumed to read its input and to answer, as long    *)
(* as it is up, and never assumed to stay up or to exit.                   *)
Spec ==
  /\ Init /\ [][Next]_vars
  /\ \A t \in Tasks : WF_vars(TaskStep(t))
  /\ WF_vars(ReaderStep)
  /\ WF_vars(ServerReads)
  /\ WF_vars(ServerAnswers)

-----------------------------------------------------------------------------
TypeOK ==
  /\ nextId \in 1 .. Cardinality(Tasks) + 1
  /\ pending \subseteq Ids
  /\ toServer \in Seq(Ids)
  /\ toClient \in Seq(Frames)
  /\ server \in {"up", "exited"}
  /\ reader \in {"running", "eof", "failed"}
  /\ pc \in [Tasks -> {"start", "insert", "send", "wait", "done", "failed"}]
  /\ id \in [Tasks -> Ids \cup {None}]
  /\ reply \in [Tasks -> Frames \cup {NoReply, Failure}]
  /\ asked \in 0 .. ServerAsks
  /\ heard \subseteq Ids

(* Every sender in the map belongs to exactly one task that still wants    *)
(* it: none is left behind by a task that gave up or was served.           *)
NoStraySender ==
  \A i \in pending : \E t \in Tasks :
    /\ id[t] = i
    /\ pc[t] \in {"send", "wait"}
    /\ reply[t] = NoReply
    /\ \A u \in Tasks : id[u] = i => u = t

(* A task that waits can still be woken: its answer is there, or its       *)
(* sender is still in the map for the reader to find.                      *)
WaiterCanBeWoken ==
  \A t \in Tasks : pc[t] \in {"send", "wait"} => reply[t] # NoReply \/ id[t] \in pending

(* The map of senders is that of the tasks that wait, no more and no less. *)
SendersMatchWaiters == NoStraySender /\ WaiterCanBeWoken

(* However the answers were ordered, what a task receives is the answer to *)
(* its own request; only a server that asks with the same id can be taken  *)
(* for one that answers.                                                   *)
AnswersAreOnesOwn ==
  \A t \in Tasks :
    reply[t] \notin {NoReply, Failure, Answer(id[t])} => asked > 0 /\ reply[t] = Question(id[t])

(* The senders are those of the waiting requests, and each request gets    *)
(* the answer that is its own.                                             *)
WaitersInv == TypeOK /\ SendersMatchWaiters /\ AnswersAreOnesOwn

(* An answer that was written gets to its task, unless the reader ended    *)
(* first: then the task fails instead.                                     *)
AnswersArrive ==
  \A t \in Tasks :
    (pc[t] = "wait" /\ \E k \in DOMAIN toClient : toClient[k] = Answer(id[t]))
      ~> (pc[t] \in {"done", "failed"})

(* A request that was waiting when the reader failed returns.              *)
FailureReleasesWaiters ==
  [][reader' = "failed" /\ reader = "running" =>
       \A t \in Tasks : pc[t] = "wait" => reply'[t] # NoReply]_vars

(* A request returns when its answer was written, and when the reader      *)
(* fails while it waits; one that begins after that may wait for ever.     *)
RequestsReturn == AnswersArrive /\ FailureReleasesWaiters

(* A request returns although the server is gone: request maps a closed    *)
(* channel to the error "request channel closed".                          *)
ExitReleasesWaiters ==
  \A t \in Tasks : (pc[t] = "wait" /\ reader = "eof") ~> pc[t] \in {"done", "failed"}

=============================================================================
