---------------------------- MODULE LspDocuments ----------------------------
(***************************************************************************)
(* The documents of an LspManager (lsp/src/manager.rs) and of its clients  *)
(* (lsp/src/client.rs).  Tasks call the manager; the first call for a      *)
(* server starts its process while the map of clients is locked; a call    *)
(* then runs on the client it was given, with an await between looking at  *)
(* open_documents, writing the notification and recording it.  Requests    *)
(* themselves are those of LspRequests.                                    *)
(***************************************************************************)
EXTENDS Naturals, Sequences, FiniteSets

CONSTANTS
  Callers,    \* tasks that share the manager
  Servers,    \* names of configured servers
  Home,       \* the server of each document: extension_map
  MaxCalls    \* bound: calls of one task

ASSUME LspDocumentsAssumption ==
  /\ IsFiniteSet(Callers) /\ IsFiniteSet(Servers)
  /\ Home \in [DOMAIN Home -> Servers]
  /\ MaxCalls \in Nat

Documents == DOMAIN Home
Idle == [op |-> "idle", at |-> "idle"]
Operations == {"open", "change", "save", "close", "lookup"}
Unseen == [open |-> FALSE, version |-> 0, sane |-> TRUE]
NewClient ==
  [status |-> "starting", tracked |-> [d \in Documents |-> 0],
   told |-> [d \in Documents |-> Unseen], misused |-> {}]

VARIABLES
  started,    \* the clients of each server so far, by number; of each the state of its
              \* process, open_documents, what the server was told of each document,
              \* and the documents used by two calls at once or opened when open
  registry,   \* clients: the number of the client of each server, or 0
  lockedBy,   \* the task that holds the lock of clients over an await, if any
  call,       \* the call of each task
  calls       \* calls begun by each task

docVars == <<started, registry, lockedBy, call, calls>>

DocInit ==
  /\ started = [s \in Servers |-> <<>>]
  /\ registry = [s \in Servers |-> 0]
  /\ lockedBy = {}
  /\ call = [t \in Callers |-> Idle]
  /\ calls = [t \in Callers |-> 0]

Goto(t, at) == call' = [call EXCEPT ![t].at = at]
Return(t) == call' = [call EXCEPT ![t] = Idle]
On(t) == started[Home[call[t].doc]][call[t].client]
Running(t) == On(t).status = "up"
Uses(t, d, n) ==
  /\ call[t].at \in {"check", "write", "record", "ask", "wait"}
  /\ call[t].doc = d /\ call[t].client = n

-----------------------------------------------------------------------------
(* client_for_path: the client is in the map, or its process is started    *)
(* with the map locked.                                                    *)
Begin(t) ==
  /\ call[t] = Idle /\ calls[t] < MaxCalls
  /\ \E op \in Operations, d \in Documents :
       call' = [call EXCEPT ![t] = [op |-> op, doc |-> d, at |-> "lock", client |-> 0]]
  /\ calls' = [calls EXCEPT ![t] = @ + 1]
  /\ UNCHANGED <<started, registry, lockedBy>>

(* manager.open_document does not look whether the document is open.       *)
FirstStep(op) == IF op = "open" THEN "write" ELSE "check"

GetClient(t) ==
  LET s == Home[call[t].doc]
      n == registry[s]
  IN  /\ call[t].at = "lock" /\ lockedBy = {} /\ n # 0
      /\ call' = [call EXCEPT ![t].client = n, ![t].at = FirstStep(call[t].op)]
      /\ started' =
           IF \/ (\E u \in Callers : Uses(u, call[t].doc, n))
              \/ call[t].op = "open" /\ started[s][n].tracked[call[t].doc] > 0
           THEN [started EXCEPT ![s][n].misused = @ \cup {call[t].doc}]
           ELSE started
      /\ UNCHANGED <<registry, lockedBy, calls>>

StartClient(t) ==
  LET s == Home[call[t].doc]
  IN  /\ call[t].at = "lock" /\ lockedBy = {} /\ registry[s] = 0
      /\ lockedBy' = {t}
      /\ started' = [started EXCEPT ![s] = Append(@, NewClient)]
      /\ call' = [call EXCEPT ![t].client = Len(started[s]) + 1, ![t].at = "start"]
      /\ UNCHANGED <<registry, calls>>

(* initialize is answered and initialized written.                         *)
Started(t) ==
  LET s == Home[call[t].doc]
  IN  /\ call[t].at = "start" /\ On(t).status = "starting"
      /\ started' = [started EXCEPT ![s][call[t].client].status = "up"]
      /\ registry' = [registry EXCEPT ![s] = call[t].client]
      /\ lockedBy' = {}
      /\ Goto(t, FirstStep(call[t].op))
      /\ UNCHANGED calls

(* Slip: the error is returned with the map still locked. *)
StartFailsLocked(t) ==
  /\ call[t].at = "start" /\ On(t).status = "starting"
  /\ started' = [started EXCEPT ![Home[call[t].doc]][call[t].client].status = "dropped"]
  /\ Return(t)
  /\ UNCHANGED <<registry, lockedBy, calls>>

(* The answer is an error, the reader fails, or the pipe is broken: connect *)
(* returns and drops the client; the process is not in the map.            *)
StartFails(t) ==
  /\ call[t].at = "start" /\ On(t).status = "starting"
  /\ started' = [started EXCEPT ![Home[call[t].doc]][call[t].client].status = "dropped"]
  /\ lockedBy' = {}
  /\ Return(t)
  /\ UNCHANGED <<registry, calls>>

-----------------------------------------------------------------------------
(* One await each: look, write, record.                                    *)
Tracked(t) == On(t).tracked[call[t].doc]

(* ensure_document_open, change_document, save_document, close_document:   *)
(* a document that is not open is opened, or left alone.                   *)
NextStep(t) ==
  CASE Tracked(t) > 0 /\ call[t].op \in {"change"}         -> "record"
    [] Tracked(t) > 0 /\ call[t].op \in {"save", "close"}  -> "write"
    [] Tracked(t) > 0 /\ call[t].op = "lookup"             -> "ask"
    [] Tracked(t) = 0 /\ call[t].op \in {"change", "lookup"} -> "write"
    [] OTHER                                               -> "idle"

(* Whether a call that writes opens the document is settled here.          *)
Check(t) ==
  /\ call[t].at = "check"
  /\ IF NextStep(t) = "idle" THEN Return(t)
     ELSE call' = [call EXCEPT ![t].at = NextStep(t),
                     ![t].op = IF Tracked(t) > 0 THEN @
                               ELSE IF @ = "lookup" THEN "lookup-open" ELSE "open"]
  /\ UNCHANGED <<started, registry, lockedBy, calls>>

(* The version of a change is drawn before it is written, in a step of its *)
(* own; one that was removed in between starts again at 1.                 *)
DrawVersion(t) ==
  /\ call[t].at = "record" /\ call[t].op = "change"
  /\ started' = [started EXCEPT ![Home[call[t].doc]][call[t].client].tracked[call[t].doc] = @ + 1]
  /\ call' = [call EXCEPT ![t] = [op |-> "changed", doc |-> call[t].doc, at |-> "write",
                                  client |-> call[t].client, version |-> Tracked(t) + 1]]
  /\ UNCHANGED <<registry, lockedBy, calls>>

(* What the server makes of a notification: an open document has a version *)
(* that grows, a closed one is not spoken of.                              *)
Hears(view, op, version) ==
  CASE op \in {"open", "lookup-open"} -> [open |-> TRUE, version |-> 1, sane |-> view.sane /\ ~view.open]
    [] op = "changed" -> [view EXCEPT !.version = version,
                                      !.sane = @ /\ view.open /\ version > view.version]
    [] op = "close"   -> [open |-> FALSE, version |-> 0, sane |-> view.sane /\ view.open]
    [] op = "save"    -> [view EXCEPT !.sane = @ /\ view.open]

Notify(t) ==
  LET version == IF call[t].op = "changed" THEN call[t].version ELSE 1
  IN  /\ call[t].at = "write"
      /\ IF Running(t)
         THEN /\ started' = [started EXCEPT ![Home[call[t].doc]][call[t].client].told[call[t].doc] =
                               Hears(@, call[t].op, version)]
              /\ IF call[t].op \in {"open", "lookup-open", "close"} THEN Goto(t, "record") ELSE Return(t)
         ELSE Return(t) /\ UNCHANGED started
      /\ UNCHANGED <<registry, lockedBy, calls>>

(* Slip: a document that is closed stays in open_documents. *)
RecordOpened(t) ==
  /\ call[t].at = "record" /\ call[t].op \in {"open", "lookup-open", "close"}
  /\ started' = [started EXCEPT ![Home[call[t].doc]][call[t].client].tracked[call[t].doc] = 1]
  /\ IF call[t].op = "lookup-open" THEN Goto(t, "ask") ELSE Return(t)
  /\ UNCHANGED <<registry, lockedBy, calls>>

Record(t) ==
  /\ call[t].at = "record" /\ call[t].op \in {"open", "lookup-open", "close"}
  /\ started' = [started EXCEPT ![Home[call[t].doc]][call[t].client].tracked[call[t].doc] =
                   IF call[t].op = "close" THEN 0 ELSE 1]
  /\ IF call[t].op = "lookup-open" THEN Goto(t, "ask") ELSE Return(t)
  /\ UNCHANGED <<registry, lockedBy, calls>>

(* go_to_definition, find_references: the request itself.                  *)
Ask(t) ==
  /\ call[t].at = "ask"
  /\ IF Running(t) THEN Goto(t, "wait") ELSE Return(t)
  /\ UNCHANGED <<started, registry, lockedBy, calls>>

Answered(t) ==
  /\ call[t].at = "wait" /\ Running(t)
  /\ Return(t)
  /\ UNCHANGED <<started, registry, lockedBy, calls>>

-----------------------------------------------------------------------------
(* shutdown: the map is emptied under its lock, then the processes are     *)
(* asked to stop and killed, one after the other, while calls that hold a  *)
(* client go on with it.                                                   *)
Shutdown(t) ==
  /\ call[t] = Idle /\ calls[t] < MaxCalls /\ lockedBy = {}
  /\ call' = [call EXCEPT ![t] = [op |-> "shutdown", at |-> "kill", stopping |-> <<>>,
                                  left |-> {<<s, registry[s]>> : s \in {r \in Servers : registry[r] # 0}}]]
  /\ registry' = [s \in Servers |-> 0]
  /\ calls' = [calls EXCEPT ![t] = @ + 1]
  /\ UNCHANGED <<started, lockedBy>>

Stopping(t) == started[call[t].stopping[1]][call[t].stopping[2]].status
Kill(t) ==
  /\ call[t].at = "kill"
  /\ \/ \E c \in call[t].left :
          call' = [call EXCEPT ![t].left = @ \ {c}, ![t].stopping = c, ![t].at = "stop"]
     \/ call[t].left = {} /\ Return(t)
  /\ UNCHANGED <<started, registry, lockedBy, calls>>

(* A process that is gone can not be written to, and the next one follows. *)
AskToStop(t) ==
  /\ call[t].at = "stop"
  /\ Goto(t, IF Stopping(t) = "up" THEN "stopping" ELSE "kill")
  /\ UNCHANGED <<started, registry, lockedBy, calls>>

Stopped(t) ==
  /\ call[t].at = "stopping" /\ Stopping(t) = "up"
  /\ started' = [started EXCEPT ![call[t].stopping[1]][call[t].stopping[2]].status = "gone"]
  /\ Goto(t, "kill")
  /\ UNCHANGED <<registry, lockedBy, calls>>

(* A process exits on its own account: nobody takes it from the map.       *)
Exits(s) ==
  /\ \E n \in DOMAIN started[s] :
       /\ started[s][n].status \in {"starting", "up"}
       /\ started' = [started EXCEPT ![s][n].status = "gone"]
  /\ UNCHANGED <<registry, lockedBy, call, calls>>

CallerStep(t) ==
  \/ GetClient(t) \/ StartClient(t) \/ Check(t) \/ DrawVersion(t) \/ Notify(t) \/ Record(t)
  \/ Ask(t) \/ Kill(t) \/ AskToStop(t)
Answers(t) == Started(t) \/ StartFails(t) \/ Answered(t) \/ Stopped(t)

DocNext ==
  \/ \E t \in Callers : CallerStep(t) \/ Answers(t) \/ Begin(t) \/ Shutdown(t)
  \/ \E s \in Servers : Exits(s)

(* A caller that can go on does; a process that runs answers, or fails.    *)
DocSpec ==
  /\ DocInit /\ [][DocNext]_docVars
  /\ \A t \in Callers : WF_docVars(CallerStep(t)) /\ WF_docVars(Answers(t))

-----------------------------------------------------------------------------
DocTypeOK ==
  /\ \A s \in Servers :
       /\ registry[s] \in 0 .. Len(started[s])
       /\ \A n \in DOMAIN started[s] :
            /\ started[s][n].status \in {"starting", "up", "dropped", "gone"}
            /\ started[s][n].tracked \in [Documents -> Nat]
            /\ started[s][n].misused \subseteq Documents
  /\ lockedBy \subseteq Callers /\ Cardinality(lockedBy) <= 1
  /\ DOMAIN call = Callers
  /\ calls \in [Callers -> 0 .. MaxCalls]

(* A server has one process that calls are sent to: a second is started    *)
(* only when a shutdown took the first from the map, or its start failed.  *)
OneProcess ==
  \A s \in Servers : \A n \in DOMAIN started[s] :
    /\ started[s][n].status = "starting" => registry[s] = 0 /\ n = Len(started[s])
    /\ started[s][n].status = "up" =>
         \/ registry[s] = n
         \/ \E t \in Callers : /\ call[t].op = "shutdown"
                              /\ <<s, n>> \in call[t].left \cup {call[t].stopping}

(* What the client notes of a document is what its server was told: while  *)
(* the calls for a document follow one another, it is opened before it is  *)
(* changed, saved or closed, once at a time, its versions only grow, and   *)
(* between calls both know the same version.                               *)
ServerIsInTheKnow ==
  \A s \in Servers : \A n \in DOMAIN started[s] : \A d \in Documents \ started[s][n].misused :
    LET client == started[s][n]
    IN  /\ client.told[d].sane
        /\ client.status = "up" /\ (\A t \in Callers : ~Uses(t, d, n)) =>
             client.tracked[d] = client.told[d].version

DocumentsInv == DocTypeOK /\ OneProcess /\ ServerIsInTheKnow

(* A start whose process exits without a word never returns, nor does a    *)
(* request such a process had: LspRequests, ExitReleasesWaiters.           *)
StartHangs == \E t \in Callers : call[t].at = "start" /\ On(t).status = "gone"
RequestHangs(t) ==
  \/ call[t].at = "wait" /\ ~Running(t)
  \/ call[t].at = "stopping" /\ Stopping(t) # "up"

(* Every call returns, however the starts, shutdowns and exits of the      *)
(* servers fall: the lock a start holds is given back, and only a process  *)
(* that exits in silence, being started or being asked, holds anyone up.   *)
(* Those that wait behind a start that hangs may want another server.      *)
CallsReturn ==
  \A t \in Callers : call[t] # Idle ~> (call[t] = Idle \/ StartHangs \/ RequestHangs(t))

=============================================================================
