----------------------------- MODULE MCLspClient -----------------------------
(***************************************************************************)
(* Small instances of LspRequests and LspDocuments.  The two never meet:   *)
(* a behaviour is one of the requests of a client, or one of the documents *)
(* of a manager.                                                           *)
(***************************************************************************)
EXTENDS LspRequests, LspDocuments, TLC

CONSTANTS t1, t2, t3, c1, c2, s1, s2, d1, d2

VARIABLE part   \* the component the behaviour is of

MCTasks == {t1, t2, t3}
MCCallers == {c1, c2}
MCServers == {s1, s2}
MCHome == d1 :> s1 @@ d2 :> s2

ClientInit == part \in {"requests", "documents"} /\ Init /\ DocInit

ClientNext ==
  /\ UNCHANGED part
  /\ \/ part = "requests" /\ Next /\ UNCHANGED docVars
     \/ part = "documents" /\ DocNext /\ UNCHANGED vars

(* The fairness of Spec and of DocSpec.                                    *)
ClientSpec ==
  /\ ClientInit /\ [][ClientNext]_<<part, vars, docVars>>
  /\ \A t \in Tasks : WF_vars(part = "requests" /\ TaskStep(t))
  /\ WF_vars(part = "requests" /\ ReaderStep)
  /\ WF_vars(part = "requests" /\ ServerReads)
  /\ WF_vars(part = "requests" /\ ServerAnswers)
  /\ \A c \in Callers : WF_docVars(part = "documents" /\ CallerStep(c))
  /\ \A c \in Callers : WF_docVars(part = "documents" /\ Answers(c))

=============================================================================
