----------------------------- MODULE MCProviders -----------------------------
(***************************************************************************)
(* Small instances of a request on its way to a model and of what comes    *)
(* back: compaction of the transcript, its translation for a provider, the *)
(* instruction files and the files claw init makes, credentials, the       *)
(* choice of the provider, calls with their retries, server-sent events    *)
(* and the assembly of a streamed reply.  They never meet: a behaviour is  *)
(* one of one of them, the others stay as they begin.                      *)
(***************************************************************************)
EXTENDS Compaction, ProviderRequests, RepositoryInit,
        StreamAssembly, Credentials, ProviderChoice, ProviderCalls, ServerSentEvents

CONSTANTS p1, p2

VARIABLE part   \* the component the behaviour is of

MCSizes == {1, 2}
MCFileNames == <<"CLAW.md", "instructions.md">>
MCProcesses == {p1, p2}

contextVars == <<compactionVars, requestVars, fileListVars, repoVars>>
replyVars == <<vars, credVars, choiceVars, callVars, sseVars>>

ReplyInit ==
  /\ (part # "assembly" => route = CHOOSE r \in Routes : TRUE) /\ Init
  /\ CredInit
  /\ part # "choice" => /\ caller = "cli" /\ tokens = "none"
                        /\ environment = [k \in Keys |-> "unset"]
                        /\ model = [name |-> CHOOSE n \in Spellings : TRUE, lower |-> TRUE]
  /\ ChoiceInit
  /\ part # "calls" => /\ client = CHOOSE c \in Clients : TRUE
                       /\ limit = IF client \in Rust THEN Max(RetryLimits) ELSE Attempts - 1
  /\ CallInit
  /\ part # "events" => /\ parser = CHOOSE p \in Parsers : TRUE
                        /\ kinds = [k \in 1 .. Frames |-> CHOOSE kind \in Kinds : TRUE]
                        /\ ends = [k \in 1 .. Frames |-> TRUE]
  /\ SseInit

ProvidersInit ==
  /\ part \in {"compaction", "request", "instructions", "repository", "assembly",
               "credentials", "choice", "calls", "events"}
  /\ CompactionInit /\ RequestsInit /\ InstructionsInit /\ RepositoryInit /\ ReplyInit

ContextNext ==
  \/ part = "compaction" /\ CompactionNext /\ UNCHANGED <<requestVars, fileListVars, repoVars>>
  \/ part = "request" /\ RequestsNext /\ UNCHANGED <<compactionVars, fileListVars, repoVars>>
  \/ part = "instructions" /\ InstructionsNext /\ UNCHANGED <<compactionVars, requestVars, repoVars>>
  \/ part = "repository" /\ RepositoryNext /\ UNCHANGED <<compactionVars, requestVars, fileListVars>>

ReplyNext ==
  \/ part = "assembly" /\ Next /\ UNCHANGED <<credVars, choiceVars, callVars, sseVars>>
  \/ part = "credentials" /\ CredNext /\ UNCHANGED <<vars, choiceVars, callVars, sseVars>>
  \/ part = "choice" /\ ChoiceNext /\ UNCHANGED <<vars, credVars, callVars, sseVars>>
  \/ part = "calls" /\ CallNext /\ UNCHANGED <<vars, credVars, choiceVars, sseVars>>
  \/ part = "events" /\ SseNext /\ UNCHANGED <<vars, credVars, choiceVars, callVars>>

ProvidersNext ==
  /\ UNCHANGED part
  /\ \/ ContextNext /\ UNCHANGED replyVars
     \/ ReplyNext /\ UNCHANGED contextVars

ProvidersSpec == ProvidersInit /\ [][ProvidersNext]_<<part, contextVars, replyVars>>

(* What is said arrives as it was said: the instruction files within their *)
(* budget, the request in the form of its provider, the events of the      *)
(* reply, and what they are put together to.                               *)
ExchangeInv == InstructionsInv /\ RequestsInv /\ EventsInv /\ StreamInv

=============================================================================
