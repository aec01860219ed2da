---------------------------- MODULE ProviderCalls ----------------------------
(***************************************************************************)
(* One request to a provider, with its retries: send_with_retry of the two *)
(* clients of the crate api (claw_provider.rs, openai_compat.rs) and       *)
(* send_message and stream_message of the Python agent's (api_client.py),  *)
(* which also asks again when a stream it already passed on times out.     *)
(***************************************************************************)
EXTENDS Integers, Sequences, FiniteSets, FiniteSetsExt

CONSTANTS
  RetryLimits,  \* the values of max_retries that are tried
  Width,        \* bits of the multiplier: 32 in the code
  FirstDelay,   \* initial_backoff
  MaxDelay,     \* max_backoff
  Attempts,     \* _MAX_ATTEMPTS of the Python client
  Parts         \* bound: parts of one reply that are streamed

ASSUME ProviderCallsAssumption ==
  /\ RetryLimits \subseteq Nat
  /\ {Width, FirstDelay, MaxDelay, Attempts} \subseteq Nat \ {0}
  /\ Parts \in Nat

Clients == {"claw", "openai", "tony", "tony-stream"}
Rust == {"claw", "openai"}

VARIABLES
  client,     \* who calls
  limit,      \* max_retries
  at,         \* "send", "wait", "stream", "done", or the error that is returned
  attempts,   \* requests sent so far
  lastError,  \* last_error, last_exc: the attempt it is from
  answers,    \* what became of each attempt
  slept,      \* delays so far
  passedOn    \* parts of a streamed reply handed to the caller, by attempt

callVars == <<client, limit, at, attempts, lastError, answers, slept, passedOn>>

CallInit ==
  /\ client \in Clients
  /\ limit \in IF client \in Rust THEN RetryLimits ELSE {Attempts - 1}
  /\ at = "send"
  /\ attempts = 0
  /\ lastError = 0
  /\ answers = <<>>
  /\ slept = <<>>
  /\ passedOn = <<>>

-----------------------------------------------------------------------------
(* expect_success, is_retryable: what may come back.  408, 409, 429, 5xx   *)
(* (not 409 in Python) are "retryable"; so is a failed connection, which   *)
(* Python does not catch ("refused"), and a timeout.                       *)
Outcomes == {"success", "retryable", "conflict", "fatal", "refused", "timeout", "other"}
MayRetry(outcome) ==
  \/ outcome \in {"retryable", "timeout"}
  \/ client \in Rust /\ outcome \in {"conflict", "refused"}

(* Slip: the attempt is counted after the comparison. *)
GivesUpOneLater == attempts' > limit + 1

GivesUp == attempts' > limit

Attempt ==
  /\ at = "send"
  /\ attempts' = attempts + 1
  /\ \E outcome \in Outcomes :
       /\ answers' = Append(answers, outcome)
       /\ \/ /\ outcome = "success" /\ UNCHANGED lastError
             /\ at' = IF client = "tony-stream" THEN "stream" ELSE "done"
          \/ outcome # "success" /\ ~MayRetry(outcome) /\ at' = "error" /\ UNCHANGED lastError
          \/ /\ MayRetry(outcome)
             /\ lastError' = attempts'
             /\ at' = IF GivesUp THEN "exhausted" ELSE "wait"
  /\ UNCHANGED <<client, limit, slept, passedOn>>

(* backoff_for_attempt: 1 << (attempt - 1) has a result only while the     *)
(* shift is below the width; Python doubles without bounds.                *)
Power(n) == LET double[k \in 0 .. n] == IF k = 0 THEN 1 ELSE 2 * double[k - 1] IN double[n]
LesserOf(a, b) == IF a <= b THEN a ELSE b
Delay ==
  IF client \in Rust THEN LesserOf(FirstDelay * Power(attempts - 1), MaxDelay)
  ELSE FirstDelay * Power(Len(slept))

Sleep ==
  /\ at = "wait"
  /\ IF client \in Rust /\ attempts - 1 >= Width
     THEN at' = "overflow" /\ UNCHANGED slept
     ELSE at' = "send" /\ slept' = Append(slept, Delay)
  /\ UNCHANGED <<client, limit, attempts, lastError, answers, passedOn>>

-----------------------------------------------------------------------------
(* stream_message: what was yielded before a timeout stays yielded.        *)
Yield ==
  /\ at = "stream"
  /\ Len(SelectSeq(passedOn, LAMBDA a : a = attempts)) < Parts
  /\ passedOn' = Append(passedOn, attempts)
  /\ UNCHANGED <<client, limit, at, attempts, lastError, answers, slept>>

StreamEnds ==
  /\ at = "stream"
  /\ \/ at' = "done" /\ UNCHANGED <<lastError, answers>>
     \/ at' = "error" /\ UNCHANGED <<lastError, answers>>
     \/ /\ answers' = [answers EXCEPT ![attempts] = "timeout"]
        /\ lastError' = attempts
        /\ at' = IF attempts > limit THEN "exhausted" ELSE "wait"
  /\ UNCHANGED <<client, limit, attempts, slept, passedOn>>

CallNext == Attempt \/ Sleep \/ Yield \/ StreamEnds
CallSpec == CallInit /\ [][CallNext]_callVars

-----------------------------------------------------------------------------
CallTypeOK ==
  /\ client \in Clients
  /\ at \in {"send", "wait", "stream", "done", "error", "exhausted", "overflow"}
  /\ attempts \in Nat /\ Len(answers) = attempts
  /\ lastError \in 0 .. attempts
  /\ \A a \in DOMAIN answers : answers[a] \in Outcomes
  /\ \A k \in DOMAIN passedOn : passedOn[k] \in 1 .. attempts

(* A request is made again only after an answer that allows it, at most    *)
(* max_retries times, and after its own delay; delays grow and stay below  *)
(* their maximum.                                                          *)
RetriesAreEarned ==
  /\ attempts <= limit + 1
  /\ \A a \in 1 .. attempts - 1 : MayRetry(answers[a])
  /\ Len(slept) = IF at \in {"wait", "exhausted", "overflow", "done", "error", "stream"}
                  THEN attempts - 1 ELSE attempts
  /\ \A k \in DOMAIN slept :
       slept[k] = IF client \in Rust THEN LesserOf(FirstDelay * Power(k - 1), MaxDelay)
                  ELSE FirstDelay * Power(k - 1)

(* RetriesExhausted is returned when every attempt there is was made, and  *)
(* none earlier; it carries the error of the last.  The other way a retry  *)
(* ends, an overflow of the delay, takes more attempts than the width of   *)
(* the multiplier.                                                         *)
ExhaustedMeansAll ==
  /\ at = "exhausted" => attempts = limit + 1 /\ lastError = attempts /\ MayRetry(answers[attempts])
  /\ at = "error" => ~MayRetry(answers[attempts]) \/ client = "tony-stream"
  /\ at = "overflow" => limit > Width /\ attempts = Width + 1

(* Only the Python stream passes on parts of more than one attempt, and    *)
(* then the parts of the earlier attempt were cut by a timeout.            *)
PartsAreOfOneAttempt ==
  \A k \in DOMAIN passedOn :
    passedOn[k] < attempts => client = "tony-stream" /\ answers[passedOn[k]] = "timeout"

CallInv == CallTypeOK /\ RetriesAreEarned /\ ExhaustedMeansAll /\ PartsAreOfOneAttempt

=============================================================================
