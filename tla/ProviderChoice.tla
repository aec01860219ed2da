---------------------------- MODULE ProviderChoice ----------------------------
(***************************************************************************)
(* Which provider answers, and with which credentials: a sub-agent takes   *)
(* the provider its model names, or the first whose credentials are there  *)
(* (api/src/providers/mod.rs, api/src/client.rs); the session of claw      *)
(* takes the one provider it knows (claw-cli/src/main.rs).  The variables  *)
(* of the environment stay; another process may log in or out in between.  *)
(***************************************************************************)
EXTENDS Integers

CONSTANTS
  Spellings,   \* bound: the model names that are tried
  Values,      \* bound: what a variable of the environment may hold
  MaxChanges   \* bound: changes of the saved tokens

ASSUME ProviderChoiceAssumption ==
  /\ Values \subseteq {"unset", "empty", "set", "garbled"}
  /\ MaxChanges \in Nat

VARIABLES
  caller,       \* "cli" or "agent"
  model,        \* the model name: as it was asked for, then as it is sent
  environment,  \* [variable -> its value]
  tokens,       \* the saved tokens: "none", "valid", "expired", "refreshable", "unreadable"
  choosing,     \* "resolve", "detect", "construct", "made", "refused"
  chosen,       \* the provider
  auth,         \* what requests carry, or the error
  changes       \* changes of the saved tokens so far

choiceVars == <<caller, model, environment, tokens, choosing, chosen, auth, changes>>

Keys == {"ANTHROPIC_API_KEY", "ANTHROPIC_AUTH_TOKEN", "OPENAI_API_KEY", "XAI_API_KEY"}
SavedTokens == {"none", "valid", "expired", "refreshable", "unreadable"}

ChoiceInit ==
  /\ caller \in {"cli", "agent"}
  /\ model \in [name : Spellings, lower : BOOLEAN]   \* lower: it is spelled in lower case
  /\ environment \in [Keys -> Values]
  /\ tokens \in SavedTokens
  /\ choosing = "resolve" /\ chosen = "nobody" /\ auth = "nothing" /\ changes = 0

-----------------------------------------------------------------------------
(* MODEL_REGISTRY, and what each alias of it stands for.                   *)
ClawModels == {"claude-opus-4-6", "claude-sonnet-4-6", "claude-haiku-4-5-20251213"}
Registry ==
  [ClawApi |-> {"opus", "sonnet", "haiku"} \cup ClawModels,
   Xai |-> {"grok", "grok-3", "grok-mini", "grok-3-mini", "grok-2"}]
ClawAlias(name) ==
  CASE name = "opus"   -> "claude-opus-4-6"
    [] name = "sonnet" -> "claude-sonnet-4-6"
    [] name = "haiku"  -> "claude-haiku-4-5-20251213"
    [] OTHER           -> name
GrokAlias(name) ==
  CASE name = "grok" -> "grok-3" [] name = "grok-mini" -> "grok-3-mini" [] OTHER -> name

(* resolve_model_alias of the crate api knows the names in any case, and   *)
(* keeps the spelling of what it leaves alone.                             *)
ResolveModelAlias(m) ==
  CASE m.name \in {"opus", "sonnet", "haiku"} -> [name |-> ClawAlias(m.name), lower |-> TRUE]
    [] m.name \in Registry.Xai                -> [name |-> GrokAlias(m.name), lower |-> TRUE]
    [] OTHER                                  -> m

(* That of the CLI knows three names, as they are written.                 *)
ResolveInCli(m) == IF m.lower THEN [m EXCEPT !.name = ClawAlias(@)] ELSE m

Resolve ==
  /\ choosing = "resolve" /\ choosing' = "detect"
  /\ model' = IF caller = "cli" THEN ResolveInCli(model) ELSE ResolveModelAlias(model)
  /\ UNCHANGED <<caller, environment, tokens, chosen, auth, changes>>

(* metadata_for_model, of the resolved name: the registry, then a prefix,  *)
(* which GrokNames have, of the names that are tried.                      *)
GrokNames == {"grok-4"}
Family(m) ==
  CASE m.name \in Registry.ClawApi              -> "ClawApi"
    [] m.name \in Registry.Xai \cup GrokNames   -> "Xai"
    [] OTHER                                    -> "nobody"

-----------------------------------------------------------------------------
(* read_env_non_empty: what is not unicode is an error.                    *)
Holds(key) == environment[key] = "set"
Fails(key) == environment[key] = "garbled"
ApiKey == "ANTHROPIC_API_KEY"
AuthToken == "ANTHROPIC_AUTH_TOKEN"

(* has_auth_from_env_or_saved: it stops at the first that is there, and at *)
(* the first error, which detect_provider_kind takes for a no.             *)
HasAuth ==
  \/ Holds(ApiKey)
  \/ /\ ~Fails(ApiKey)
     /\ Holds(AuthToken) \/ (~Fails(AuthToken) /\ tokens \notin {"none", "unreadable"})

(* Slip: a key of OpenAI is not asked for. *)
DetectXaiOnly ==
  IF Family(model) # "nobody" THEN Family(model)
  ELSE IF Holds("XAI_API_KEY") THEN "Xai"
  ELSE "ClawApi"

DetectProviderKind ==
  IF Family(model) # "nobody" THEN Family(model)
  ELSE IF HasAuth THEN "ClawApi"
  ELSE IF Holds("OPENAI_API_KEY") THEN "OpenAi"
  ELSE IF Holds("XAI_API_KEY") THEN "Xai"
  ELSE "ClawApi"

(* The CLI has a ClawApiClient, whatever the model.                        *)
Detect ==
  /\ choosing = "detect" /\ choosing' = "construct"
  /\ chosen' = IF caller = "cli" THEN "ClawApi" ELSE DetectProviderKind
  /\ UNCHANGED <<caller, model, environment, tokens, auth, changes>>

-----------------------------------------------------------------------------
Errors == {"invalid", "expired", "stale", "missing", "unreadable"}

(* Slip: the saved tokens are taken before those of the environment. *)
SavedFirst == IF tokens = "valid" THEN "saved" ELSE IF Holds(ApiKey) THEN "key" ELSE "missing"

(* AuthSource::from_env_or_saved.                                          *)
FromSaved ==
  CASE tokens = "unreadable"  -> "unreadable"
    [] tokens = "refreshable" -> "stale"
    [] tokens = "expired"     -> "expired"
    [] tokens = "valid"       -> "saved"
    [] tokens = "none"        -> "missing"

FromEnvOrSaved ==
  IF Fails(ApiKey) \/ Fails(AuthToken) THEN "invalid"
  ELSE IF Holds(ApiKey) THEN IF Holds(AuthToken) THEN "both" ELSE "key"
  ELSE IF Holds(AuthToken) THEN "token"
  ELSE FromSaved

(* resolve_startup_auth_source differs where tokens can be refreshed.      *)
StartupAuth == IF FromEnvOrSaved = "stale" THEN "refreshed" ELSE FromEnvOrSaved

(* OpenAiCompatClient::from_env.                                           *)
CompatAuth(key) ==
  CASE Fails(key) -> "invalid" [] Holds(key) -> "key" [] OTHER -> "missing"

AuthOf(provider) ==
  CASE provider = "Xai"    -> CompatAuth("XAI_API_KEY")
    [] provider = "OpenAi" -> CompatAuth("OPENAI_API_KEY")
    [] OTHER               -> IF caller = "cli" THEN StartupAuth ELSE FromEnvOrSaved

(* from_model; a refresh may fail, as Credentials has it.                  *)
Construct ==
  /\ choosing = "construct"
  /\ auth' \in {AuthOf(chosen)} \cup (IF AuthOf(chosen) = "refreshed" THEN {"stale"} ELSE {})
  /\ choosing' = IF auth' \in Errors THEN "refused" ELSE "made"
  /\ UNCHANGED <<caller, model, environment, tokens, chosen, changes>>

(* External: another process logs in or out, tokens expire.                *)
TokensChange ==
  /\ choosing \in {"detect", "construct"} /\ changes < MaxChanges
  /\ changes' = changes + 1
  /\ \E t \in SavedTokens \ {tokens} : tokens' = t
  /\ UNCHANGED <<caller, model, environment, choosing, chosen, auth>>

ChoiceNext == Resolve \/ Detect \/ Construct \/ TokensChange

ChoiceSpec == ChoiceInit /\ [][ChoiceNext]_choiceVars

-----------------------------------------------------------------------------
(* Names resolve once: to resolve again changes nothing.  For a sub-agent  *)
(* a name that says whose it is decides, in any case it is spelled in,     *)
(* whatever the environment holds.                                         *)
NamesDecide ==
  choosing # "resolve" =>
    /\ IF caller = "cli" THEN ResolveInCli(model) = model ELSE ResolveModelAlias(model) = model
    /\ caller = "agent" /\ chosen # "nobody" /\ Family(model) # "nobody" => chosen = Family(model)

(* A sub-agent of a model nobody knows is refused only when no provider    *)
(* would take it; but what Claw is chosen for may not work: tokens that    *)
(* expired, a variable that is not unicode, or a change in between.        *)
Works(provider) == AuthOf(provider) \notin Errors
RefusedForAReason ==
  choosing = "refused" /\ caller = "agent" /\ Family(model) = "nobody" =>
    \/ \A provider \in {"ClawApi", "OpenAi", "Xai"} : ~Works(provider)
    \/ /\ chosen = "ClawApi"
       /\ changes > 0 \/ tokens \in {"expired", "refreshable"} \/ (Holds(ApiKey) /\ Fails(AuthToken))

(* A session and its sub-agents ask Claw with the same credentials; only   *)
(* tokens that must be refreshed serve the one and not the other, and what *)
(* the environment holds goes before what is saved.                        *)
SameCredentials ==
  choosing = "made" /\ chosen = "ClawApi" =>
    /\ auth = FromEnvOrSaved \/ (caller = "cli" /\ auth = "refreshed" /\ tokens = "refreshable")
    /\ auth \in {"saved", "refreshed"} => ~Holds(ApiKey) /\ ~Holds(AuthToken)

ChoiceInv == NamesDecide /\ RefusedForAReason /\ SameCredentials

=============================================================================
