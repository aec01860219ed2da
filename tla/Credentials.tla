----------------------------- MODULE Credentials -----------------------------
(***************************************************************************)
(* The saved OAuth tokens (runtime/src/oauth.rs) and the processes that    *)
(* use them: login, logout, and the start of a session, which refreshes    *)
(* tokens that expired (api/src/providers/claw_provider.rs, main.rs).      *)
(* Nothing locks credentials.json; it is replaced by a rename, from a      *)
(* temporary file whose name all processes share.                          *)
(***************************************************************************)
EXTENDS Naturals, FiniteSets

CONSTANTS
  Processes,   \* processes of the CLI
  MaxGrants,   \* bound: token sets the provider grants
  MaxLogins    \* bound: logins begun

ASSUME CredentialsAssumption ==
  /\ IsFiniteSet(Processes)
  /\ MaxGrants \in Nat /\ MaxLogins \in Nat

VARIABLES
  saved,     \* credentials.json: its oauth entry, and whether the rest of it is there
  temp,      \* credentials.json.tmp
  provider,  \* token sets granted so far, refresh tokens it takes, access tokens that
             \* expired, logins that were granted no refresh token
  consents,  \* logins whose redirect the browser may deliver
  process,   \* what each process does
  lost,      \* did an answer get lost, or a process end before it saved its tokens?
  shared     \* did two processes ever save, or hold tokens to save, at once?

credVars == <<saved, temp, provider, consents, process, lost, shared>>

NoTokens == [access |-> 0, refresh |-> 0]
Torn == [torn |-> TRUE, oauth |-> NoTokens]
File(tokens) == [torn |-> FALSE, oauth |-> tokens]
Resting == [at |-> "rest", tokens |-> NoTokens, login |-> 0]

CredInit ==
  /\ saved = File(NoTokens)
  /\ temp = File(NoTokens)
  /\ provider = [granted |-> 0, live |-> {}, expired |-> {}, bare |-> {}, logins |-> 0]
  /\ consents = {}
  /\ process = [p \in Processes |-> Resting]
  /\ lost = FALSE
  /\ shared = FALSE

At(p) == process[p].at
Becomes(p, at, tokens) == process' = [process EXCEPT ![p].at = at, ![p].tokens = tokens]
Moves(p, at) == process' = [process EXCEPT ![p].at = at]
Saving(p) == At(p) \in {"truncate", "write", "rename"}
Unsaved(p) == /\ At(p) = "save" \/ Saving(p)
              /\ process[p].tokens # NoTokens
Finishes(p, result) == process' = [process EXCEPT ![p] = [Resting EXCEPT !.at = result]]

-----------------------------------------------------------------------------
(* resolve_startup_auth_source, when no key is in the environment.  Only   *)
(* tokens that expired, and can be refreshed, lead any further; to refresh *)
(* them the configuration must load.                                       *)
Resolution(file) ==
  IF file.torn THEN "unreadable"
  ELSE IF file.oauth = NoTokens THEN "missing credentials"
  ELSE IF file.oauth.access \notin provider.expired THEN "bearer"
  ELSE IF file.oauth.refresh = 0 THEN "expired"
  ELSE "refresh"

StartUp(p) ==
  /\ At(p) = "rest"
  /\ IF Resolution(saved) = "refresh"
     THEN Becomes(p, "refresh", saved.oauth)
     ELSE Finishes(p, Resolution(saved))
  /\ UNCHANGED <<saved, temp, provider, consents, lost, shared>>

(* The old refresh token is kept when the answer brings no new one.        *)
Refreshed(held, granted, renews) ==
  [access |-> granted, refresh |-> IF renews THEN granted ELSE held.refresh]

(* refresh_oauth_token: the provider takes a refresh token that is live;   *)
(* one that is replaced is used up.  The answer may get lost.              *)
Refresh(p) ==
  /\ At(p) = "refresh"
  /\ \/ /\ process[p].tokens.refresh \in provider.live
        /\ provider.granted < MaxGrants
        /\ \E renews, arrives \in BOOLEAN :
             LET g == provider.granted + 1
             IN  /\ provider' = [provider EXCEPT !.granted = g,
                      !.live = IF renews THEN (@ \ {process[p].tokens.refresh}) \cup {g} ELSE @]
                 /\ lost' = (lost \/ ~arrives)
                 /\ IF arrives THEN Becomes(p, "save", Refreshed(process[p].tokens, g, renews))
                    ELSE Finishes(p, "failed")
     \/ /\ process[p].tokens.refresh \notin provider.live
        /\ Finishes(p, "failed")
        /\ UNCHANGED <<provider, lost>>
  /\ shared' = (shared \/ \E q \in Processes : Unsaved(q))
  /\ UNCHANGED <<saved, temp, consents>>

-----------------------------------------------------------------------------
(* run_login: the browser is opened first, then the port is bound, and the *)
(* first request that comes decides.                                       *)
OpenBrowser(p) ==
  /\ At(p) = "rest" /\ provider.logins < MaxLogins
  /\ provider' = [provider EXCEPT !.logins = @ + 1]
  /\ consents' = consents \cup {provider.logins + 1}
  /\ process' = [process EXCEPT ![p].at = "bind", ![p].login = provider.logins + 1]
  /\ UNCHANGED <<saved, temp, lost, shared>>

Bind(p) ==
  /\ At(p) = "bind"
  /\ IF \E q \in Processes : At(q) = "listen" THEN Finishes(p, "failed") ELSE Moves(p, "listen")
  /\ UNCHANGED <<saved, temp, provider, consents, lost, shared>>

(* The redirect of a login reaches whoever listens, or nobody; it may be   *)
(* of an earlier login, bring an error, or not be a redirect at all.       *)
Callback(p) ==
  /\ At(p) = "listen"
  /\ \/ \E c \in consents :
          /\ consents' = consents \ {c}
          /\ IF c = process[p].login THEN Moves(p, "exchange") ELSE Finishes(p, "failed")
     \/ Finishes(p, "failed") /\ UNCHANGED consents
  /\ UNCHANGED <<saved, temp, provider, lost, shared>>

NobodyListens ==
  /\ \A p \in Processes : At(p) # "listen"
  /\ \E c \in consents : consents' = consents \ {c}
  /\ UNCHANGED <<saved, temp, provider, process, lost, shared>>

Exchange(p) ==
  /\ At(p) = "exchange" /\ provider.granted < MaxGrants
  /\ \/ LET g == provider.granted + 1
        IN  \E refreshable \in BOOLEAN :
              /\ provider' = [provider EXCEPT !.granted = g,
                                !.live = IF refreshable THEN @ \cup {g} ELSE @,
                                !.bare = IF refreshable THEN @ ELSE @ \cup {g}]
              /\ Becomes(p, "save", [access |-> g, refresh |-> IF refreshable THEN g ELSE 0])
     \/ Finishes(p, "failed") /\ UNCHANGED provider
  /\ UNCHANGED <<saved, temp, consents, lost, shared>>

(* run_logout. *)
Logout(p) ==
  /\ At(p) = "rest"
  /\ Becomes(p, "save", NoTokens)
  /\ UNCHANGED <<saved, temp, provider, consents, lost, shared>>

-----------------------------------------------------------------------------
(* save_oauth_credentials, clear_oauth_credentials: read the file, write   *)
(* the temporary one (which is empty in between), rename it.               *)
ReadRoot(p) ==
  /\ At(p) = "save"
  /\ IF saved.torn THEN Finishes(p, "failed") ELSE Moves(p, "truncate")
  /\ lost' = (lost \/ saved.torn)
  /\ shared' = (shared \/ \E q \in Processes : Saving(q))
  /\ UNCHANGED <<saved, temp, provider, consents>>

(* Slip: the file itself is written. *)
TruncateInPlace(p) ==
  /\ At(p) = "truncate"
  /\ saved' = Torn /\ temp' = Torn
  /\ Moves(p, "write")
  /\ UNCHANGED <<provider, consents, lost, shared>>

Truncate(p) ==
  /\ At(p) = "truncate"
  /\ temp' = Torn
  /\ Moves(p, "write")
  /\ UNCHANGED <<saved, provider, consents, lost, shared>>

WriteTemp(p) ==
  /\ At(p) = "write"
  /\ temp' = File(process[p].tokens)
  /\ Moves(p, "rename")
  /\ UNCHANGED <<saved, provider, consents, lost, shared>>

RenameTemp(p) ==
  /\ At(p) = "rename"
  /\ saved' = temp
  /\ Finishes(p, "bearer")
  /\ UNCHANGED <<temp, provider, consents, lost, shared>>

(* A process ends, or an error of the disk ends what it was doing, between *)
(* any two steps.                                                          *)
Ends(p) ==
  /\ At(p) # "rest"
  /\ Finishes(p, "rest")
  /\ lost' = (lost \/ Unsaved(p))
  /\ UNCHANGED <<saved, temp, provider, consents, shared>>

Expires ==
  /\ \E g \in (1 .. provider.granted) \ provider.expired :
       provider' = [provider EXCEPT !.expired = @ \cup {g}]
  /\ UNCHANGED <<saved, temp, consents, process, lost, shared>>

CredNext ==
  \/ \E p \in Processes :
       \/ StartUp(p) \/ Refresh(p) \/ OpenBrowser(p) \/ Bind(p) \/ Callback(p) \/ Exchange(p)
       \/ Logout(p) \/ ReadRoot(p) \/ Truncate(p) \/ WriteTemp(p) \/ RenameTemp(p) \/ Ends(p)
  \/ NobodyListens \/ Expires

CredSpec == CredInit /\ [][CredNext]_credVars

-----------------------------------------------------------------------------
CredTypeOK ==
  /\ saved.torn \in BOOLEAN /\ temp.torn \in BOOLEAN
  /\ provider.granted \in 0 .. MaxGrants
  /\ provider.live \subseteq 1 .. provider.granted
  /\ consents \subseteq 1 .. MaxLogins
  /\ \A p \in Processes : process[p].login \in 0 .. MaxLogins

(* However often tokens expire and are refreshed, and wherever a process  *)
(* ends, the file is whole: it takes two that save at once to tear it.     *)
(* And what it holds can be used again: its refresh token is one that the  *)
(* provider still takes, whether or not the provider replaces the tokens   *)
(* it is shown, unless tokens were lost on their way to the file.          *)
SavedTokensWork ==
  ~shared =>
    /\ ~saved.torn
    /\ ~lost /\ saved.oauth # NoTokens /\ (\A p \in Processes : ~Unsaved(p)) =>
         IF saved.oauth.refresh = 0 THEN saved.oauth.access \in provider.bare
         ELSE saved.oauth.refresh \in provider.live

CredentialsInv == CredTypeOK /\ SavedTokensWork

=============================================================================
