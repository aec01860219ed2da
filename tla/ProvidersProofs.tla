-------------------------- MODULE ProvidersProofs ---------------------------
(***************************************************************************)
(* Theorems about what a request needs to reach a model: the credentials,  *)
(* for any finite set of processes, and any number of grants and logins; the *)
(* choice of the provider, for any names and values of the variables; the  *)
(* call and its retries, for any limits and delays; the transcript that is *)
(* sent, compacted any number of times, however much is kept of it; and    *)
(* the files that claw init makes, for any edits of the user.              *)
(***************************************************************************)
EXTENDS Credentials, ProviderChoice, ProviderCalls, Compaction, RepositoryInit, SequenceTheorems,
        WellFoundedInduction, TLAPS

Pairs == [access : 0 .. MaxGrants, refresh : 0 .. MaxGrants]
Files == [torn : BOOLEAN, oauth : Pairs]
Results == {"rest", "unreadable", "missing credentials", "bearer", "expired", "failed"}
Places == {"refresh", "bind", "listen", "exchange", "save", "truncate", "write", "rename"} \cup Results
States == [at : Places, tokens : Pairs, login : 0 .. MaxLogins]
Providers ==
  [granted : 0 .. MaxGrants, live : SUBSET (0 .. MaxGrants), expired : SUBSET (0 .. MaxGrants),
   bare : SUBSET (0 .. MaxGrants), logins : 0 .. MaxLogins]

CredTyped ==
  /\ saved \in Files /\ temp \in Files
  /\ provider \in Providers
  /\ provider.live \subseteq 1 .. provider.granted
  /\ consents \subseteq 1 .. MaxLogins
  /\ process \in [Processes -> States]
  /\ lost \in BOOLEAN /\ shared \in BOOLEAN

(* Tokens that can be used again: the refresh token is live, or the login  *)
(* was granted none.                                                       *)
Work(t) ==
  IF t.refresh = 0 THEN t.access \in provider.bare ELSE t.refresh \in provider.live

(* Until two processes save at once, there is one that writes, and what it *)
(* is about to rename is what it wrote.                                    *)
OneWriter ==
  ~shared =>
    /\ ~saved.torn
    /\ \A p, q \in Processes : Saving(p) /\ Saving(q) => p = q
    /\ \A p \in Processes : At(p) = "rename" => temp = File(process[p].tokens)

(* Tokens on their way to the file work, also while another process saves; *)
(* those in the file do when none are on their way.                        *)
TokensWork ==
  ~shared /\ ~lost =>
    /\ \A p \in Processes : Unsaved(p) => Work(process[p].tokens)
    /\ saved.oauth # NoTokens /\ (\A p \in Processes : ~Unsaved(p)) => Work(saved.oauth)

CredIInv == CredTyped /\ OneWriter /\ TokensWork

-----------------------------------------------------------------------------
LEMMA NothingIsTyped == NoTokens \in Pairs /\ Resting \in States
<1>1. NoTokens \in Pairs
  BY CredentialsAssumption DEF NoTokens, Pairs
<1> QED
  BY <1>1, CredentialsAssumption DEF Resting, States, Places, Results

LEMMA FilesAreTyped ==
  /\ Torn \in Files /\ Torn.torn = TRUE
  /\ \A t \in Pairs : File(t) \in Files /\ File(t).torn = FALSE /\ File(t).oauth = t
BY NothingIsTyped DEF Torn, File, Files

(* What the ways of moving a process do to it, and to the others.          *)
OthersStay(p) == \A q \in Processes \ {p} : process'[q] = process[q]

LEMMA Finishing ==
  ASSUME process \in [Processes -> States], NEW p \in Processes, NEW r \in Results, Finishes(p, r)
  PROVE  /\ process' \in [Processes -> States] /\ OthersStay(p)
         /\ process'[p].at = r /\ process'[p].tokens = NoTokens
<1>1. PICK s : s = [Resting EXCEPT !.at = r] /\ process' = [process EXCEPT ![p] = s]
  BY DEF Finishes
<1>2. s \in States
  BY <1>1, NothingIsTyped DEF States, Places
<1>3. s.at = r /\ s.tokens = NoTokens
  BY <1>1 DEF Resting
<1> QED
  BY <1>1, <1>2, <1>3 DEF OthersStay

LEMMA Moving ==
  ASSUME process \in [Processes -> States], NEW p \in Processes, NEW place \in Places, Moves(p, place)
  PROVE  /\ process' \in [Processes -> States] /\ OthersStay(p)
         /\ process'[p].at = place /\ process'[p].tokens = process[p].tokens
BY DEF Moves, States, OthersStay

LEMMA Becoming ==
  ASSUME process \in [Processes -> States], NEW p \in Processes, NEW place \in Places,
         NEW t \in Pairs, Becomes(p, place, t)
  PROVE  /\ process' \in [Processes -> States] /\ OthersStay(p)
         /\ process'[p].at = place /\ process'[p].tokens = t
BY DEF Becomes, States, OthersStay

(* A process that has nothing to write before the step, and after it at    *)
(* most tokens that work.                                                  *)
LEMMA QuietStep ==
  ASSUME OneWriter, TokensWork, NEW p \in Processes, OthersStay(p),
         At(p) # "save", ~Saving(p), ~Saving(p)', At(p)' = "save" =>
           (process'[p].tokens = NoTokens \/ Work(process[p].tokens)'),
         UNCHANGED <<saved, temp>>, shared => shared', lost => lost',
         provider.live \subseteq provider'.live, provider.bare \subseteq provider'.bare
  PROVE  OneWriter' /\ TokensWork'
<1>1. \A q \in Processes \ {p} : /\ At(q)' = At(q) /\ Saving(q)' = Saving(q) /\ Unsaved(q)' = Unsaved(q)
                                 /\ process'[q].tokens = process[q].tokens
  BY DEF OthersStay, At, Saving, Unsaved, NoTokens
<1>2. ~Unsaved(p)
  BY DEF Unsaved
<1>3. Unsaved(p)' => Work(process[p].tokens)'
  BY DEF Unsaved, NoTokens
<1>4. OneWriter'
  BY <1>1 DEF OneWriter, Saving, File
<1>5. \A t : Work(t) => IF t.refresh = 0 THEN t.access \in provider'.bare ELSE t.refresh \in provider'.live
  BY DEF Work
<1>6. \A q \in Processes \ {p} : Unsaved(q)' /\ Work(process[q].tokens) => Work(process[q].tokens)'
  BY <1>1, <1>5 DEF Work
<1>7. Work(saved.oauth) => Work(saved.oauth)'
  BY <1>5 DEF Work
<1>8. TokensWork'
  BY <1>1, <1>2, <1>3, <1>6, <1>7 DEF TokensWork, NoTokens
<1> QED
  BY <1>4, <1>8

LEMMA CredIInvInit == CredInit => CredIInv
<1> SUFFICES ASSUME CredInit
             PROVE  CredIInv
  OBVIOUS
<1>1. provider \in Providers /\ provider.live = {}
  BY CredentialsAssumption DEF CredInit, Providers
<1>2. CredTyped
  BY <1>1, NothingIsTyped, FilesAreTyped DEF CredInit, CredTyped
<1>3. \A p \in Processes : At(p) = "rest"
  BY DEF CredInit, At, Resting
<1>4. saved = File(NoTokens) /\ ~saved.torn /\ saved.oauth = NoTokens
  BY DEF CredInit, File
<1> QED
  BY <1>2, <1>3, <1>4 DEF CredIInv, OneWriter, TokensWork, Saving, Unsaved

(* A step that leaves the provider and the files alone and what is at most *)
(* an error to the process.                                                *)
LEMMA GivingUp ==
  ASSUME CredIInv, NEW p \in Processes, NEW r \in Results, Finishes(p, r), At(p) # "save", ~Saving(p),
         UNCHANGED <<saved, temp, provider, lost, shared>>, consents' \subseteq consents
  PROVE  CredIInv'
<1>1. /\ process' \in [Processes -> States] /\ OthersStay(p) /\ At(p)' = r
  BY Finishing DEF CredIInv, CredTyped, At
<1>2. CredTyped'
  BY <1>1 DEF CredIInv, CredTyped
<1>3. ~Saving(p)' /\ At(p)' # "save"
  BY <1>1 DEF Saving, Results
<1> QED
  BY <1>1, <1>2, <1>3, QuietStep DEF CredIInv

(* A process that goes on saving what it holds.                            *)
LEMMA SavingStep ==
  ASSUME TokensWork, NEW p \in Processes, OthersStay(p), process'[p].tokens = process[p].tokens,
         At(p) \in {"save", "truncate", "write"}, At(p)' \in {"truncate", "write", "rename"},
         UNCHANGED <<saved, provider>>, shared => shared', lost => lost'
  PROVE  TokensWork'
<1>1. \A q \in Processes : Unsaved(q)' = Unsaved(q) /\ process'[q].tokens = process[q].tokens
  BY DEF OthersStay, At, Unsaved, Saving, NoTokens
<1>2. \A q \in Processes : Work(process[q].tokens)' = Work(process[q].tokens)
  BY <1>1 DEF Work
<1>3. Work(saved.oauth)' = Work(saved.oauth)
  BY DEF Work
<1> QED
  BY <1>1, <1>2, <1>3 DEF TokensWork, NoTokens

LEMMA CredIInvStep == CredIInv /\ [CredNext]_credVars => CredIInv'
<1> SUFFICES ASSUME CredIInv, [CredNext]_credVars
             PROVE  CredIInv'
  OBVIOUS
<1>0. CredTyped /\ OneWriter /\ TokensWork /\ process \in [Processes -> States]
  BY DEF CredIInv, CredTyped
<1>1. ASSUME NEW p \in Processes, StartUp(p)
      PROVE  CredIInv'
  <2>1. At(p) = "rest" /\ UNCHANGED <<saved, temp, provider, consents, lost, shared>>
    BY <1>1 DEF StartUp
  <2>2. At(p) # "save" /\ ~Saving(p)
    BY <2>1 DEF Saving
  <2>3. CASE Resolution(saved) = "refresh"
    <3>1. Becomes(p, "refresh", saved.oauth)
      BY <1>1, <2>3 DEF StartUp
    <3>2. saved.oauth \in Pairs
      BY <1>0 DEF CredTyped, Files
    <3>3. process' \in [Processes -> States] /\ OthersStay(p) /\ At(p)' = "refresh"
      BY <1>0, <3>1, <3>2, Becoming DEF At, Places
    <3>4. CredTyped'
      BY <1>0, <2>1, <3>3 DEF CredTyped
    <3>5. At(p)' # "save" /\ ~Saving(p)'
      BY <3>3 DEF Saving
    <3> QED
      BY <1>0, <2>1, <2>2, <3>3, <3>4, <3>5, QuietStep DEF CredIInv
  <2>4. CASE Resolution(saved) # "refresh"
    <3>1. Finishes(p, Resolution(saved)) /\ Resolution(saved) \in Results
      BY <1>1, <2>4 DEF StartUp, Resolution, Results
    <3> QED
      BY <2>1, <2>2, <3>1, GivingUp
  <2> QED
    BY <2>3, <2>4
<1>2. ASSUME NEW p \in Processes, Refresh(p)
      PROVE  CredIInv'
  <2> DEFINE held == process[p].tokens
  <2>1. /\ At(p) = "refresh" /\ UNCHANGED <<saved, temp, consents>>
        /\ shared' = (shared \/ \E q \in Processes : Unsaved(q))
    BY <1>2 DEF Refresh
  <2>2. At(p) # "save" /\ ~Saving(p) /\ ~Unsaved(p)
    BY <2>1 DEF Saving, Unsaved
  <2>3. held \in Pairs /\ shared' \in BOOLEAN /\ (shared => shared')
    BY <1>0, <2>1 DEF CredTyped, States
  <2>4. CASE held.refresh \notin provider.live /\ Finishes(p, "failed") /\ UNCHANGED <<provider, lost>>
    <3>1. process' \in [Processes -> States] /\ OthersStay(p) /\ At(p)' = "failed"
      BY <1>0, <2>4, Finishing DEF Results, At
    <3>2. CredTyped'
      BY <1>0, <2>1, <2>3, <2>4, <3>1 DEF CredTyped
    <3>3. At(p)' # "save" /\ ~Saving(p)'
      BY <3>1 DEF Saving
    <3> QED
      BY <1>0, <2>1, <2>2, <2>3, <2>4, <3>1, <3>2, <3>3, QuietStep DEF CredIInv
  <2>5. ASSUME held.refresh \in provider.live, provider.granted < MaxGrants,
               NEW renews \in BOOLEAN, NEW arrives \in BOOLEAN,
               provider' = [provider EXCEPT !.granted = provider.granted + 1,
                 !.live = IF renews THEN (@ \ {held.refresh}) \cup {provider.granted + 1} ELSE @],
               lost' = (lost \/ ~arrives),
               IF arrives THEN Becomes(p, "save", Refreshed(held, provider.granted + 1, renews))
               ELSE Finishes(p, "failed")
        PROVE  CredIInv'
    <3> DEFINE g == provider.granted + 1
    <3>1. /\ g \in 1 .. MaxGrants /\ g \in 0 .. MaxGrants /\ provider.granted \in Nat
          /\ provider.live \subseteq 1 .. g /\ provider.live \subseteq 0 .. MaxGrants
          /\ held.refresh # 0 /\ g # 0
      BY <1>0, <2>5, CredentialsAssumption DEF CredTyped, Providers
    <3>2. /\ provider'.granted = g /\ provider'.bare = provider.bare
          /\ provider'.live = IF renews THEN (provider.live \ {held.refresh}) \cup {g} ELSE provider.live
          /\ provider'.expired = provider.expired /\ provider'.logins = provider.logins
      BY <1>0, <2>5 DEF CredTyped, Providers
    <3>3. provider'.live \subseteq 1 .. g /\ provider'.live \subseteq 0 .. MaxGrants
      BY <3>1, <3>2
    <3>4. provider' \in Providers
      BY <1>0, <2>5, <3>1, <3>2, <3>3 DEF CredTyped, Providers
    <3>5. Refreshed(held, g, renews) \in Pairs
      BY <2>3, <3>1 DEF Refreshed, Pairs
    <3>6. /\ process' \in [Processes -> States] /\ OthersStay(p)
          /\ arrives => At(p)' = "save" /\ process'[p].tokens = Refreshed(held, g, renews)
          /\ ~arrives => At(p)' = "failed"
      BY <1>0, <2>5, <3>5, Becoming, Finishing DEF At, Places, Results
    <3>7. CredTyped'
      BY <1>0, <2>1, <2>3, <2>5, <3>2, <3>3, <3>4, <3>6 DEF CredTyped
    <3>8. ~Saving(p)'
      BY <3>6 DEF Saving
    <3>9. arrives => Work(process[p].tokens)'
      BY <2>5, <3>1, <3>2, <3>6 DEF Work, Refreshed
    <3>10. CASE ~renews \/ shared'
      <4>1. CASE ~renews
        BY <1>0, <2>1, <2>2, <2>3, <2>5, <3>2, <3>6, <3>7, <3>8, <3>9, <4>1, QuietStep DEF CredIInv
      <4>2. CASE shared'
        BY <3>7, <4>2 DEF CredIInv, OneWriter, TokensWork
      <4> QED
        BY <3>10, <4>1, <4>2
    <3>11. CASE renews /\ ~shared'
      <4>1. ~shared /\ \A q \in Processes : ~Unsaved(q)
        BY <2>1, <3>11
      <4>2. \A q \in Processes \ {p} : ~Unsaved(q)' /\ Saving(q)' = Saving(q) /\ At(q)' = At(q)
                                       /\ process'[q].tokens = process[q].tokens
        BY <3>6, <4>1 DEF OthersStay, Unsaved, Saving, At, NoTokens
      <4>3. OneWriter'
        BY <1>0, <2>1, <3>6, <3>8, <4>1, <4>2 DEF OneWriter, File
      <4>4. arrives => Unsaved(p)' /\ Work(process[p].tokens)'
        BY <3>1, <3>6, <3>9 DEF Unsaved, Refreshed, NoTokens
      <4>5. TokensWork'
        BY <2>5, <4>2, <4>4 DEF TokensWork
      <4> QED
        BY <3>7, <4>3, <4>5 DEF CredIInv
    <3> QED
      BY <3>10, <3>11
  <2> QED
    BY <1>2, <2>4, <2>5 DEF Refresh
<1>3. ASSUME NEW p \in Processes, OpenBrowser(p)
      PROVE  CredIInv'
  <2>1. /\ At(p) = "rest" /\ provider.logins < MaxLogins
        /\ UNCHANGED <<saved, temp, lost, shared>>
        /\ consents' = consents \cup {provider.logins + 1}
    BY <1>3 DEF OpenBrowser
  <2>2. provider.logins \in Nat /\ provider.logins + 1 \in 1 .. MaxLogins
        /\ provider.logins + 1 \in 0 .. MaxLogins
    BY <1>0, <2>1, CredentialsAssumption DEF CredTyped, Providers
  <2>3. /\ provider' \in Providers /\ provider'.live = provider.live
        /\ provider'.granted = provider.granted /\ provider'.bare = provider.bare
    BY <1>0, <1>3, <2>2 DEF OpenBrowser, CredTyped, Providers
  <2>4. process' \in [Processes -> States] /\ OthersStay(p) /\ At(p)' = "bind"
    BY <1>0, <1>3, <2>2 DEF OpenBrowser, States, Places, OthersStay, At
  <2>5. CredTyped'
    BY <1>0, <2>1, <2>2, <2>3, <2>4 DEF CredTyped
  <2>6. At(p) # "save" /\ ~Saving(p) /\ At(p)' # "save" /\ ~Saving(p)'
    BY <2>1, <2>4 DEF Saving
  <2> QED
    BY <1>0, <2>1, <2>3, <2>4, <2>5, <2>6, QuietStep DEF CredIInv
<1>4. ASSUME NEW p \in Processes, Bind(p)
      PROVE  CredIInv'
  <2>1. At(p) # "save" /\ ~Saving(p) /\ UNCHANGED <<saved, temp, provider, consents, lost, shared>>
    BY <1>4 DEF Bind, Saving
  <2>2. CASE Finishes(p, "failed")
    BY <2>1, <2>2, GivingUp DEF Results
  <2>3. CASE Moves(p, "listen")
    <3>1. process' \in [Processes -> States] /\ OthersStay(p) /\ At(p)' = "listen"
      BY <1>0, <2>3, Moving DEF At, Places
    <3>2. CredTyped' /\ At(p)' # "save" /\ ~Saving(p)'
      BY <1>0, <2>1, <3>1 DEF CredTyped, Saving
    <3> QED
      BY <1>0, <2>1, <3>1, <3>2, QuietStep DEF CredIInv
  <2> QED
    BY <1>4, <2>2, <2>3 DEF Bind
<1>5. ASSUME NEW p \in Processes, Callback(p)
      PROVE  CredIInv'
  <2>1. /\ At(p) # "save" /\ ~Saving(p) /\ UNCHANGED <<saved, temp, provider, lost, shared>>
        /\ consents' \subseteq consents
    BY <1>5 DEF Callback, Saving
  <2>2. CASE Finishes(p, "failed")
    BY <2>1, <2>2, GivingUp DEF Results
  <2>3. CASE Moves(p, "exchange")
    <3>1. process' \in [Processes -> States] /\ OthersStay(p) /\ At(p)' = "exchange"
      BY <1>0, <2>3, Moving DEF At, Places
    <3>2. CredTyped' /\ At(p)' # "save" /\ ~Saving(p)'
      BY <1>0, <2>1, <3>1 DEF CredTyped, Saving
    <3> QED
      BY <1>0, <2>1, <3>1, <3>2, QuietStep DEF CredIInv
  <2> QED
    BY <1>5, <2>2, <2>3 DEF Callback
<1>6. ASSUME NEW p \in Processes, Exchange(p)
      PROVE  CredIInv'
  <2>1. At(p) # "save" /\ ~Saving(p) /\ UNCHANGED <<saved, temp, consents, lost, shared>>
    BY <1>6 DEF Exchange, Saving
  <2>2. CASE Finishes(p, "failed") /\ UNCHANGED provider
    BY <2>1, <2>2, GivingUp DEF Results
  <2>3. ASSUME NEW refreshable \in BOOLEAN,
               provider' = [provider EXCEPT !.granted = provider.granted + 1,
                              !.live = IF refreshable THEN @ \cup {provider.granted + 1} ELSE @,
                              !.bare = IF refreshable THEN @ ELSE @ \cup {provider.granted + 1}],
               Becomes(p, "save", [access |-> provider.granted + 1,
                                   refresh |-> IF refreshable THEN provider.granted + 1 ELSE 0])
        PROVE  CredIInv'
    <3> DEFINE g == provider.granted + 1
    <3>1. /\ g \in 0 .. MaxGrants /\ g \in 1 .. g /\ 0 \in 0 .. MaxGrants
          /\ provider.live \subseteq 1 .. g /\ provider.live \subseteq 0 .. MaxGrants
      <4>1. provider.granted < MaxGrants
        BY <1>6 DEF Exchange
      <4>2. provider.granted \in 0 .. MaxGrants /\ provider.live \subseteq 1 .. provider.granted
        BY <1>0 DEF CredTyped, Providers
      <4> QED
        BY <4>1, <4>2, CredentialsAssumption
    <3>2. /\ provider'.granted = g
          /\ provider'.live = IF refreshable THEN provider.live \cup {g} ELSE provider.live
          /\ provider'.bare = IF refreshable THEN provider.bare ELSE provider.bare \cup {g}
      BY <1>0, <2>3 DEF CredTyped, Providers
    <3>3. provider'.live \subseteq 1 .. g
      BY <3>1, <3>2
    <3>4. provider' \in Providers
      <4>1. PICK L, B : /\ provider' = [provider EXCEPT !.granted = g, !.live = L, !.bare = B]
                        /\ L = (IF refreshable THEN provider.live \cup {g} ELSE provider.live)
                        /\ B = (IF refreshable THEN provider.bare ELSE provider.bare \cup {g})
        BY <1>0, <2>3 DEF CredTyped, Providers
      <4>2. provider.live \subseteq 0 .. MaxGrants /\ provider.bare \subseteq 0 .. MaxGrants
        BY <1>0, <3>1 DEF CredTyped, Providers
      <4>3. L \subseteq 0 .. MaxGrants /\ B \subseteq 0 .. MaxGrants
        BY <3>1, <4>1, <4>2
      <4> QED
        BY <1>0, <3>1, <4>1, <4>3 DEF CredTyped, Providers
    <3>5. PICK t : t = [access |-> g, refresh |-> IF refreshable THEN g ELSE 0] /\ Becomes(p, "save", t)
      BY <2>3
    <3>6. t \in Pairs
      BY <3>1, <3>5 DEF Pairs
    <3>7. /\ process' \in [Processes -> States] /\ OthersStay(p) /\ At(p)' = "save"
          /\ process'[p].tokens = t
      BY <1>0, <3>5, <3>6, Becoming DEF At, Places
    <3>8. Work(process[p].tokens)'
      BY <3>1, <3>2, <3>5, <3>7 DEF Work
    <3>9. CredTyped' /\ ~Saving(p)'
      BY <1>0, <2>1, <3>2, <3>3, <3>4, <3>7 DEF CredTyped, Saving
    <3> QED
      BY <1>0, <2>1, <3>2, <3>7, <3>8, <3>9, QuietStep DEF CredIInv
  <2> QED
    BY <1>6, <2>2, <2>3 DEF Exchange
<1>7. ASSUME NEW p \in Processes, Logout(p)
      PROVE  CredIInv'
  <2>1. At(p) # "save" /\ ~Saving(p) /\ UNCHANGED <<saved, temp, provider, consents, lost, shared>>
    BY <1>7 DEF Logout, Saving
  <2>2. /\ process' \in [Processes -> States] /\ OthersStay(p) /\ At(p)' = "save"
        /\ process'[p].tokens = NoTokens
    BY <1>0, <1>7, NothingIsTyped, Becoming DEF Logout, At, Places
  <2>3. CredTyped' /\ ~Saving(p)'
    BY <1>0, <2>1, <2>2 DEF CredTyped, Saving
  <2> QED
    BY <1>0, <2>1, <2>2, <2>3, QuietStep DEF CredIInv
<1>8. ASSUME NEW p \in Processes, ReadRoot(p)
      PROVE  CredIInv'
  <2>1. /\ At(p) = "save" /\ UNCHANGED <<saved, temp, provider, consents>>
        /\ lost' = (lost \/ saved.torn) /\ shared' = (shared \/ \E q \in Processes : Saving(q))
    BY <1>8 DEF ReadRoot
  <2>2. lost' \in BOOLEAN /\ shared' \in BOOLEAN
    BY <1>0, <2>1 DEF CredTyped, Files
  <2>3. CASE saved.torn
    <3>1. process' \in [Processes -> States] /\ OthersStay(p) /\ At(p)' = "failed"
      BY <1>0, <1>8, <2>3, Finishing DEF ReadRoot, At, Results
    <3>2. CredTyped'
      BY <1>0, <2>1, <2>2, <3>1 DEF CredTyped
    <3>3. shared /\ shared'
      BY <1>0, <2>1, <2>3 DEF OneWriter
    <3> QED
      BY <3>2, <3>3 DEF CredIInv, OneWriter, TokensWork
  <2>4. CASE ~saved.torn
    <3>1. /\ process' \in [Processes -> States] /\ OthersStay(p) /\ At(p)' = "truncate"
          /\ process'[p].tokens = process[p].tokens
      BY <1>0, <1>8, <2>4, Moving DEF ReadRoot, At, Places
    <3>2. CredTyped'
      BY <1>0, <2>1, <2>2, <3>1 DEF CredTyped
    <3>3. TokensWork'
      BY <1>0, <2>1, <3>1, SavingStep
    <3>4. ~shared' => \A q \in Processes \ {p} : ~Saving(q)' /\ At(q)' # "rename"
      BY <2>1, <3>1 DEF OthersStay, Saving, At
    <3>5. OneWriter'
      BY <2>1, <2>4, <3>1, <3>4 DEF OneWriter
    <3> QED
      BY <3>2, <3>3, <3>5 DEF CredIInv
  <2> QED
    BY <2>3, <2>4
<1>9. ASSUME NEW p \in Processes, Truncate(p)
      PROVE  CredIInv'
  <2>1. /\ At(p) = "truncate" /\ temp' = Torn /\ Moves(p, "write")
        /\ UNCHANGED <<saved, provider, consents, lost, shared>>
    BY <1>9 DEF Truncate
  <2>2. /\ process' \in [Processes -> States] /\ OthersStay(p) /\ At(p)' = "write"
        /\ process'[p].tokens = process[p].tokens
    BY <1>0, <2>1, Moving DEF At, Places
  <2>3. CredTyped'
    BY <1>0, <2>1, <2>2, FilesAreTyped DEF CredTyped
  <2>4. TokensWork'
    BY <1>0, <2>1, <2>2, SavingStep
  <2>5. \A q \in Processes \ {p} : Saving(q)' = Saving(q) /\ At(q)' = At(q)
    BY <2>2 DEF OthersStay, Saving, At
  <2>6. Saving(p) /\ \A q \in Processes : At(q) = "rename" => Saving(q)
    BY <2>1 DEF Saving
  <2>7. OneWriter'
    BY <1>0, <2>1, <2>2, <2>5, <2>6 DEF OneWriter
  <2> QED
    BY <2>3, <2>4, <2>7 DEF CredIInv
<1>10. ASSUME NEW p \in Processes, WriteTemp(p)
       PROVE  CredIInv'
  <2>1. /\ At(p) = "write" /\ temp' = File(process[p].tokens) /\ Moves(p, "rename")
        /\ UNCHANGED <<saved, provider, consents, lost, shared>>
    BY <1>10 DEF WriteTemp
  <2>2. /\ process' \in [Processes -> States] /\ OthersStay(p) /\ At(p)' = "rename"
        /\ process'[p].tokens = process[p].tokens
    BY <1>0, <2>1, Moving DEF At, Places
  <2>3. CredTyped'
    BY <1>0, <2>1, <2>2, FilesAreTyped DEF CredTyped, States
  <2>4. TokensWork'
    BY <1>0, <2>1, <2>2, SavingStep
  <2>5. \A q \in Processes \ {p} : Saving(q)' = Saving(q) /\ At(q)' = At(q)
    BY <2>2 DEF OthersStay, Saving, At
  <2>6. Saving(p) /\ \A q \in Processes : At(q) = "rename" => Saving(q)
    BY <2>1 DEF Saving
  <2>7. OneWriter'
    BY <1>0, <2>1, <2>2, <2>5, <2>6 DEF OneWriter, File
  <2> QED
    BY <2>3, <2>4, <2>7 DEF CredIInv
<1>11. ASSUME NEW p \in Processes, RenameTemp(p)
       PROVE  CredIInv'
  <2>1. /\ At(p) = "rename" /\ saved' = temp /\ Finishes(p, "bearer")
        /\ UNCHANGED <<temp, provider, consents, lost, shared>>
    BY <1>11 DEF RenameTemp
  <2>2. process' \in [Processes -> States] /\ OthersStay(p) /\ At(p)' = "bearer"
    BY <1>0, <2>1, Finishing DEF At, Results
  <2>3. CredTyped'
    BY <1>0, <2>1, <2>2 DEF CredTyped
  <2>4. /\ ~Saving(p)' /\ ~Unsaved(p)'
        /\ \A q \in Processes \ {p} : /\ Saving(q)' = Saving(q) /\ At(q)' = At(q)
                                      /\ Unsaved(q)' = Unsaved(q)
                                      /\ process'[q].tokens = process[q].tokens
    BY <2>2 DEF OthersStay, Saving, Unsaved, At, NoTokens
  <2>5. ~shared => temp = File(process[p].tokens) /\ ~saved'.torn /\ saved'.oauth = process[p].tokens
    BY <1>0, <2>1 DEF OneWriter, File
  <2>6. OneWriter'
    BY <1>0, <2>1, <2>2, <2>4, <2>5 DEF OneWriter, File
  <2>7. TokensWork'
    <3>1. process[p].tokens # NoTokens => Unsaved(p)
      BY <2>1 DEF Unsaved, Saving
    <3>2. \A t : (IF t.refresh = 0 THEN t.access \in provider'.bare ELSE t.refresh \in provider'.live)
                   <=> Work(t)
      BY <2>1 DEF Work
    <3>3. \A q \in Processes \ {p} : Work(process[q].tokens) => Work(process[q].tokens)'
      BY <2>4, <3>2 DEF Work
    <3>4. ~shared /\ Work(process[p].tokens) => Work(saved.oauth)'
      BY <2>5, <3>2 DEF Work
    <3> QED
      BY <1>0, <2>1, <2>4, <2>5, <3>1, <3>3, <3>4 DEF TokensWork, NoTokens
  <2> QED
    BY <2>3, <2>6, <2>7 DEF CredIInv
<1>12. ASSUME NEW p \in Processes, Ends(p)
       PROVE  CredIInv'
  <2>1. /\ Finishes(p, "rest") /\ lost' = (lost \/ Unsaved(p))
        /\ UNCHANGED <<saved, temp, provider, consents, shared>>
    BY <1>12 DEF Ends
  <2>2. process' \in [Processes -> States] /\ OthersStay(p) /\ At(p)' = "rest"
    BY <1>0, <2>1, Finishing DEF At, Results
  <2>3. CredTyped'
    BY <1>0, <2>1, <2>2 DEF CredTyped, Unsaved, Saving
  <2>4. /\ ~Saving(p)' /\ ~Unsaved(p)'
        /\ \A q \in Processes \ {p} : /\ Saving(q)' = Saving(q) /\ At(q)' = At(q)
                                      /\ Unsaved(q)' = Unsaved(q)
                                      /\ process'[q].tokens = process[q].tokens
    BY <2>2 DEF OthersStay, Saving, Unsaved, At, NoTokens
  <2>5. OneWriter'
    BY <1>0, <2>1, <2>2, <2>4 DEF OneWriter, File
  <2>6. TokensWork'
    <3>1. \A q \in Processes \ {p} : Work(process[q].tokens) => Work(process[q].tokens)'
      BY <2>1, <2>4 DEF Work
    <3>2. Work(saved.oauth) => Work(saved.oauth)'
      BY <2>1 DEF Work
    <3>3. ~lost' => ~lost /\ ~Unsaved(p)
      BY <2>1
    <3> QED
      BY <1>0, <2>1, <2>4, <3>1, <3>2, <3>3 DEF TokensWork, NoTokens
  <2> QED
    BY <2>3, <2>5, <2>6 DEF CredIInv
<1>13. CASE NobodyListens
  BY <1>0, <1>13 DEF NobodyListens, CredIInv, CredTyped, OneWriter, TokensWork, At, Saving, Unsaved, Work, File,
     NoTokens
<1>14. CASE Expires
  <2>1. PICK g \in (1 .. provider.granted) \ provider.expired :
          provider' = [provider EXCEPT !.expired = @ \cup {g}]
    BY <1>14 DEF Expires
  <2>2. g \in 0 .. MaxGrants
    BY <1>0, <2>1, CredentialsAssumption DEF CredTyped, Providers
  <2>3. /\ provider' \in Providers /\ provider'.live = provider.live
        /\ provider'.bare = provider.bare /\ provider'.granted = provider.granted
    BY <1>0, <2>1, <2>2 DEF CredTyped, Providers
  <2>4. CredTyped'
    BY <1>0, <1>14, <2>3 DEF Expires, CredTyped
  <2> QED
    BY <1>0, <1>14, <2>3, <2>4 DEF Expires, CredIInv, OneWriter, TokensWork, At, Saving, Unsaved, Work,
       File, NoTokens
<1>15. CASE UNCHANGED credVars
  BY <1>0, <1>15 DEF credVars, CredIInv, CredTyped, OneWriter, TokensWork, At, Saving, Unsaved, Work, File,
     NoTokens
<1> QED
  BY <1>1, <1>2, <1>3, <1>4, <1>5, <1>6, <1>7, <1>8, <1>9, <1>10, <1>11, <1>12, <1>13, <1>14,
     <1>15 DEF CredNext

LEMMA CredIInvHolds == CredSpec => []CredIInv
<1>1. QED
  BY CredIInvInit, CredIInvStep, PTL DEF CredSpec

(* Unless two processes saved at once, credentials.json is whole; and its  *)
(* refresh token, if no tokens were lost or are on their way, is one that  *)
(* the provider takes (refresh_oauth_token keeps the old one only when it  *)
(* got no new one).                                                        *)
THEOREM SavedTokensAreUsable == CredSpec => []SavedTokensWork
<1>1. CredIInv => SavedTokensWork
  BY DEF CredIInv, OneWriter, TokensWork, Work, SavedTokensWork
<1>2. QED
  BY <1>1, CredIInvHolds, PTL

(* What the run checks of the credentials, for any processes and grants.   *)
THEOREM CredentialsAreSound == CredSpec => []CredentialsInv
<1>1. CredIInv => CredTypeOK
  BY DEF CredIInv, CredTyped, Files, Providers, States, CredTypeOK
<1>2. QED
  BY <1>1, CredIInvHolds, SavedTokensAreUsable, PTL DEF CredentialsInv

-----------------------------------------------------------------------------
(* The choice.  What the run's invariant rests on: a name is resolved to   *)
(* the end when a provider is looked for, ...                              *)
ModelNames == Spellings \cup ClawModels \cup {"grok-3", "grok-3-mini"}
ProviderNames == {"ClawApi", "OpenAi", "Xai"}

ChoiceTyped ==
  /\ caller \in {"cli", "agent"} /\ environment \in [Keys -> Values] /\ tokens \in SavedTokens
  /\ model \in [name : ModelNames, lower : BOOLEAN]
  /\ choosing \in {"resolve", "detect", "construct", "made", "refused"}
  /\ chosen \in ProviderNames \cup {"nobody"}
  /\ choosing \in {"construct", "made", "refused"} <=> chosen # "nobody"
  /\ changes \in Nat

NamesAreResolved ==
  choosing # "resolve" =>
    IF caller = "cli" THEN ResolveInCli(model) = model ELSE ResolveModelAlias(model) = model

(* ... a provider is the one of its name or one whose credentials are      *)
(* there, as far as its variables say, which stay, ...                     *)
ChosenForAReason ==
  caller = "agent" /\ chosen # "nobody" =>
    IF Family(model) # "nobody" THEN chosen = Family(model)
    ELSE \/ chosen = "OpenAi" /\ Holds("OPENAI_API_KEY")
         \/ chosen = "Xai" /\ Holds("XAI_API_KEY")
         \/ chosen = "ClawApi"
            /\ (changes > 0 \/ HasAuth \/ (~Holds("OPENAI_API_KEY") /\ ~Holds("XAI_API_KEY")))

(* ... and what is carried is what its variables and the tokens held.      *)
CarriedIsHeld ==
  /\ choosing = "made" =>
       auth = AuthOf(chosen) /\ auth \notin Errors
  /\ choosing = "refused" => AuthOf(chosen) \in Errors \/ caller = "cli"

ChoiceIInv == ChoiceTyped /\ NamesAreResolved /\ ChosenForAReason /\ CarriedIsHeld

LEMMA ChoiceIInvInit == ChoiceInit => ChoiceIInv
<1> SUFFICES ASSUME ChoiceInit PROVE ChoiceIInv
  OBVIOUS
<1>1. model \in [name : ModelNames, lower : BOOLEAN]
  BY DEF ChoiceInit, ModelNames
<1>2. choosing = "resolve" /\ chosen = "nobody" /\ changes = 0
  BY DEF ChoiceInit
<1>3. ChoiceTyped
  BY <1>1, <1>2 DEF ChoiceInit, ChoiceTyped, ProviderNames
<1> QED
  BY <1>2, <1>3 DEF ChoiceIInv, NamesAreResolved, ChosenForAReason, CarriedIsHeld

(* An alias stands for a name that is no alias.                            *)
LEMMA AliasesAreNames ==
  ASSUME NEW name \in ModelNames
  PROVE  /\ ClawAlias(name) \in ModelNames /\ ClawAlias(ClawAlias(name)) = ClawAlias(name)
         /\ ClawAlias(name) \notin {"opus", "sonnet", "haiku"}
         /\ GrokAlias(name) \in ModelNames /\ GrokAlias(GrokAlias(name)) = GrokAlias(name)
BY DEF ClawAlias, GrokAlias, ModelNames, ClawModels

LEMMA CliNamesResolve ==
  ASSUME NEW m \in [name : ModelNames, lower : BOOLEAN]
  PROVE  /\ ResolveInCli(m) \in [name : ModelNames, lower : BOOLEAN]
         /\ ResolveInCli(ResolveInCli(m)) = ResolveInCli(m)
<1>1. CASE m.lower
  <2> DEFINE r == [m EXCEPT !.name = ClawAlias(@)]
  <2>1. /\ r \in [name : ModelNames, lower : BOOLEAN] /\ r.lower = m.lower /\ r.name = ClawAlias(m.name)
    BY AliasesAreNames
  <2>2. ResolveInCli(m) = r
    BY <1>1 DEF ResolveInCli
  <2> HIDE DEF r
  <2>3. ClawAlias(r.name) = r.name
    BY <2>1, AliasesAreNames
  <2>4. [r EXCEPT !.name = ClawAlias(@)] = r
    BY <2>1, <2>3
  <2> QED
    BY <1>1, <2>1, <2>2, <2>4 DEF ResolveInCli
<1>2. CASE ~m.lower
  BY <1>2 DEF ResolveInCli
<1> QED
  BY <1>1, <1>2

LEMMA AgentNamesResolve ==
  ASSUME NEW m \in [name : ModelNames, lower : BOOLEAN]
  PROVE  /\ ResolveModelAlias(m) \in [name : ModelNames, lower : BOOLEAN]
         /\ ResolveModelAlias(ResolveModelAlias(m)) = ResolveModelAlias(m)
<1> DEFINE r == ResolveModelAlias(m)
<1>1. Registry.Xai = {"grok", "grok-3", "grok-mini", "grok-3-mini", "grok-2"}
  BY DEF Registry
<1>2. CASE m.name \in {"opus", "sonnet", "haiku"}
  <2>1. r = [name |-> ClawAlias(m.name), lower |-> TRUE]
    BY <1>1, <1>2 DEF ResolveModelAlias
  <2>2. ClawAlias(m.name) \in ClawModels
    BY <1>2 DEF ClawAlias, ClawModels
  <2>3. /\ r.name \notin {"opus", "sonnet", "haiku"} \cup Registry.Xai
        /\ r \in [name : ModelNames, lower : BOOLEAN]
    BY <1>1, <2>1, <2>2 DEF ClawModels, ModelNames
  <2> HIDE DEF r
  <2>4. ResolveModelAlias(r) = r
    BY <2>3 DEF ResolveModelAlias
  <2> QED
    BY <2>3, <2>4 DEF r
<1>3. CASE m.name \in Registry.Xai
  <2>1. r = [name |-> GrokAlias(m.name), lower |-> TRUE]
    BY <1>1, <1>3 DEF ResolveModelAlias
  <2>2. GrokAlias(m.name) \in {"grok-3", "grok-3-mini", "grok-2"} /\ GrokAlias(m.name) \in ModelNames
    BY <1>1, <1>3, AliasesAreNames DEF GrokAlias
  <2>3. /\ r.name \in {"grok-3", "grok-3-mini", "grok-2"} /\ r \in [name : ModelNames, lower : BOOLEAN]
        /\ r = [name |-> r.name, lower |-> TRUE]
    BY <2>1, <2>2
  <2> HIDE DEF r
  <2>4. r.name \in Registry.Xai /\ r.name \notin {"opus", "sonnet", "haiku"} /\ GrokAlias(r.name) = r.name
    BY <1>1, <2>3 DEF GrokAlias
  <2>5. ResolveModelAlias(r) = r
    BY <2>3, <2>4 DEF ResolveModelAlias
  <2> QED
    BY <2>3, <2>5 DEF r
<1>4. CASE m.name \notin {"opus", "sonnet", "haiku"} \cup Registry.Xai
  <2>1. r = m
    BY <1>4 DEF ResolveModelAlias
  <2> QED
    BY <2>1
<1> QED
  BY <1>2, <1>3, <1>4

(* What the environment and the tokens make: saved tokens serve only where *)
(* the environment has none, and of an error one of them is the reason.    *)
LEMMA ClawCredentials ==
  ASSUME tokens \in SavedTokens
  PROVE  /\ FromEnvOrSaved \in {"invalid", "both", "key", "token", "unreadable", "stale", "expired", "saved",
                               "missing"}
         /\ FromEnvOrSaved = "stale" => tokens = "refreshable"
         /\ FromEnvOrSaved \in {"saved", "stale"} => ~Holds(ApiKey) /\ ~Holds(AuthToken)
         /\ FromEnvOrSaved \in Errors /\ HasAuth =>
              tokens \in {"expired", "refreshable"} \/ (Holds(ApiKey) /\ Fails(AuthToken))
         /\ ~HasAuth => FromEnvOrSaved \in Errors
<1>1. /\ tokens = "unreadable" => FromSaved = "unreadable"
      /\ tokens = "refreshable" => FromSaved = "stale"
      /\ tokens = "expired" => FromSaved = "expired"
      /\ tokens = "valid" => FromSaved = "saved"
      /\ tokens = "none" => FromSaved = "missing"
  BY DEF FromSaved
<1>2. tokens \in {"unreadable", "refreshable", "expired", "valid", "none"}
  BY DEF SavedTokens
<1>3. /\ Fails(ApiKey) => ~Holds(ApiKey)
      /\ Fails(AuthToken) => ~Holds(AuthToken)
  BY DEF Holds, Fails
<1> QED
  BY <1>1, <1>2, <1>3 DEF FromEnvOrSaved, HasAuth, Errors

LEMMA CompatCredentials ==
  ASSUME NEW key
  PROVE  CompatAuth(key) \in Errors <=> ~Holds(key)
BY DEF CompatAuth, Errors, Holds, Fails

(* What a provider is given depends on the environment, the tokens and the *)
(* caller alone.                                                           *)
LEMMA ProvidersAuth ==
  /\ AuthOf("Xai") = CompatAuth("XAI_API_KEY")
  /\ AuthOf("OpenAi") = CompatAuth("OPENAI_API_KEY")
  /\ AuthOf("ClawApi") = IF caller = "cli" THEN StartupAuth ELSE FromEnvOrSaved
BY DEF AuthOf

LEMMA ChoiceIInvStep == ChoiceIInv /\ [ChoiceNext]_choiceVars => ChoiceIInv'
<1> SUFFICES ASSUME ChoiceIInv, [ChoiceNext]_choiceVars PROVE ChoiceIInv'
  OBVIOUS
<1>1. ChoiceTyped /\ NamesAreResolved /\ ChosenForAReason /\ CarriedIsHeld
  BY DEF ChoiceIInv
<1>2. CASE Resolve
  <2>1. /\ choosing = "resolve" /\ choosing' = "detect" /\ caller' = caller /\ environment' = environment
        /\ tokens' = tokens /\ chosen' = chosen /\ changes' = changes
        /\ model' = IF caller = "cli" THEN ResolveInCli(model) ELSE ResolveModelAlias(model)
    BY <1>2 DEF Resolve
  <2>2. chosen = "nobody"
    BY <1>1, <2>1 DEF ChoiceTyped, ProviderNames
  <2>3. /\ model' \in [name : ModelNames, lower : BOOLEAN]
        /\ IF caller = "cli" THEN ResolveInCli(model') = model' ELSE ResolveModelAlias(model') = model'
    BY <1>1, <2>1, CliNamesResolve, AgentNamesResolve DEF ChoiceTyped
  <2>4. ChoiceTyped'
    BY <1>1, <2>1, <2>2, <2>3 DEF ChoiceTyped
  <2>5. NamesAreResolved' /\ ChosenForAReason' /\ CarriedIsHeld'
    BY <2>1, <2>2, <2>3 DEF NamesAreResolved, ChosenForAReason, CarriedIsHeld
  <2> QED
    BY <2>4, <2>5 DEF ChoiceIInv
<1>3. CASE Detect
  <2>1. /\ choosing = "detect" /\ choosing' = "construct" /\ caller' = caller /\ environment' = environment
        /\ tokens' = tokens /\ model' = model /\ changes' = changes
        /\ chosen' = IF caller = "cli" THEN "ClawApi" ELSE DetectProviderKind
    BY <1>3 DEF Detect
  <2>2. Family(model) \in {"ClawApi", "Xai", "nobody"}
    BY DEF Family
  <2>3. DetectProviderKind \in ProviderNames
    BY <2>2 DEF DetectProviderKind, ProviderNames
  <2>4. ChoiceTyped' /\ NamesAreResolved'
    BY <1>1, <2>1, <2>3 DEF ChoiceTyped, NamesAreResolved, ProviderNames
  <2>5. caller = "agent" =>
          IF Family(model) # "nobody" THEN chosen' = Family(model)
          ELSE \/ chosen' = "OpenAi" /\ Holds("OPENAI_API_KEY")
               \/ chosen' = "Xai" /\ Holds("XAI_API_KEY")
               \/ chosen' = "ClawApi" /\ (HasAuth \/ (~Holds("OPENAI_API_KEY") /\ ~Holds("XAI_API_KEY")))
    BY <2>1 DEF DetectProviderKind
  <2>6. ChosenForAReason'
    BY <2>1, <2>5 DEF ChosenForAReason, Family, Holds, HasAuth, Fails
  <2>7. CarriedIsHeld'
    BY <2>1 DEF CarriedIsHeld
  <2> QED
    BY <2>4, <2>6, <2>7 DEF ChoiceIInv
<1>4. CASE Construct
  <2>1. /\ choosing = "construct" /\ caller' = caller /\ environment' = environment /\ tokens' = tokens
        /\ model' = model /\ changes' = changes /\ chosen' = chosen
        /\ auth' = AuthOf(chosen) \/ (auth' = "stale" /\ AuthOf(chosen) = "refreshed")
        /\ choosing' = IF auth' \in Errors THEN "refused" ELSE "made"
    BY <1>4 DEF Construct
  <2>2. ChoiceTyped' /\ NamesAreResolved'
    BY <1>1, <2>1 DEF ChoiceTyped, NamesAreResolved
  <2>3. ChosenForAReason'
    BY <1>1, <2>1 DEF ChosenForAReason, Family, Holds, HasAuth, Fails
  <2>4. AuthOf(chosen)' = AuthOf(chosen)
    BY <2>1 DEF AuthOf, CompatAuth, Holds, Fails, StartupAuth, FromEnvOrSaved, FromSaved
  <2>5. AuthOf(chosen) = "refreshed" => caller = "cli"
    <3>1. CompatAuth("XAI_API_KEY") # "refreshed" /\ CompatAuth("OPENAI_API_KEY") # "refreshed"
      BY DEF CompatAuth
    <3>2. FromEnvOrSaved # "refreshed"
      BY <1>1, ClawCredentials DEF ChoiceTyped
    <3> QED
      BY <3>1, <3>2 DEF AuthOf
  <2>6. "stale" \in Errors
    BY DEF Errors
  <2>7. CarriedIsHeld'
    BY <2>1, <2>4, <2>5, <2>6 DEF CarriedIsHeld
  <2> QED
    BY <2>2, <2>3, <2>7 DEF ChoiceIInv
<1>5. CASE TokensChange
  <2>1. /\ choosing \in {"detect", "construct"} /\ choosing' = choosing /\ caller' = caller
        /\ environment' = environment /\ model' = model /\ chosen' = chosen /\ tokens' \in SavedTokens
        /\ changes' = changes + 1 /\ changes \in Nat
    BY <1>1, <1>5 DEF TokensChange, ChoiceTyped
  <2>2. changes' \in Nat /\ changes' > 0
    BY <2>1
  <2>3. ChoiceTyped' /\ NamesAreResolved' /\ CarriedIsHeld'
    BY <1>1, <2>1, <2>2 DEF ChoiceTyped, NamesAreResolved, CarriedIsHeld
  <2>4. ChosenForAReason'
    BY <1>1, <2>1, <2>2 DEF ChosenForAReason, Family, Holds
  <2> QED
    BY <2>3, <2>4 DEF ChoiceIInv
<1>6. CASE UNCHANGED choiceVars
  <2>1. /\ choosing' = choosing /\ caller' = caller /\ environment' = environment /\ model' = model
        /\ chosen' = chosen /\ tokens' = tokens /\ changes' = changes /\ auth' = auth
    BY <1>6 DEF choiceVars
  <2>2. AuthOf(chosen)' = AuthOf(chosen)
    BY <2>1 DEF AuthOf, CompatAuth, Holds, Fails, StartupAuth, FromEnvOrSaved, FromSaved
  <2>3. ChoiceTyped' /\ NamesAreResolved' /\ CarriedIsHeld'
    BY <1>1, <2>1, <2>2 DEF ChoiceTyped, NamesAreResolved, CarriedIsHeld
  <2>4. ChosenForAReason'
    BY <1>1, <2>1 DEF ChosenForAReason, Family, Holds, HasAuth, Fails
  <2> QED
    BY <2>3, <2>4 DEF ChoiceIInv
<1> QED
  BY <1>2, <1>3, <1>4, <1>5, <1>6 DEF ChoiceNext

(* What the run checks of the choice of a provider, for any names, values  *)
(* of the variables and number of changes of the tokens: a name decides    *)
(* where it says whose it is, a sub-agent is refused for want of any       *)
(* credentials or for what Claw's are worth, and the session and its       *)
(* sub-agents ask Claw with the same ones.                                 *)
THEOREM ProvidersAreChosenForAReason == ChoiceSpec => []ChoiceInv
<1>1. ChoiceIInv => ChoiceInv
  <2> SUFFICES ASSUME ChoiceIInv PROVE ChoiceInv
    OBVIOUS
  <2>1. NamesDecide
    BY DEF ChoiceIInv, NamesAreResolved, ChosenForAReason, NamesDecide
  <2>2. RefusedForAReason
    <3> SUFFICES ASSUME choosing = "refused", caller = "agent", Family(model) = "nobody"
                 PROVE  \/ \A p \in {"ClawApi", "OpenAi", "Xai"} : ~Works(p)
                        \/ /\ chosen = "ClawApi"
                           /\ \/ changes > 0 \/ tokens \in {"expired", "refreshable"}
                              \/ Holds(ApiKey) /\ Fails(AuthToken)
      BY DEF RefusedForAReason
    <3>1. AuthOf(chosen) \in Errors /\ tokens \in SavedTokens /\ chosen # "nobody"
      BY DEF ChoiceIInv, CarriedIsHeld, ChoiceTyped
    <3>2. \/ chosen = "OpenAi" /\ Holds("OPENAI_API_KEY")
          \/ chosen = "Xai" /\ Holds("XAI_API_KEY")
          \/ chosen = "ClawApi"
             /\ (changes > 0 \/ HasAuth \/ (~Holds("OPENAI_API_KEY") /\ ~Holds("XAI_API_KEY")))
      BY <3>1 DEF ChoiceIInv, ChosenForAReason
    <3>3. chosen = "ClawApi"
      BY <3>1, <3>2, CompatCredentials, ProvidersAuth
    <3>4. FromEnvOrSaved \in Errors
      BY <3>1, <3>3, ProvidersAuth
    <3>5. CASE HasAuth
      BY <3>1, <3>3, <3>4, <3>5, ClawCredentials
    <3>6. CASE ~Holds("OPENAI_API_KEY") /\ ~Holds("XAI_API_KEY")
      BY <3>4, <3>6, CompatCredentials, ProvidersAuth DEF Works
    <3> QED
      BY <3>2, <3>3, <3>5, <3>6
  <2>3. SameCredentials
    <3> SUFFICES ASSUME choosing = "made", chosen = "ClawApi"
                 PROVE  /\ auth = FromEnvOrSaved \/ (caller = "cli" /\ auth = "refreshed" /\ tokens = "refreshable")
                        /\ auth \in {"saved", "refreshed"} => ~Holds(ApiKey) /\ ~Holds(AuthToken)
      BY DEF SameCredentials
    <3>1. auth = IF caller = "cli" THEN StartupAuth ELSE FromEnvOrSaved
      BY ProvidersAuth DEF ChoiceIInv, CarriedIsHeld
    <3>2. tokens \in SavedTokens
      BY DEF ChoiceIInv, ChoiceTyped
    <3> QED
      BY <3>1, <3>2, ClawCredentials DEF StartupAuth
  <2> QED
    BY <2>1, <2>2, <2>3 DEF ChoiceInv
<1>2. ChoiceIInv /\ [ChoiceNext]_choiceVars => ChoiceIInv'
  BY ChoiceIInvStep
<1>3. QED
  BY <1>1, <1>2, ChoiceIInvInit, PTL DEF ChoiceSpec

-----------------------------------------------------------------------------
(* The calls.  What the run's invariant rests on: the delay before the     *)
(* k-th retry, and how many there were, ...                                *)
DelayBefore(k) ==
  IF client \in Rust THEN LesserOf(FirstDelay * Power(k - 1), MaxDelay) ELSE FirstDelay * Power(k - 1)
Delays ==
  {LesserOf(FirstDelay * Power(k - 1), MaxDelay) : k \in Nat} \cup {FirstDelay * Power(k - 1) : k \in Nat}

CallTyped ==
  /\ client \in Clients /\ limit \in Nat
  /\ at \in {"send", "wait", "stream", "done", "error", "exhausted", "overflow"}
  /\ attempts \in Nat /\ lastError \in 0 .. attempts
  /\ answers \in Seq(Outcomes) /\ Len(answers) = attempts
  /\ slept \in Seq(Delays) /\ Len(slept) = IF at = "send" THEN attempts ELSE attempts - 1
  /\ passedOn \in Seq(Nat)

(* ... how many attempts there may have been, with the width of the        *)
(* multiplier as a limit of its own, ...                                   *)
AttemptsAreLimited ==
  /\ attempts <= limit + 1 /\ (at \in {"send", "wait"} => attempts <= limit)
  /\ at # "send" => attempts > 0
  /\ client \in Rust => attempts <= Width + 1 /\ (at = "send" => attempts <= Width)

(* ... what each attempt came to, ...                                      *)
AnswersAllowIt ==
  /\ \A a \in 1 .. attempts :
       a < attempts \/ at \in {"send", "wait", "exhausted", "overflow"} => MayRetry(answers[a])
  /\ at = "exhausted" => attempts = limit + 1 /\ lastError = attempts
  /\ at = "error" => ~MayRetry(answers[attempts]) \/ client = "tony-stream"
  /\ at = "overflow" => limit > Width /\ attempts = Width + 1

DelaysAreTheirOwn == \A k \in 1 .. Len(slept) : slept[k] = DelayBefore(k)

(* ... and where the parts that were passed on are from.                   *)
PartsAreKnown ==
  /\ at = "stream" \/ passedOn # <<>> => client = "tony-stream"
  /\ \A k \in DOMAIN passedOn :
       /\ passedOn[k] \in 1 .. attempts
       /\ passedOn[k] < attempts \/ at \in {"send", "wait", "exhausted"} => answers[passedOn[k]] = "timeout"

CallIInv ==
  CallTyped /\ AttemptsAreLimited /\ AnswersAllowIt /\ DelaysAreTheirOwn /\ PartsAreKnown

LEMMA CallIInvInit == CallInit => CallIInv
<1> SUFFICES ASSUME CallInit PROVE CallIInv
  OBVIOUS
<1> USE ProviderCallsAssumption
<1>1. /\ client \in Clients /\ at = "send" /\ attempts = 0 /\ lastError = 0
      /\ answers = <<>> /\ slept = <<>> /\ passedOn = <<>>
  BY DEF CallInit
<1>2. limit \in Nat
  BY DEF CallInit
<1>3. /\ answers \in Seq(Outcomes) /\ slept \in Seq(Delays) /\ passedOn \in Seq(Nat)
      /\ Len(answers) = 0 /\ Len(slept) = 0 /\ DOMAIN passedOn = {}
  BY <1>1, EmptySeq
<1>4. CallTyped
  BY <1>1, <1>2, <1>3 DEF CallTyped
<1>5. AttemptsAreLimited /\ AnswersAllowIt
  BY <1>1, <1>2 DEF AttemptsAreLimited, AnswersAllowIt
<1>6. DelaysAreTheirOwn /\ PartsAreKnown
  BY <1>1, <1>3 DEF DelaysAreTheirOwn, PartsAreKnown
<1> QED
  BY <1>4, <1>5, <1>6 DEF CallIInv

LEMMA DelaysAreDelays == ASSUME NEW k \in Nat PROVE DelayBefore(k) \in Delays
BY DEF DelayBefore, Delays

LEMMA CallIInvStep == CallIInv /\ [CallNext]_callVars => CallIInv'
<1> SUFFICES ASSUME CallIInv, [CallNext]_callVars PROVE CallIInv'
  OBVIOUS
<1>0. attempts \in Nat /\ limit \in Nat /\ Width \in Nat \ {0}
  BY ProviderCallsAssumption DEF CallIInv, CallTyped
<1>1. /\ client \in Clients /\ limit \in Nat /\ attempts \in Nat /\ lastError \in 0 .. attempts
      /\ at \in {"send", "wait", "stream", "done", "error", "exhausted", "overflow"}
      /\ answers \in Seq(Outcomes) /\ Len(answers) = attempts /\ DOMAIN answers = 1 .. attempts
      /\ slept \in Seq(Delays) /\ passedOn \in Seq(Nat) /\ Len(passedOn) \in Nat
      /\ DOMAIN passedOn = 1 .. Len(passedOn)
  BY LenProperties DEF CallIInv, CallTyped
<1>2. /\ Len(slept) = IF at = "send" THEN attempts ELSE attempts - 1
      /\ AttemptsAreLimited /\ AnswersAllowIt /\ DelaysAreTheirOwn /\ PartsAreKnown
  BY DEF CallIInv, CallTyped
<1>3. CASE Attempt
  <2>1. PICK outcome \in Outcomes :
          /\ answers' = Append(answers, outcome)
          /\ \/ /\ outcome = "success" /\ lastError' = lastError
                /\ at' = IF client = "tony-stream" THEN "stream" ELSE "done"
             \/ outcome # "success" /\ ~MayRetry(outcome) /\ at' = "error" /\ lastError' = lastError
             \/ /\ MayRetry(outcome)
                /\ lastError' = attempts'
                /\ at' = IF attempts' > limit THEN "exhausted" ELSE "wait"
    BY <1>3 DEF Attempt, GivesUp
  <2>2. /\ at = "send" /\ attempts' = attempts + 1 /\ client' = client /\ limit' = limit
        /\ slept' = slept /\ passedOn' = passedOn
    BY <1>3 DEF Attempt
  <2>3. /\ answers' \in Seq(Outcomes) /\ Len(answers') = attempts + 1 /\ answers'[attempts + 1] = outcome
        /\ \A a \in 1 .. attempts : answers'[a] = answers[a]
    <3>1. answers' = Append(answers, outcome) /\ answers \in Seq(Outcomes) /\ Len(answers) = attempts
      BY <1>1, <2>1
    <3> QED
      BY <3>1, AppendProperties
  <2>4. at' \in {"stream", "done", "error", "exhausted", "wait"}
    BY <2>1
  <2>5. CallTyped'
    <3>1. lastError' \in 0 .. attempts + 1
      BY <1>0, <1>1, <2>1, <2>2
    <3>2. Len(slept) = attempts
      BY <1>2, <2>2
    <3> QED
      BY <1>0, <1>1, <2>2, <2>3, <2>4, <3>1, <3>2 DEF CallTyped
  <2>6. AttemptsAreLimited'
    <3>1. at' = "wait" => attempts + 1 <= limit
      BY <1>0, <2>1, <2>2
    <3> QED
      BY <1>0, <1>2, <2>2, <2>4, <3>1 DEF AttemptsAreLimited
  <2>9. AnswersAllowIt'
    <3>1. \A a \in 1 .. attempts : MayRetry(answers'[a])
      BY <1>2, <2>2, <2>3 DEF AnswersAllowIt
    <3>2. at' \in {"wait", "exhausted"} => MayRetry(outcome)
      BY <2>1
    <3>3. at' = "error" => ~MayRetry(outcome)
      BY <2>1
    <3>4. at' = "exhausted" => attempts + 1 > limit /\ lastError' = attempts + 1
      BY <2>1, <2>2
    <3>5. attempts <= limit
      BY <1>2, <2>2 DEF AttemptsAreLimited
    <3>6. \A a \in 1 .. attempts + 1 :
            a < attempts + 1 \/ at' \in {"send", "wait", "exhausted", "overflow"} => MayRetry(answers'[a])
      <4> SUFFICES ASSUME NEW a \in 1 .. attempts + 1,
                          a < attempts + 1 \/ at' \in {"send", "wait", "exhausted", "overflow"}
                   PROVE  MayRetry(answers'[a])
        OBVIOUS
      <4>1. CASE a = attempts + 1
        BY <2>3, <2>4, <3>2, <4>1
      <4>2. CASE a # attempts + 1
        <5>1. a \in 1 .. attempts
          BY <1>0, <4>2
        <5> QED
          BY <3>1, <5>1
      <4> QED
        BY <4>1, <4>2
    <3>7. \A a \in 1 .. attempts + 1 :
            a < attempts + 1 \/ at' \in {"send", "wait", "exhausted", "overflow"} => MayRetry(answers[a])'
      BY <2>2, <3>6 DEF MayRetry
    <3>8. at' = "error" => ~MayRetry(answers[attempts])'
      BY <2>2, <2>3, <3>3 DEF MayRetry
    <3> QED
      BY <1>0, <2>2, <2>4, <3>4, <3>5, <3>7, <3>8 DEF AnswersAllowIt
  <2>10. DelaysAreTheirOwn'
    BY <1>2, <2>2 DEF DelaysAreTheirOwn, DelayBefore
  <2>11. PartsAreKnown'
    <3>1. \A k \in DOMAIN passedOn :
            passedOn[k] \in 1 .. attempts /\ answers'[passedOn[k]] = "timeout"
      BY <1>2, <2>2, <2>3 DEF PartsAreKnown
    <3>2. \A k \in DOMAIN passedOn : passedOn[k] \in 1 .. attempts + 1
      BY <1>0, <3>1
    <3>3. at' = "stream" \/ passedOn # <<>> => client = "tony-stream"
      BY <1>2, <2>1 DEF PartsAreKnown
    <3> QED
      BY <2>2, <3>1, <3>2, <3>3 DEF PartsAreKnown
  <2> QED
    BY <2>5, <2>6, <2>9, <2>10, <2>11 DEF CallIInv
<1>4. CASE Sleep
  <2>1. /\ at = "wait" /\ client' = client /\ limit' = limit /\ attempts' = attempts
        /\ lastError' = lastError /\ answers' = answers /\ passedOn' = passedOn
        /\ \/ client \in Rust /\ attempts - 1 >= Width /\ at' = "overflow" /\ slept' = slept
           \/ ~(client \in Rust /\ attempts - 1 >= Width) /\ at' = "send" /\ slept' = Append(slept, Delay)
    BY <1>4 DEF Sleep
  <2>2. attempts > 0 /\ attempts <= limit /\ Len(slept) = attempts - 1
    BY <1>2, <2>1 DEF AttemptsAreLimited
  <2>3. Delay = DelayBefore(attempts)
    BY <1>1, <2>2 DEF Delay, DelayBefore
  <2>4. at' = "send" =>
          /\ slept' \in Seq(Delays) /\ Len(slept') = attempts /\ slept'[attempts] = DelayBefore(attempts)
          /\ \A k \in 1 .. attempts - 1 : slept'[k] = slept[k]
    <3>1. slept \in Seq(Delays) /\ Len(slept) = attempts - 1 /\ DelayBefore(attempts) \in Delays
      BY <1>0, <1>1, <2>2, DelaysAreDelays
    <3>2. at' = "send" => slept' = Append(slept, DelayBefore(attempts))
      BY <2>1, <2>3
    <3> QED
      BY <1>0, <3>1, <3>2, AppendProperties
  <2>10. at' \in {"send", "overflow"} /\ (at' # "send" => slept' = slept)
    BY <2>1
  <2>5. CallTyped'
    BY <1>0, <1>1, <2>1, <2>2, <2>4, <2>10 DEF CallTyped
  <2>6. AttemptsAreLimited'
    <3>1. at' = "send" /\ client \in Rust => attempts <= Width
      BY <1>0, <2>1
    <3> QED
      BY <1>0, <1>2, <2>1, <2>2, <2>10, <3>1 DEF AttemptsAreLimited
  <2>7. AnswersAllowIt'
    <3>1. \A a \in 1 .. attempts : MayRetry(answers[a])
      BY <1>2, <2>1 DEF AnswersAllowIt
    <3>2. \A a \in 1 .. attempts : MayRetry(answers[a])'
      BY <2>1, <3>1 DEF MayRetry
    <3>3. at' = "overflow" => limit > Width /\ attempts = Width + 1
      BY <1>0, <1>2, <2>1, <2>2 DEF AttemptsAreLimited
    <3> QED
      BY <2>1, <2>10, <3>2, <3>3 DEF AnswersAllowIt
  <2>8. DelaysAreTheirOwn'
    <3>1. \A k : DelayBefore(k)' = DelayBefore(k)
      BY <2>1 DEF DelayBefore
    <3>2. CASE at' = "send"
      <4>1. \A k \in 1 .. attempts : slept'[k] = DelayBefore(k)
        <5> SUFFICES ASSUME NEW k \in 1 .. attempts PROVE slept'[k] = DelayBefore(k)
          OBVIOUS
        <5>1. k = attempts \/ k \in 1 .. attempts - 1
          BY <1>0
        <5> QED
          BY <1>2, <2>2, <2>4, <3>2, <5>1 DEF DelaysAreTheirOwn
      <4>2. Len(slept') = attempts
        BY <2>4, <3>2
      <4> QED
        BY <3>1, <4>1, <4>2 DEF DelaysAreTheirOwn
    <3>3. CASE at' # "send"
      BY <1>2, <2>10, <3>1, <3>3 DEF DelaysAreTheirOwn
    <3> QED
      BY <3>2, <3>3
  <2>9. PartsAreKnown'
    BY <1>1, <1>2, <2>1 DEF PartsAreKnown
  <2> QED
    BY <2>5, <2>6, <2>7, <2>8, <2>9 DEF CallIInv
<1>5. CASE Yield
  <2>1. /\ at = "stream" /\ at' = at /\ client' = client /\ limit' = limit /\ attempts' = attempts
        /\ lastError' = lastError /\ answers' = answers /\ slept' = slept
        /\ passedOn' = Append(passedOn, attempts) /\ attempts > 0
    BY <1>2, <1>5 DEF Yield, AttemptsAreLimited
  <2>2. /\ passedOn' \in Seq(Nat) /\ DOMAIN passedOn' = 1 .. Len(passedOn) + 1
        /\ passedOn'[Len(passedOn) + 1] = attempts
        /\ \A k \in 1 .. Len(passedOn) : passedOn'[k] = passedOn[k]
    BY <1>1, <2>1, AppendProperties
  <2>3. CallTyped' /\ AttemptsAreLimited'
    BY <1>1, <1>2, <2>1, <2>2 DEF CallTyped, AttemptsAreLimited
  <2>4. AnswersAllowIt' /\ DelaysAreTheirOwn'
    BY <1>2, <2>1 DEF AnswersAllowIt, DelaysAreTheirOwn, DelayBefore, MayRetry
  <2>5. PartsAreKnown'
    <3>1. ASSUME NEW k \in 1 .. Len(passedOn) + 1
          PROVE  /\ passedOn'[k] \in 1 .. attempts
                 /\ passedOn'[k] < attempts => answers[passedOn'[k]] = "timeout"
      <4>1. CASE k = Len(passedOn) + 1
        BY <1>0, <2>1, <2>2, <4>1
      <4>2. CASE k # Len(passedOn) + 1
        <5>1. k \in 1 .. Len(passedOn)
          BY <1>1, <4>2
        <5>2. k \in DOMAIN passedOn /\ passedOn'[k] = passedOn[k]
          BY <1>1, <2>2, <5>1
        <5> QED
          BY <1>2, <5>2 DEF PartsAreKnown
      <4> QED
        BY <4>1, <4>2
    <3>2. client = "tony-stream"
      BY <1>2, <2>1 DEF PartsAreKnown
    <3> QED
      BY <2>1, <2>2, <3>1, <3>2 DEF PartsAreKnown
  <2> QED
    BY <2>3, <2>4, <2>5 DEF CallIInv
<1>6. CASE StreamEnds
  <2>1. /\ at = "stream" /\ client' = client /\ limit' = limit /\ attempts' = attempts
        /\ slept' = slept /\ passedOn' = passedOn /\ attempts > 0 /\ client = "tony-stream"
    BY <1>2, <1>6 DEF StreamEnds, AttemptsAreLimited, PartsAreKnown
  <2>2. \/ at' \in {"done", "error"} /\ lastError' = lastError /\ answers' = answers
        \/ /\ answers' = [answers EXCEPT ![attempts] = "timeout"] /\ lastError' = attempts
           /\ at' = IF attempts > limit THEN "exhausted" ELSE "wait"
    BY <1>6 DEF StreamEnds
  <2>3. attempts \in 1 .. attempts /\ "timeout" \in Outcomes
    BY <1>1, <2>1 DEF Outcomes
  <2>4. /\ answers' \in Seq(Outcomes) /\ Len(answers') = attempts
        /\ \A a \in 1 .. attempts : a < attempts => answers'[a] = answers[a]
        /\ at' \in {"wait", "exhausted"} => answers'[attempts] = "timeout"
    <3>1. answers \in Seq(Outcomes) /\ Len(answers) = attempts
      BY <1>1
    <3>2. CASE answers' = answers /\ at' \in {"done", "error"}
      BY <3>1, <3>2
    <3>3. CASE answers' = [answers EXCEPT ![attempts] = "timeout"]
      BY <1>0, <2>3, <3>1, <3>3, ExceptSeq
    <3> QED
      BY <2>2, <3>2, <3>3
  <2>5. at' \in {"done", "error", "exhausted", "wait"}
    BY <2>2
  <2>6. CallTyped' /\ AttemptsAreLimited'
    <3>1. Len(slept) = attempts - 1 /\ lastError' \in 0 .. attempts
      BY <1>0, <1>1, <1>2, <2>1, <2>2
    <3>2. client \notin Rust /\ (at' = "wait" => attempts <= limit)
      BY <1>0, <2>1, <2>2 DEF Rust
    <3> QED
      BY <1>0, <1>1, <1>2, <2>1, <2>4, <2>5, <3>1, <3>2 DEF CallTyped, AttemptsAreLimited
  <2>7. AnswersAllowIt'
    <3>1. MayRetry("timeout")'
      BY DEF MayRetry
    <3>2. \A a \in 1 .. attempts : a < attempts => MayRetry(answers[a])'
      <4>1. \A a \in 1 .. attempts : a < attempts => MayRetry(answers[a]) /\ answers'[a] = answers[a]
        BY <1>2, <2>1, <2>4 DEF AnswersAllowIt
      <4> QED
        BY <2>1, <4>1 DEF MayRetry
    <3>3. at' = "exhausted" => attempts = limit + 1 /\ lastError' = attempts
      BY <1>0, <1>2, <2>1, <2>2 DEF AttemptsAreLimited
    <3>4. \A a \in 1 .. attempts :
            a < attempts \/ at' \in {"send", "wait", "exhausted", "overflow"} => MayRetry(answers[a])'
      <4> SUFFICES ASSUME NEW a \in 1 .. attempts,
                          a < attempts \/ at' \in {"send", "wait", "exhausted", "overflow"}
                   PROVE  MayRetry(answers[a])'
        OBVIOUS
      <4>1. a < attempts \/ a = attempts
        BY <1>0
      <4>2. CASE a < attempts
        BY <3>2, <4>2
      <4>3. CASE a = attempts /\ at' \in {"wait", "exhausted"}
        BY <2>4, <4>3 DEF MayRetry
      <4> QED
        BY <2>5, <4>1, <4>2, <4>3
    <3> QED
      BY <2>1, <2>5, <3>3, <3>4 DEF AnswersAllowIt
  <2>8. DelaysAreTheirOwn'
    BY <1>2, <2>1 DEF DelaysAreTheirOwn, DelayBefore
  <2>9. PartsAreKnown'
    <3>1. ASSUME NEW k \in DOMAIN passedOn
          PROVE  /\ passedOn[k] \in 1 .. attempts
                 /\ passedOn[k] < attempts \/ at' \in {"send", "wait", "exhausted"} => answers'[passedOn[k]] = "timeout"
      <4>1. passedOn[k] \in 1 .. attempts /\ (passedOn[k] < attempts => answers[passedOn[k]] = "timeout")
        BY <1>2, <2>1 DEF PartsAreKnown
      <4>2. CASE passedOn[k] < attempts
        BY <2>4, <4>1, <4>2
      <4>3. CASE ~(passedOn[k] < attempts)
        <5>1. passedOn[k] = attempts
          BY <1>0, <4>1, <4>3
        <5> QED
          BY <1>0, <2>4, <2>5, <4>1, <5>1
      <4> QED
        BY <4>2, <4>3
    <3> QED
      BY <2>1, <3>1 DEF PartsAreKnown
  <2> QED
    BY <2>6, <2>7, <2>8, <2>9 DEF CallIInv
<1>7. CASE UNCHANGED callVars
  BY <1>2, <1>7 DEF callVars, CallIInv, CallTyped, AttemptsAreLimited, AnswersAllowIt, DelaysAreTheirOwn,
     DelayBefore, PartsAreKnown, MayRetry
<1> QED
  BY <1>3, <1>4, <1>5, <1>6, <1>7 DEF CallNext

(* What the run checks of a call with its retries, for any limits and      *)
(* delays and any width of the multiplier: a retry has its reason and its  *)
(* own delay, max_retries is used up before a call is given up, a delay    *)
(* overflows only behind that many attempts, and of the parts a stream     *)
(* passed on only the Python client repeats any.                           *)
THEOREM RetriesAreDue == CallSpec => []CallInv
<1>1. CallIInv => CallInv
  <2> SUFFICES ASSUME CallIInv PROVE CallInv
    OBVIOUS
  <2> USE ProviderCallsAssumption
  <2>1. /\ attempts \in Nat /\ Len(slept) \in Nat /\ limit \in Nat
        /\ answers \in Seq(Outcomes) /\ DOMAIN answers = 1 .. attempts
        /\ at \in {"send", "wait", "stream", "done", "error", "exhausted", "overflow"}
        /\ Len(slept) = IF at = "send" THEN attempts ELSE attempts - 1
    BY LenProperties DEF CallIInv, CallTyped
  <2>2. CallTypeOK
    BY <2>1, ElementOfSeq DEF CallIInv, CallTyped, PartsAreKnown, CallTypeOK
  <2>3. RetriesAreEarned
    <3>1. \A a \in 1 .. attempts - 1 : MayRetry(answers[a])
      <4>1. \A a \in 1 .. attempts - 1 : a \in 1 .. attempts /\ a < attempts
        BY <2>1
      <4> QED
        BY <4>1 DEF CallIInv, AnswersAllowIt
    <3>2. \A k \in DOMAIN slept :
            slept[k] = IF client \in Rust THEN LesserOf(FirstDelay * Power(k - 1), MaxDelay)
                       ELSE FirstDelay * Power(k - 1)
      <4>1. DOMAIN slept = 1 .. Len(slept)
        BY DEF CallIInv, CallTyped
      <4>2. \A k \in DOMAIN slept : slept[k] = DelayBefore(k)
        BY <4>1 DEF CallIInv, DelaysAreTheirOwn
      <4> QED
        BY <4>2, Zenon DEF DelayBefore
    <3> QED
      BY <2>1, <3>1, <3>2 DEF CallIInv, AttemptsAreLimited, RetriesAreEarned
  <2>4. ExhaustedMeansAll
    <3>1. at = "exhausted" => attempts \in 1 .. attempts
      BY <2>1 DEF CallIInv, AttemptsAreLimited
    <3> QED
      BY <3>1 DEF CallIInv, AnswersAllowIt, ExhaustedMeansAll
  <2>5. PartsAreOfOneAttempt
    <3>1. \A k \in DOMAIN passedOn : passedOn # <<>>
      OBVIOUS
    <3> QED
      BY <3>1 DEF CallIInv, PartsAreKnown, PartsAreOfOneAttempt
  <2> QED
    BY <2>2, <2>3, <2>4, <2>5 DEF CallInv
<1>2. CallIInv /\ [CallNext]_callVars => CallIInv'
  BY CallIInvStep
<1>3. QED
  BY <1>1, <1>2, CallIInvInit, PTL DEF CallSpec

-----------------------------------------------------------------------------
(* A set of natural numbers that is not empty has a least element.         *)
LEMMA LeastExists ==
  ASSUME NEW T, T \subseteq Nat, T # {}
  PROVE  \E x \in T : \A y \in T : x <= y
<1> DEFINE R == OpToRel(<, Nat)
<1>1. IsWellFoundedOn(R, Nat)
  BY NatLessThanWellFounded
<1>2. \A x, y \in Nat : y < x => <<y, x>> \in R
  BY DEF OpToRel
<1> HIDE DEF R
<1>3. PICK x \in T : \A y \in T : <<y, x>> \notin R
  BY <1>1, WFMin
<1>4. \A y \in T : x \in Nat /\ y \in Nat /\ ~(y < x)
  BY <1>2, <1>3, Zenon
<1> QED
  BY <1>4

(* The sums of the parts of s, as the fold of Counted has them.            *)
Sums(it, s, S) == it = [t \in SUBSET S |-> IF t = {} THEN 0 ELSE it[t \ {Max(t)}] + s[Max(t)]]

(* What is counted is the sum of all.                                      *)
LEMMA CountedIsASum ==
  ASSUME NEW s
  PROVE  Counted(s) = (CHOOSE it : Sums(it, s, DOMAIN s))[DOMAIN s]
<1>1. Counted(s) = (CHOOSE it : it = [t \in SUBSET DOMAIN s |->
                      IF t = {} THEN 0 ELSE it[t \ {Max(t)}] + s[Max(t)]])[DOMAIN s]
  BY DEF Counted, FoldLeft, MapThenFoldSet
<1> QED
  BY <1>1 DEF Sums

(* An interval without its last number.                                    *)
LEMMA IntervalLast ==
  \A a \in Nat \ {0} : a - 1 \in Nat /\ a \in 1 .. a /\ (1 .. a) \ {a} = 1 .. (a - 1)
OBVIOUS

(* The last number of an interval is the greatest of a part that has it.   *)
LEMMA MaxOfInterval ==
  ASSUME NEW n \in Nat, NEW t \in SUBSET (1 .. n + 1), n + 1 \in t
  PROVE  Max(t) = n + 1
<1>1. \A x \in t : x <= n + 1 /\ x \in Nat
  OBVIOUS
<1>2. \A x \in t : (\A y \in t : x >= y) => x = n + 1
  BY <1>1
<1>3. \A y \in t : n + 1 >= y
  BY <1>1
<1> QED
  BY <1>2, <1>3 DEF Max

(* The sums of one more number extend those of the others.                 *)
LEMMA SumsExtend ==
  ASSUME NEW s, NEW n \in Nat, NEW it, Sums(it, s, 1 .. n)
  PROVE  \E jt : Sums(jt, s, 1 .. n + 1)
<1> DEFINE jt == [t \in SUBSET (1 .. n + 1) |->
                    IF n + 1 \in t THEN it[t \ {n + 1}] + s[n + 1] ELSE it[t]]
<1>1. ASSUME NEW t \in SUBSET (1 .. n)
      PROVE  it[t] = IF t = {} THEN 0 ELSE it[t \ {Max(t)}] + s[Max(t)]
  BY Zenon DEF Sums
<1>2. ASSUME NEW t \in SUBSET (1 .. n + 1)
      PROVE  jt[t] = IF t = {} THEN 0 ELSE jt[t \ {Max(t)}] + s[Max(t)]
  <2>1. CASE n + 1 \in t
    <3>1. Max(t) = n + 1 /\ t # {}
      BY <2>1, MaxOfInterval, Zenon
    <3>2. t \ {n + 1} \in SUBSET (1 .. n + 1) /\ n + 1 \notin t \ {n + 1}
      OBVIOUS
    <3>3. jt[t \ {n + 1}] = it[t \ {n + 1}]
      BY <3>2, Zenon
    <3>4. jt[t] = it[t \ {n + 1}] + s[n + 1]
      BY <2>1, Zenon
    <3> QED
      BY <3>1, <3>3, <3>4, Zenon
  <2>2. CASE n + 1 \notin t
    <3>1. t \in SUBSET (1 .. n)
      BY <2>2
    <3>2. t \ {Max(t)} \in SUBSET (1 .. n + 1) /\ n + 1 \notin t \ {Max(t)}
      BY <2>2
    <3>3. jt[t \ {Max(t)}] = it[t \ {Max(t)}]
      BY <3>2, Zenon
    <3>4. jt[t] = it[t]
      BY <2>2, Zenon
    <3> QED
      BY <1>1, <3>1, <3>3, <3>4, Zenon
  <2> QED
    BY <2>1, <2>2, Zenon
<1>3. jt = [t \in SUBSET (1 .. n + 1) |-> jt[t]]
  BY Zenon
<1>4. [t \in SUBSET (1 .. n + 1) |-> jt[t]]
        = [t \in SUBSET (1 .. n + 1) |-> IF t = {} THEN 0 ELSE jt[t \ {Max(t)}] + s[Max(t)]]
  <2> HIDE DEF jt
  <2> QED
    BY <1>2, Zenon
<1> HIDE DEF jt
<1> QED
  BY <1>3, <1>4, Zenon DEF Sums

(* So there are sums of any numbers.                                       *)
LEMMA SumsExist ==
  ASSUME NEW s, NEW n \in Nat
  PROVE  \E it : Sums(it, s, 1 .. n)
<1> DEFINE T == {k \in Nat : ~\E it : Sums(it, s, 1 .. k)}
<1>1. SUFFICES ASSUME T # {} PROVE FALSE
  OBVIOUS
<1>2. PICK k \in T : \A j \in T : k <= j
  <2> T \subseteq Nat
    OBVIOUS
  <2> HIDE DEF T
  <2> QED
    BY <1>1, LeastExists
<1>3. CASE k = 0
  <2> DEFINE jt == [t \in SUBSET {} |-> 0]
  <2>1. 1 .. 0 = {}
    OBVIOUS
  <2>2. jt = [t \in SUBSET {} |-> IF t = {} THEN 0 ELSE jt[t \ {Max(t)}] + s[Max(t)]]
    BY Zenon
  <2>3. Sums(jt, s, 1 .. 0)
    BY <2>1, <2>2, Zenon DEF Sums
  <2> QED
    BY <1>2, <1>3, <2>3, Zenon
<1>4. CASE k # 0
  <2>1. k - 1 \in Nat /\ (k - 1) + 1 = k /\ ~(k <= k - 1)
    BY <1>2, <1>4
  <2>2. PICK it : Sums(it, s, 1 .. (k - 1))
    BY <1>2, <2>1, Zenon
  <2>3. \E jt : Sums(jt, s, 1 .. (k - 1) + 1)
    BY <2>1, <2>2, SumsExtend, Zenon
  <2> QED
    BY <1>2, <2>1, <2>3, Zenon
<1> QED
  BY <1>3, <1>4, Zenon

(* The sum of the first numbers, from that of those before the last.       *)
LEMMA SumOfTheFirst ==
  ASSUME NEW v, NEW w, NEW b \in Nat, Sums(v, w, 1 .. b), NEW a \in 0 .. b
  PROVE  v[1 .. a] = IF a = 0 THEN 0 ELSE v[1 .. (a - 1)] + w[a]
<1>1. 1 .. a \in SUBSET (1 .. b)
  OBVIOUS
<1>2. v[1 .. a] = IF 1 .. a = {} THEN 0 ELSE v[(1 .. a) \ {Max(1 .. a)}] + w[Max(1 .. a)]
  BY <1>1, Zenon DEF Sums
<1>3. CASE a = 0
  <2>1. 1 .. a = {}
    BY <1>3
  <2> QED
    BY <1>2, <1>3, <2>1, Zenon
<1>4. CASE a # 0
  <2>1. a - 1 \in Nat /\ (a - 1) + 1 = a /\ a \in 1 .. a /\ 1 .. a # {} /\ (1 .. a) \ {a} = 1 .. (a - 1)
    BY <1>4, IntervalLast, SMT
  <2>2. Max(1 .. a) = a
    <3>1. 1 .. a \in SUBSET (1 .. (a - 1) + 1) /\ (a - 1) + 1 \in 1 .. a
      BY <2>1, Zenon
    <3>2. Max(1 .. a) = (a - 1) + 1
      BY <2>1, <3>1, MaxOfInterval, Zenon
    <3> QED
      BY <2>1, <3>2, Zenon
  <2> QED
    BY <1>2, <1>4, <2>1, <2>2, Zenon
<1> QED
  BY <1>3, <1>4, Zenon

Agree(s, u, k) == \A i \in 1 .. k : s[i] = u[i] /\ s[i] \in Nat

(* What is counted of the first numbers depends on nothing else.           *)
LEMMA SumsAgree ==
  ASSUME NEW s, NEW u, NEW m \in Nat, NEW n \in Nat, NEW it, NEW jt, NEW k \in 0 .. m,
         k \in 0 .. n, Sums(it, s, 1 .. m), Sums(jt, u, 1 .. n),
         Agree(s, u, k)
  PROVE  it[1 .. k] = jt[1 .. k] /\ it[1 .. k] \in Nat
<1> DEFINE T == {i \in 0 .. k : ~(it[1 .. i] = jt[1 .. i] /\ it[1 .. i] \in Nat)}
<1>1. SUFFICES ASSUME T # {} PROVE FALSE
  <2>1. k \in 0 .. k
    OBVIOUS
  <2> QED
    BY <2>1, Zenon
<1>2. PICK i \in T : \A j \in T : i <= j
  <2> T \subseteq Nat
    OBVIOUS
  <2> HIDE DEF T
  <2> QED
    BY <1>1, LeastExists
<1>4. i \in 0 .. m /\ i \in 0 .. n /\ i \in 0 .. k /\ i \in Nat
  BY <1>2
<1>5. /\ it[1 .. i] = IF i = 0 THEN 0 ELSE it[1 .. (i - 1)] + s[i]
      /\ jt[1 .. i] = IF i = 0 THEN 0 ELSE jt[1 .. (i - 1)] + u[i]
  <2>1. it[1 .. i] = IF i = 0 THEN 0 ELSE it[1 .. (i - 1)] + s[i]
    BY <1>4, SumOfTheFirst, SMT
  <2>2. jt[1 .. i] = IF i = 0 THEN 0 ELSE jt[1 .. (i - 1)] + u[i]
    BY <1>4, SumOfTheFirst, SMT
  <2> QED
    BY <2>1, <2>2, Zenon
<1>6. CASE i = 0
  BY <1>2, <1>5, <1>6
<1>7. CASE i # 0
  <2>1. i - 1 \in 0 .. k /\ ~(i <= i - 1) /\ i \in 1 .. k
    BY <1>4, <1>7
  <2>2. it[1 .. (i - 1)] = jt[1 .. (i - 1)] /\ it[1 .. (i - 1)] \in Nat
    BY <1>2, <2>1, Zenon
  <2>3. s[i] = u[i] /\ s[i] \in Nat
    BY <2>1, Zenon DEF Agree
  <2>4. it[1 .. i] = jt[1 .. i]
    BY <1>5, <1>7, <2>2, <2>3, Zenon
  <2>5. it[1 .. (i - 1)] + s[i] \in Nat
    BY <2>2, <2>3
  <2>6. it[1 .. i] \in Nat
    BY <1>5, <1>7, <2>5, Zenon
  <2> QED
    BY <1>2, <2>4, <2>6, Zenon
<1> QED
  BY <1>6, <1>7, Zenon

(* Nothing counts nothing, and one number more counts for what it is.      *)
LEMMA CountedAdds ==
  ASSUME NEW s \in Seq(Nat), NEW x \in Nat
  PROVE  /\ Counted(<<>>) = 0
         /\ Counted(s) \in Nat
         /\ Counted(s \o <<x>>) = Counted(s) + x
<1> DEFINE u == s \o <<x>>
           n == Len(s)
<1>1. /\ n \in Nat /\ DOMAIN s = 1 .. n /\ DOMAIN u = 1 .. n + 1
      /\ u[n + 1] = x /\ \A i \in 1 .. n : s[i] = u[i] /\ s[i] \in Nat /\ u[i] \in Nat
  OBVIOUS
<1>2. DOMAIN <<>> = 1 .. 0
  OBVIOUS
<1> DEFINE it == CHOOSE v : Sums(v, s, 1 .. n)
           jt == CHOOSE v : Sums(v, u, 1 .. n + 1)
           kt == CHOOSE v : Sums(v, <<>>, 1 .. 0)
<1>3. Counted(s) = it[1 .. n] /\ Counted(u) = jt[1 .. n + 1] /\ Counted(<<>>) = kt[1 .. 0]
  <2> HIDE DEF u, n
  <2> QED
    BY <1>1, <1>2, CountedIsASum, Zenon
<1> HIDE DEF u, n
<1>4. n + 1 \in Nat /\ n \in 0 .. n /\ n \in 0 .. n + 1 /\ 0 \in Nat
  BY <1>1
<1>5. Sums(it, s, 1 .. n) /\ Sums(jt, u, 1 .. n + 1) /\ Sums(kt, <<>>, 1 .. 0)
  BY <1>1, <1>4, SumsExist, Zenon
<1> HIDE DEF it, jt, kt
<1>6. it[1 .. n] = jt[1 .. n] /\ it[1 .. n] \in Nat
  <2>1. Agree(s, u, n)
    BY <1>1, Zenon DEF Agree
  <2>2. PICK c : c = n + 1
    OBVIOUS
  <2>3. n \in Nat /\ c \in Nat /\ n \in 0 .. n /\ n \in 0 .. c
    BY <1>1, <1>4, <2>2
  <2>4. Sums(it, s, 1 .. n) /\ Sums(jt, u, 1 .. c)
    BY <1>5, <2>2
  <2> QED
    BY <2>1, <2>3, <2>4, SumsAgree, Zenon
<1>7. kt[1 .. 0] = 0
  <2>1. 0 \in 0 .. 0
    OBVIOUS
  <2> QED
    BY <1>4, <1>5, <2>1, SumOfTheFirst, Zenon
<1>8. jt[1 .. n + 1] = jt[1 .. n] + x
  <2>1. n + 1 \in 0 .. n + 1 /\ n + 1 # 0 /\ (n + 1) - 1 = n
    BY <1>4, <1>1
  <2>2. jt[1 .. n + 1] = IF n + 1 = 0 THEN 0 ELSE jt[1 .. ((n + 1) - 1)] + u[n + 1]
    BY <1>1, <1>4, <1>5, <2>1, SumOfTheFirst, SMT
  <2> QED
    BY <1>1, <2>1, <2>2, Zenon
<1>9. Counted(u) = Counted(s) + x
  BY <1>3, <1>6, <1>8, Zenon
<1> QED
  BY <1>3, <1>6, <1>7, <1>9, Zenon DEF u

-----------------------------------------------------------------------------
Summaries == [role : {"system"}, scopes : Seq(Nat), timeline : Seq(1 .. MaxMessages)]

(* A session is messages, and a summary perhaps before them.               *)
IsSession(s) ==
  /\ s \in Seq(Messages \cup Summaries)
  /\ \A k \in 2 .. Len(s) : s[k] \in Messages
AfterSummary(s) == PrefixLen(s) + 1 .. Len(s)

(* The messages are numbered up to the last that was added.                *)
Numbered(s) == \A k \in AfterSummary(s) : s[k].number = added - Len(s) + k

(* Between a tool result and what it answers there are tool results only.  *)
Answers(s) ==
  \A k \in AfterSummary(s) : s[k].role = "tool" =>
    /\ s[k].of <= s[k].number
    /\ \A j \in PrefixLen(s) + 1 .. k : s[j].number > s[k].of => s[j].role = "tool"

(* The message whose results are still owed is there.                      *)
Asked ==
  owed > 0 =>
    /\ running
    /\ \E a \in AfterSummary(session) :
         /\ session[a].role = "assistant"
         /\ \A j \in a + 1 .. Len(session) : session[j].role = "tool"

Told(s, n) == \A k \in DOMAIN s : s[k] <= n /\ (k > 1 => s[k] = s[k - 1] + 1)
TimelineTold(s) == HasSummary(s) => Told(s[1].timeline, added - (Len(s) - 1))
ScopesCount(s) == Counted(Scopes(s)) + (Len(s) - PrefixLen(s)) = added

Bounded ==
  /\ added \in 0 .. MaxMessages /\ running \in BOOLEAN /\ owed \in 0 .. 2
  /\ added + owed <= MaxMessages

CompactionIInv ==
  /\ Bounded
  /\ IsSession(session) /\ Numbered(session) /\ Answers(session) /\ Asked
  /\ TimelineTold(session) /\ ScopesCount(session)

(* The summary is the first of a session, if there is one.                 *)
LEMMA PrefixOfSession ==
  ASSUME NEW s, IsSession(s)
  PROVE  /\ Len(s) \in Nat /\ DOMAIN s = 1 .. Len(s)
         /\ PrefixLen(s) \in {0, 1} /\ PrefixLen(s) <= Len(s)
         /\ HasSummary(s) <=> PrefixLen(s) = 1
         /\ HasSummary(s) => Len(s) > 0 /\ s[1] \in Summaries
         /\ AfterSummary(s) \subseteq 1 .. Len(s)
         /\ \A k \in AfterSummary(s) : s[k] \in Messages
<1>1. s \in Seq(Messages \cup Summaries) /\ Len(s) \in Nat /\ DOMAIN s = 1 .. Len(s)
  BY DEF IsSession
<1>2. s = <<>> <=> Len(s) = 0
  BY <1>1
<1>3. \A k \in 1 .. Len(s) : s[k] \in Messages \cup Summaries
  BY <1>1
<1>4. \A m \in Messages : m.role # "system"
  BY DEF Messages
<1>5. \A m \in Summaries : m.role = "system"
  BY DEF Summaries
<1>6. /\ PrefixLen(s) \in {0, 1} /\ PrefixLen(s) <= Len(s)
      /\ HasSummary(s) <=> PrefixLen(s) = 1
      /\ HasSummary(s) => Len(s) > 0
  BY <1>1, <1>2 DEF PrefixLen, HasSummary
<1>7. Len(s) > 0 => s[1] \in Messages \cup Summaries
  BY <1>1, <1>3
<1>8. HasSummary(s) => s[1] \in Summaries
  BY <1>4, <1>6, <1>7 DEF HasSummary, IsSummary
<1>9. ~HasSummary(s) /\ Len(s) > 0 => s[1] \in Messages
  BY <1>2, <1>5, <1>7 DEF HasSummary, IsSummary
<1>10. AfterSummary(s) \subseteq 1 .. Len(s)
  BY <1>1, <1>6 DEF AfterSummary
<1>11. ASSUME NEW k \in AfterSummary(s) PROVE s[k] \in Messages
  <2>1. CASE k = 1
    <3>1. ~HasSummary(s) /\ Len(s) > 0
      BY <1>1, <1>6, <2>1 DEF AfterSummary
    <3> QED
      BY <1>9, <2>1, <3>1
  <2>2. CASE k # 1
    <3>1. k \in 2 .. Len(s)
      BY <1>10, <2>2
    <3> QED
      BY <3>1, Zenon DEF IsSession
  <2> QED
    BY <2>1, <2>2
<1> QED
  BY <1>1, <1>6, <1>8, <1>10, <1>11, Zenon

(* What is added comes last, and a summary stays the first.                *)
LEMMA AddedToSession ==
  ASSUME NEW s, IsSession(s), NEW m \in Messages
  PROVE  /\ IsSession(Append(s, m))
         /\ Len(Append(s, m)) = Len(s) + 1
         /\ \A k \in 1 .. Len(s) : Append(s, m)[k] = s[k]
         /\ Append(s, m)[Len(s) + 1] = m
         /\ PrefixLen(Append(s, m)) = PrefixLen(s)
         /\ HasSummary(Append(s, m)) <=> HasSummary(s)
<1> DEFINE t == Append(s, m)
<1>1. s \in Seq(Messages \cup Summaries) /\ m \in Messages \cup Summaries
  BY DEF IsSession
<1>2. /\ t \in Seq(Messages \cup Summaries) /\ Len(t) = Len(s) + 1
      /\ \A k \in 1 .. Len(s) : t[k] = s[k]
      /\ t[Len(s) + 1] = m /\ Len(s) \in Nat
      /\ t # <<>>
  BY <1>1, AppendProperties
<1> HIDE DEF t
<1>3. \A k \in 2 .. Len(t) : t[k] \in Messages
  <2> SUFFICES ASSUME NEW k \in 2 .. Len(t) PROVE t[k] \in Messages
    OBVIOUS
  <2>1. CASE k = Len(s) + 1
    BY <1>2, <2>1
  <2>2. CASE k # Len(s) + 1
    <3>1. k \in 2 .. Len(s) /\ k \in 1 .. Len(s)
      BY <1>2, <2>2
    <3>2. s[k] \in Messages
      BY <3>1, Zenon DEF IsSession
    <3> QED
      BY <1>2, <3>1, <3>2
  <2> QED
    BY <2>1, <2>2
<1>4. HasSummary(t) <=> HasSummary(s)
  <2>1. CASE Len(s) = 0
    <3>1. s = <<>> /\ t[1] = m
      BY <1>1, <1>2, <2>1
    <3>2. m.role # "system"
      BY DEF Messages
    <3> QED
      BY <3>1, <3>2 DEF HasSummary, IsSummary
  <2>2. CASE Len(s) # 0
    <3>1. s # <<>> /\ t[1] = s[1]
      BY <1>1, <1>2, <2>2
    <3> QED
      BY <1>2, <3>1 DEF HasSummary, IsSummary
  <2> QED
    BY <2>1, <2>2
<1>5. PrefixLen(t) = PrefixLen(s)
  BY <1>4 DEF PrefixLen
<1>6. IsSession(t)
  BY <1>2, <1>3 DEF IsSession
<1> QED
  BY <1>2, <1>4, <1>5, <1>6 DEF t

Recent(s) == IsSession(s) /\ Numbered(s) /\ Answers(s) /\ TimelineTold(s) /\ ScopesCount(s)

(* The next message is in its place, if a result is added where there are  *)
(* results only since the message it answers.                              *)
LEMMA AddingKeepsRecent ==
  ASSUME CompactionIInv, NEW m \in Messages, Add(m), m.number = added + 1,
         m.role = "tool" =>
           /\ m.of <= added + 1
           /\ \A j \in AfterSummary(session) : session[j].number > m.of => session[j].role = "tool"
  PROVE  Recent(session)'
<1> DEFINE n == Len(session)
           p == PrefixLen(session)
<1>1. IsSession(session) /\ session' = Append(session, m) /\ added' = added + 1
  BY DEF CompactionIInv, Add
<1>2. /\ n \in Nat /\ p \in {0, 1} /\ p <= n /\ added \in Nat
      /\ HasSummary(session) <=> p = 1
      /\ HasSummary(session) => n > 0 /\ session[1] \in Summaries
      /\ \A k \in AfterSummary(session) : session[k] \in Messages
  BY <1>1, PrefixOfSession DEF CompactionIInv, Bounded
<1>3. /\ IsSession(session') /\ Len(session') = n + 1
      /\ \A k \in 1 .. n : session'[k] = session[k]
      /\ session'[n + 1] = m /\ PrefixLen(session') = p
      /\ HasSummary(session') <=> HasSummary(session)
  BY <1>1, AddedToSession, Zenon
<1>4. AfterSummary(session) = p + 1 .. n /\ AfterSummary(session') = p + 1 .. n + 1
  BY <1>3 DEF AfterSummary
<1> HIDE DEF n, p
<1>5. Numbered(session)'
  <2>1. \A k \in p + 1 .. n : session[k].number = added - n + k
    BY <1>4 DEF CompactionIInv, Numbered, n
  <2>2. ASSUME NEW k \in p + 1 .. n + 1
        PROVE  session'[k].number = added' - (n + 1) + k
    <3>1. CASE k = n + 1
      BY <1>1, <1>2, <1>3, <3>1
    <3>2. CASE k # n + 1
      <4>1. k \in p + 1 .. n /\ k \in 1 .. n
        BY <1>2, <3>2
      <4> QED
        BY <1>1, <1>2, <1>3, <2>1, <4>1
    <3> QED
      BY <3>1, <3>2
  <2> QED
    BY <1>3, <1>4, <2>2 DEF Numbered
<1>6. Answers(session)'
  <2>1. ASSUME NEW k \in p + 1 .. n, session[k].role = "tool"
        PROVE  /\ session[k].of <= session[k].number
               /\ \A j \in p + 1 .. k : session[j].number > session[k].of => session[j].role = "tool"
    BY <1>4, <2>1 DEF CompactionIInv, Answers, p
  <2>2. ASSUME NEW k \in p + 1 .. n + 1, session'[k].role = "tool"
        PROVE  /\ session'[k].of <= session'[k].number
               /\ \A j \in p + 1 .. k : session'[j].number > session'[k].of => session'[j].role = "tool"
    <3>1. CASE k = n + 1
      <4>1. m.role = "tool" /\ session'[k] = m
        BY <1>3, <2>2, <3>1
      <4>2. ASSUME NEW j \in p + 1 .. k, session'[j].number > session'[k].of
            PROVE  session'[j].role = "tool"
        <5>1. CASE j = k
          BY <4>1, <5>1
        <5>2. CASE j # k
          <6>1. j \in p + 1 .. n /\ j \in 1 .. n
            BY <1>2, <3>1, <5>2
          <6>2. session'[j] = session[j]
            BY <1>3, <6>1
          <6> QED
            BY <1>4, <4>1, <4>2, <6>1, <6>2
        <5> QED
          BY <5>1, <5>2
      <4> QED
        BY <4>1, <4>2
    <3>2. CASE k # n + 1
      <4>1. k \in p + 1 .. n /\ k \in 1 .. n
        BY <1>2, <3>2
      <4>2. \A j \in p + 1 .. k : j \in 1 .. n
        BY <1>2, <4>1
      <4>3. session'[k] = session[k] /\ \A j \in p + 1 .. k : session'[j] = session[j]
        BY <1>3, <4>1, <4>2
      <4> QED
        BY <2>1, <2>2, <4>1, <4>3
    <3> QED
      BY <3>1, <3>2
  <2> QED
    BY <1>3, <1>4, <2>2 DEF Answers
<1>7. HasSummary(session) => session'[1] = session[1] /\ n > 0
  BY <1>2, <1>3
<1>8. TimelineTold(session)'
  <2>1. added' - (Len(session') - 1) = added - (n - 1)
    BY <1>1, <1>2, <1>3
  <2> QED
    BY <1>3, <1>7, <2>1 DEF CompactionIInv, TimelineTold, n
<1>9. ScopesCount(session)'
  <2>1. Scopes(session') = Scopes(session)
    BY <1>3, <1>7 DEF Scopes
  <2>2. Scopes(session) \in Seq(Nat)
    BY <1>2 DEF Scopes, Summaries
  <2>3. Counted(Scopes(session)) \in Nat
    BY <2>2, CountedAdds
  <2>4. Counted(Scopes(session)) + (n - p) = added
    BY DEF CompactionIInv, ScopesCount, n, p
  <2>5. Counted(Scopes(session')) + ((n + 1) - p) = added'
    BY <1>1, <1>2, <2>1, <2>3, <2>4
  <2> QED
    BY <1>3, <2>5 DEF ScopesCount
<1> QED
  BY <1>3, <1>5, <1>6, <1>8, <1>9 DEF Recent

(* No message is a summary, and its numbers are in their bounds.           *)
LEMMA MessageSorts ==
  \A m \in Messages : m.role # "system" /\ m.number \in 1 .. MaxMessages /\ m.of \in 1 .. MaxMessages
BY DEF Messages

(* The message that asked is the last of the assistant's.                  *)
LEMMA TheAsker ==
  ASSUME CompactionIInv, owed > 0
  PROVE  LET a == SelectLastInSeq(session, LAMBDA m : m.role = "assistant")
         IN  /\ a \in AfterSummary(session)
             /\ \A j \in a + 1 .. Len(session) : session[j].role = "tool"
<1> DEFINE n == Len(session)
           I == {i \in 1 .. n : session[i].role = "assistant"}
           a == SelectLastInSeq(session, LAMBDA m : m.role = "assistant")
<1>1. PICK b \in AfterSummary(session) :
        session[b].role = "assistant" /\ \A j \in b + 1 .. n : session[j].role = "tool"
  BY Zenon DEF CompactionIInv, Asked
<1>2. n \in Nat /\ AfterSummary(session) \subseteq 1 .. n
  BY PrefixOfSession DEF CompactionIInv, Bounded
<1>3. b \in I /\ \A i \in I : b >= i
  <2>1. b \in I
    BY <1>1, <1>2
  <2>2. ASSUME NEW i \in I PROVE b >= i
    <3>1. i \in 1 .. n /\ b \in 1 .. n /\ session[i].role # "tool"
      BY <1>1, <1>2
    <3>2. i \notin b + 1 .. n
      BY <1>1, <3>1
    <3> QED
      BY <1>2, <3>1, <3>2
  <2> QED
    BY <2>1, <2>2
<1>4. \A c \in I : (\A i \in I : c >= i) => c = b
  BY <1>2, <1>3
<1>5. a = IF I # {} THEN Max(I) ELSE 0
  BY DEF SelectLastInSeq
<1> HIDE DEF I, a
<1>6. Max(I) = b
  BY <1>3, <1>4, Zenon DEF Max
<1>7. a = b
  BY <1>3, <1>5, <1>6, Zenon
<1> QED
  BY <1>1, <1>7, Zenon DEF n, a

(* What is read again of a timeline is its beginning.                      *)
LEMMA RereadIsTheBeginning ==
  ASSUME NEW s \in Seq(Messages)
  PROVE  /\ Reread(s) \in Seq(Messages) /\ Len(Reread(s)) <= Len(s)
         /\ \A k \in 1 .. Len(Reread(s)) : Reread(s)[k] = s[k]
<1> DEFINE blanks == {k \in DOMAIN s : s[k].blank}
           c == CHOOSE k \in blanks : \A j \in blanks : k <= j
<1>1. CASE blanks = {}
  <2>1. Reread(s) = s
    BY <1>1, Zenon DEF Reread
  <2> QED
    BY <2>1
<1>2. CASE blanks # {}
  <2>1. blanks \subseteq Nat
    OBVIOUS
  <2>2. c \in blanks
    <3> HIDE DEF blanks
    <3>1. \E k \in blanks : \A j \in blanks : k <= j
      BY <1>2, <2>1, LeastExists, Zenon
    <3> QED
      BY <3>1, Zenon
  <2>3. Reread(s) = SubSeq(s, 1, c)
    BY <1>2, Zenon DEF Reread
  <2>4. c \in 1 .. Len(s)
    <3> HIDE DEF c
    <3> QED
      BY <2>2
  <2> HIDE DEF c, blanks
  <2> QED
    BY <2>3, <2>4, SubSeqProperties
<1> QED
  BY <1>1, <1>2

(* A function on an interval from one is a sequence.                       *)
LEMMA FunctionsAreSequences ==
  \A S : \A n \in Nat : \A f \in [1 .. n -> S] : f \in Seq(S)
OBVIOUS

(* A compaction keeps the recent messages as they were, tells of the       *)
(* others in their order and counts them with those of the summary.        *)
LEMMA CompactingKeepsRecent ==
  ASSUME CompactionIInv, ShouldCompact(session), session' = Compacted(session), added' = added
  PROVE  /\ Recent(session)'
         /\ PrefixLen(session') = 1 /\ Len(session') = Preserve + 1 /\ Len(session') <= Len(session)
<1> DEFINE n == Len(session)
           p == PrefixLen(session)
           q == Preserve
           kept == n - q
           new == Removed(session)
           last == Preserved(session)
           merged == Merge(session)
<1>1. /\ n \in Nat /\ p \in {0, 1} /\ p <= n /\ added \in 0 .. MaxMessages /\ MaxMessages \in Nat
      /\ q \in Nat
      /\ IsSession(session) /\ session \in Seq(Messages \cup Summaries)
      /\ HasSummary(session) <=> p = 1
      /\ HasSummary(session) => n > 0 /\ session[1] \in Summaries
      /\ AfterSummary(session) = p + 1 .. n
      /\ \A k \in AfterSummary(session) : session[k] \in Messages
  BY PrefixOfSession, CompactionAssumption DEF CompactionIInv, Bounded, AfterSummary, IsSession
<1> HIDE DEF n, p, q
<1>2. n - p > q /\ kept \in Nat /\ kept = KeepFrom(session) /\ kept > p
  <2>1. Len(SubSeq(session, p + 1, n)) > q
    BY DEF ShouldCompact, n, p, q
  <2>2. Len(SubSeq(session, p + 1, n)) = n - p
    BY <1>1, SubSeqProperties DEF n
  <2>3. n - p > q
    BY <2>1, <2>2
  <2> QED
    BY <1>1, <2>3 DEF KeepFrom, n, q
<1>0. /\ n \in Nat /\ p \in {0, 1} /\ added \in Nat /\ q \in Nat /\ n - p > q
      /\ kept = n - q /\ kept \in Nat /\ kept > p /\ kept <= n
  BY <1>1, <1>2
<1> HIDE DEF kept
<1>3. /\ new = SubSeq(session, p + 1, kept) /\ Len(new) = kept - p /\ Len(new) \in Nat
      /\ \A k \in 1 .. Len(new) : new[k] = session[p + k]
  <2>1. new = SubSeq(session, p + 1, kept)
    BY <1>2 DEF Removed, p
  <2> HIDE DEF new
  <2>2. p + 1 \in 1 .. n + 1 /\ kept \in p .. n
    BY <1>1, <1>2 DEF kept
  <2> QED
    BY <1>1, <1>2, <2>1, <2>2, SubSeqProperties DEF n
<1>4. /\ last \in Seq(Messages) /\ Len(last) = q
      /\ \A k \in 1 .. q : last[k] = session[kept + k]
  <2>1. last = SubSeq(session, kept + 1, n)
    BY <1>2 DEF Preserved, n
  <2> HIDE DEF last
  <2>2. Len(last) = q /\ \A k \in 1 .. q : last[k] = session[kept + k]
    <3>1. /\ session \in Seq(Messages \cup Summaries) /\ n = Len(session)
          /\ kept + 1 \in 1 .. Len(session) + 1 /\ n \in kept + 1 - 1 .. Len(session)
      BY <1>0, <1>1 DEF n
    <3>2. Len(last) = n - (kept + 1) + 1
      BY <2>1, <3>1, SubSeqProperties
    <3>3. \A k \in 1 .. n - (kept + 1) + 1 : last[k] = session[kept + 1 + k - 1]
      BY <2>1, <3>1, SubSeqProperties
    <3>4. n - (kept + 1) + 1 = q /\ \A k \in 1 .. q : kept + 1 + k - 1 = kept + k
      BY <1>0
    <3> QED
      BY <3>2, <3>3, <3>4
  <2>3. last \in Seq(Messages \cup Summaries)
    BY <1>1, <1>2, <2>1, SubSeqProperties DEF n, kept
  <2>4. \A k \in 1 .. q : last[k] \in Messages
    <3> SUFFICES ASSUME NEW k \in 1 .. q PROVE last[k] \in Messages
      OBVIOUS
    <3>1. kept + k \in p + 1 .. n
      BY <1>1, <1>2 DEF kept
    <3> QED
      BY <1>1, <2>2, <3>1
  <2>5. last \in Seq(Messages)
    BY <1>1, <2>2, <2>3, <2>4
  <2> QED
    BY <2>2, <2>5
<1> HIDE DEF new, last, merged
<1>20. Len(new) = kept - p /\ Len(new) \in Nat
  BY <1>3, Zenon
<1>5. new \in Seq(Messages) /\ \A k \in 1 .. Len(new) : new[k].number = added - n + p + k
  <2>1. ASSUME NEW k \in 1 .. Len(new)
        PROVE  new[k] \in Messages /\ new[k].number = added - n + p + k
    <3>0. k \in 1 .. kept - p /\ new[k] = session[p + k]
      BY <1>3
    <3>1. p + k \in p + 1 .. n
      BY <1>0, <3>0
    <3>2. session[p + k].number = added - n + (p + k) /\ session[p + k] \in Messages
      BY <1>1, <3>1 DEF CompactionIInv, Numbered, n
    <3>3. added - n + (p + k) = added - n + p + k
      BY <1>0, <3>0
    <3> QED
      BY <3>0, <3>2, <3>3, Zenon
  <2>2. new \in Seq(Messages \cup Summaries)
    BY <1>1, <1>2, <1>3, SubSeqProperties DEF n, kept
  <2> QED
    BY <2>1, <2>2
<1>6. ASSUME NEW t \in Seq(Messages), Len(t) <= Len(new), \A k \in 1 .. Len(t) : t[k] = new[k]
      PROVE  Numbers(t) \in Seq(1 .. MaxMessages) /\ Told(Numbers(t), added - q)
  <2>1. DOMAIN Numbers(t) = 1 .. Len(t) /\ \A k \in 1 .. Len(t) : Numbers(t)[k] = t[k].number
    BY DEF Numbers
  <2>2. Len(t) \in Nat /\ \A k \in 1 .. Len(t) : t[k].number \in 1 .. MaxMessages
    <3>1. Len(t) \in Nat /\ \A k \in 1 .. Len(t) : t[k] \in Messages
      OBVIOUS
    <3> QED
      BY <3>1, MessageSorts, Zenon
  <2>3. Numbers(t) \in Seq(1 .. MaxMessages)
    <3>1. Numbers(t) = [k \in 1 .. Len(t) |-> t[k].number]
      BY DEF Numbers
    <3>2. Numbers(t) \in [1 .. Len(t) -> 1 .. MaxMessages]
      BY <2>2, <3>1, Zenon
    <3>3. Len(t) \in Nat
      BY <2>2
    <3> QED
      BY <3>2, <3>3, FunctionsAreSequences, Zenon
  <2>4. ASSUME NEW k \in 1 .. Len(t)
        PROVE  Numbers(t)[k] = added - n + p + k /\ k <= kept - p
    <3>1. k \in 1 .. Len(new) /\ k \in 1 .. kept - p
      BY <1>6, <1>20, <2>2
    <3>2. Numbers(t)[k] = t[k].number /\ t[k] = new[k] /\ new[k].number = added - n + p + k
      BY <1>5, <1>6, <2>1, <3>1, Zenon
    <3> QED
      BY <1>0, <3>1, <3>2
  <2> HIDE DEF Numbers
  <2>5. ASSUME NEW k \in 1 .. Len(t)
        PROVE  Numbers(t)[k] <= added - q /\ (k > 1 => Numbers(t)[k] = Numbers(t)[k - 1] + 1)
    <3>1. k > 1 => k - 1 \in 1 .. Len(t)
      BY <2>2
    <3>2. k > 1 => Numbers(t)[k - 1] = added - n + p + (k - 1)
      BY <2>4, <3>1
    <3>3. Numbers(t)[k] = added - n + p + k /\ k <= kept - p
      BY <2>4
    <3> QED
      BY <1>0, <3>2, <3>3
  <2> QED
    BY <2>1, <2>3, <2>5, Zenon DEF Told
<1>17. Len(new) \in Nat /\ Len(new) <= Len(new)
  BY <1>20
<1>18. <<Len(new)>> \in Seq(Nat)
  BY <1>17
<1>7. merged \in Summaries /\ Told(merged.timeline, added - q)
  <2>1. new = Removed(session) /\ merged = Merge(session)
    BY DEF new, merged
  <2>2. Len(new) \in Nat /\ <<Len(new)>> \in Seq(Nat)
    BY <1>17, <1>18
  <2>3. CASE HasSummary(session)
    <3>1. merged = Summary(session[1].scopes \o <<Len(new)>>, Numbers(Reread(new)))
      BY <2>1, <2>3, Zenon DEF Merge
    <3>2. session[1].scopes \in Seq(Nat)
      BY <1>1, <2>3 DEF Summaries
    <3>3. session[1].scopes \o <<Len(new)>> \in Seq(Nat)
      BY <2>2, <3>2
    <3>4. Numbers(Reread(new)) \in Seq(1 .. MaxMessages) /\ Told(Numbers(Reread(new)), added - q)
      BY <1>5, <1>6, RereadIsTheBeginning
    <3> QED
      BY <3>1, <3>3, <3>4 DEF Summary, Summaries
  <2>4. CASE ~HasSummary(session)
    <3>1. merged = Summary(<<Len(new)>>, Numbers(new))
      BY <2>1, <2>4, Zenon DEF Merge
    <3>2. Numbers(new) \in Seq(1 .. MaxMessages) /\ Told(Numbers(new), added - q)
      BY <1>5, <1>6, <1>17
    <3> QED
      BY <2>2, <3>1, <3>2 DEF Summary, Summaries
  <2> QED
    BY <2>3, <2>4
<1>8. /\ session' = <<merged>> \o last /\ Len(session') = q + 1 /\ session'[1] = merged
      /\ \A k \in 2 .. q + 1 : session'[k] = last[k - 1]
      /\ session' \in Seq(Messages \cup Summaries)
  <2>1. session' = <<merged>> \o last
    BY DEF Compacted, merged, last
  <2>2. last \in Seq(Messages \cup Summaries) /\ <<merged>> \in Seq(Messages \cup Summaries)
    BY <1>4, <1>7
  <2> QED
    BY <1>1, <1>4, <2>1, <2>2, ConcatProperties
<1>9. IsSession(session')
  <2> SUFFICES ASSUME NEW k \in 2 .. Len(session') PROVE session'[k] \in Messages
    BY <1>8, Zenon DEF IsSession
  <2>1. k \in 2 .. q + 1 /\ k - 1 \in 1 .. q
    BY <1>1, <1>8
  <2> QED
    BY <1>4, <1>8, <2>1
<1>10. HasSummary(session') /\ PrefixLen(session') = 1
  <2>1. session'[1].role = "system"
    BY <1>7, <1>8 DEF Summaries
  <2>2. session' # <<>>
    BY <1>1, <1>8
  <2> QED
    BY <2>1, <2>2 DEF HasSummary, IsSummary, PrefixLen
<1>11. AfterSummary(session') = 2 .. q + 1
  BY <1>8, <1>10 DEF AfterSummary
<1>12. \A k \in 2 .. q + 1 : session'[k] = session[kept + k - 1] /\ kept + k - 1 \in p + 1 .. n
  <2> SUFFICES ASSUME NEW k \in 2 .. q + 1
               PROVE  session'[k] = session[kept + k - 1] /\ kept + k - 1 \in p + 1 .. n
    OBVIOUS
  <2>1. k - 1 \in 1 .. q /\ kept + (k - 1) = kept + k - 1
    BY <1>1, <1>2
  <2>2. session'[k] = session[kept + (k - 1)]
    BY <1>4, <1>8, <2>1
  <2>3. kept + k - 1 \in p + 1 .. n
    BY <1>1, <1>2 DEF kept
  <2> QED
    BY <2>1, <2>2, <2>3, Zenon
<1>13. Numbered(session)'
  <2> SUFFICES ASSUME NEW k \in 2 .. q + 1
               PROVE  session'[k].number = added - (q + 1) + k
    BY <1>8, <1>11 DEF Numbered
  <2>1. session[kept + k - 1].number = added - n + (kept + k - 1)
    BY <1>1, <1>12 DEF CompactionIInv, Numbered, n
  <2> QED
    BY <1>1, <1>2, <1>12, <2>1 DEF kept
<1>14. Answers(session)'
  <2> SUFFICES ASSUME NEW k \in 2 .. q + 1, session'[k].role = "tool"
               PROVE  /\ session'[k].of <= session'[k].number
                      /\ \A j \in 2 .. k : session'[j].number > session'[k].of => session'[j].role = "tool"
    BY <1>10, <1>11 DEF Answers
  <2>1. session'[k] = session[kept + k - 1] /\ kept + k - 1 \in p + 1 .. n
    BY <1>12
  <2>2. /\ session[kept + k - 1].of <= session[kept + k - 1].number
        /\ \A j \in p + 1 .. kept + k - 1 :
             session[j].number > session[kept + k - 1].of => session[j].role = "tool"
    BY <1>1, <2>1 DEF CompactionIInv, Answers, p
  <2>3. \A j \in 2 .. k : /\ session'[j] = session[kept + j - 1]
                          /\ kept + j - 1 \in p + 1 .. kept + k - 1
    <3> SUFFICES ASSUME NEW j \in 2 .. k
                 PROVE  session'[j] = session[kept + j - 1] /\ kept + j - 1 \in p + 1 .. kept + k - 1
      OBVIOUS
    <3>1. j \in 2 .. q + 1
      BY <1>1
    <3>2. kept + j - 1 \in p + 1 .. n /\ session'[j] = session[kept + j - 1]
      BY <1>12, <3>1
    <3> QED
      BY <1>1, <1>2, <3>2
  <2> QED
    BY <2>1, <2>2, <2>3
<1>15. TimelineTold(session)'
  <2>0. Len(session') = q + 1
    BY <1>8
  <2>1. added' - (Len(session') - 1) = added - q
    BY <1>0, <2>0
  <2> QED
    BY <1>7, <1>8, <2>1 DEF TimelineTold
<1>16. ScopesCount(session)'
  <2>1. Scopes(session') = merged.scopes
    BY <1>8, <1>10 DEF Scopes
  <2>2. merged.scopes = Scopes(session) \o <<Len(new)>>
    <3>1. new = Removed(session) /\ merged = Merge(session)
      BY DEF new, merged
    <3>2. CASE HasSummary(session)
      BY <3>1, <3>2, Zenon DEF Merge, Summary, Scopes
    <3>3. CASE ~HasSummary(session)
      <4>1. merged.scopes = <<Len(new)>>
        BY <3>1, <3>3 DEF Merge, Summary
      <4>2. Scopes(session) = <<>>
        BY <3>3 DEF Scopes
      <4>3. <<Len(new)>> \in Seq(Nat)
        BY <1>18
      <4>4. <<>> \o <<Len(new)>> = <<Len(new)>>
        BY <4>3, ConcatEmptySeq
      <4> QED
        BY <4>1, <4>2, <4>4
    <3> QED
      BY <3>2, <3>3
  <2>3. Scopes(session) \in Seq(Nat)
    BY <1>1 DEF Scopes, Summaries
  <2>4. Counted(merged.scopes) = Counted(Scopes(session)) + Len(new) /\ Counted(Scopes(session)) \in Nat
    BY <1>3, <2>2, <2>3, CountedAdds
  <2>5. Counted(Scopes(session)) + (n - p) = added
    BY DEF CompactionIInv, ScopesCount, n, p
  <2>6. Counted(merged.scopes) + ((q + 1) - 1) = added
    BY <1>1, <1>2, <1>3, <2>4, <2>5 DEF kept
  <2> QED
    BY <1>8, <1>10, <2>1, <2>6 DEF ScopesCount
<1>19. q + 1 <= n
  BY <1>0
<1> QED
  BY <1>8, <1>9, <1>10, <1>13, <1>14, <1>15, <1>16, <1>19 DEF Recent, n, q

(* Every step of the conversation and every compaction keeps all of it.    *)
LEMMA CompactionInductive ==
  ASSUME CompactionIInv, [CompactionNext]_compactionVars
  PROVE  CompactionIInv'
<1>1. /\ MaxMessages \in Nat /\ Bounded
      /\ IsSession(session) /\ Len(session) \in Nat
      /\ AfterSummary(session) = PrefixLen(session) + 1 .. Len(session)
      /\ PrefixLen(session) \in {0, 1} /\ PrefixLen(session) <= Len(session)
  BY CompactionAssumption, PrefixOfSession DEF CompactionIInv, AfterSummary
<1>2. SUFFICES Bounded' /\ Recent(session)' /\ Asked'
  BY DEF CompactionIInv, Recent
<1>3. ASSUME NEW m \in Messages, Add(m)
      PROVE  /\ Len(session') = Len(session) + 1
             /\ \A k \in 1 .. Len(session) : session'[k] = session[k]
             /\ session'[Len(session) + 1] = m
             /\ AfterSummary(session') = PrefixLen(session) + 1 .. Len(session) + 1
  <2>1. session' = Append(session, m)
    BY <1>3 DEF Add
  <2>2. /\ Len(session') = Len(session) + 1 /\ PrefixLen(session') = PrefixLen(session)
        /\ \A k \in 1 .. Len(session) : session'[k] = session[k]
        /\ session'[Len(session) + 1] = m
    BY <1>1, <2>1, AddedToSession, Zenon
  <2> QED
    BY <2>2, Zenon DEF AfterSummary
<1>4. CASE AddUser
  <2>1. PICK n \in Sizes, b \in BOOLEAN :
          Add([role |-> "user", number |-> added + 1, tokens |-> n, blank |-> b, of |-> added + 1])
    BY <1>4 DEF AddUser
  <2> DEFINE m == [role |-> "user", number |-> added + 1, tokens |-> n, blank |-> b, of |-> added + 1]
  <2>2. m \in Messages /\ added + 1 \in 0 .. MaxMessages
    BY <1>1, <1>4 DEF AddUser, Messages, Bounded
  <2>3. Add(m) /\ m.number = added + 1 /\ m.role # "tool"
    BY <2>1
  <2> HIDE DEF m
  <2>4. Recent(session)'
    BY <2>2, <2>3, AddingKeepsRecent
  <2>6. owed = 0
    BY <1>1, <1>4 DEF AddUser, CompactionIInv, Asked, Bounded
  <2>5. Bounded'
    BY <1>1, <1>4, <2>2, <2>3, <2>6 DEF AddUser, Add, Bounded
  <2>7. Asked'
    BY <1>4, <2>6 DEF AddUser, Asked
  <2> QED
    BY <2>4, <2>5, <2>7
<1>5. CASE AddAssistant
  <2>1. PICK n \in Sizes, b \in BOOLEAN, uses \in 0 .. 2 :
          /\ added + 1 + uses + (IF uses > 0 THEN 1 ELSE 0) <= MaxMessages
          /\ Add([role |-> "assistant", number |-> added + 1, tokens |-> n, blank |-> b, of |-> added + 1])
          /\ owed' = uses /\ running' = (uses > 0)
    BY <1>5 DEF AddAssistant
  <2> DEFINE m == [role |-> "assistant", number |-> added + 1, tokens |-> n, blank |-> b, of |-> added + 1]
  <2>2. m \in Messages /\ added + 1 \in 0 .. MaxMessages
    BY <1>1, <1>5 DEF AddAssistant, Messages, Bounded
  <2>3. Add(m) /\ m.number = added + 1 /\ m.role = "assistant"
    BY <2>1
  <2> HIDE DEF m
  <2>4. Recent(session)'
    BY <2>2, <2>3, AddingKeepsRecent
  <2>5. Bounded'
    <3>1. added + 1 + uses <= MaxMessages
      BY <1>1, <2>1 DEF Bounded
    <3> QED
      BY <1>1, <2>1, <2>2, <2>3, <3>1 DEF Add, Bounded
  <2>6. Asked'
    <3>1. Len(session') = Len(session) + 1 /\ session'[Len(session) + 1] = m
      BY <1>3, <2>2, <2>3
    <3>2. Len(session) + 1 \in AfterSummary(session')
      <4>1. AfterSummary(session') = PrefixLen(session) + 1 .. Len(session) + 1
        BY <1>3, <2>2, <2>3
      <4> QED
        BY <1>1, <4>1
    <3>3. \A j \in (Len(session) + 1) + 1 .. Len(session') : FALSE
      BY <1>1, <3>1
    <3>4. \E a \in AfterSummary(session') :
            session'[a].role = "assistant" /\ \A j \in a + 1 .. Len(session') : session'[j].role = "tool"
      BY <2>3, <3>1, <3>2, <3>3, Zenon
    <3>5. owed' > 0 => running'
      BY <2>1
    <3> QED
      BY <3>4, <3>5, Zenon DEF Asked
  <2> QED
    BY <2>4, <2>5, <2>6
<1>6. CASE AddResult
  <2> DEFINE a == SelectLastInSeq(session, LAMBDA x : x.role = "assistant")
  <2>1. PICK n \in Sizes, b \in BOOLEAN :
          Add([role |-> "tool", number |-> added + 1, tokens |-> n, blank |-> b, of |-> session[a].number])
    BY <1>6 DEF AddResult
  <2>2. owed > 0 /\ owed' = owed - 1 /\ running' = running
    BY <1>6 DEF AddResult
  <2>3. a \in AfterSummary(session) /\ \A j \in a + 1 .. Len(session) : session[j].role = "tool"
    BY <2>2, TheAsker
  <2> DEFINE m == [role |-> "tool", number |-> added + 1, tokens |-> n, blank |-> b, of |-> session[a].number]
  <2>4. added < MaxMessages /\ added \in 0 .. MaxMessages
    BY <1>1, <2>2 DEF Bounded
  <2>5. session[a] \in Messages /\ session[a].number \in 1 .. MaxMessages
    <3> HIDE DEF a
    <3>1. session[a] \in Messages
      BY <2>3, PrefixOfSession DEF CompactionIInv
    <3> QED
      BY <3>1, MessageSorts
  <2>6. a \in PrefixLen(session) + 1 .. Len(session) /\ session[a].number = added - Len(session) + a
    <3> HIDE DEF a
    <3> QED
      BY <1>1, <2>3 DEF CompactionIInv, Numbered
  <2>7. m \in Messages
    <3> HIDE DEF a
    <3>1. n \in Sizes /\ b \in BOOLEAN /\ added + 1 \in 1 .. MaxMessages
      BY <1>1, <2>4
    <3> QED
      BY <2>5, <3>1 DEF Messages
  <2>8. Add(m) /\ m.number = added + 1 /\ m.role = "tool" /\ m.of = session[a].number
    BY <2>1
  <2> HIDE DEF m, a
  <2>9. m.of <= added + 1
    BY <1>1, <2>4, <2>6, <2>8
  <2>10. ASSUME NEW j \in AfterSummary(session), session[j].number > m.of
         PROVE  session[j].role = "tool"
    <3>1. j \in PrefixLen(session) + 1 .. Len(session) /\ session[j].number = added - Len(session) + j
      BY <1>1, <2>10 DEF CompactionIInv, Numbered
    <3>2. j \in a + 1 .. Len(session)
      BY <1>1, <2>4, <2>6, <2>8, <2>10, <3>1
    <3> QED
      BY <2>3, <3>2
  <2>11. Recent(session)'
    BY <2>7, <2>8, <2>9, <2>10, AddingKeepsRecent
  <2>12. Bounded'
    BY <1>1, <2>2, <2>8 DEF Add, Bounded
  <2>13. Asked'
    <3>1. PICK c \in AfterSummary(session) :
            /\ session[c].role = "assistant"
            /\ \A j \in c + 1 .. Len(session) : session[j].role = "tool"
      BY <2>2 DEF CompactionIInv, Asked
    <3>2. running
      BY <2>2 DEF CompactionIInv, Asked
    <3>3. /\ Len(session') = Len(session) + 1
          /\ \A k \in 1 .. Len(session) : session'[k] = session[k]
          /\ session'[Len(session) + 1] = m
          /\ AfterSummary(session') = PrefixLen(session) + 1 .. Len(session) + 1
      BY <1>3, <2>7, <2>8
    <3>4. c \in AfterSummary(session') /\ c \in 1 .. Len(session)
      BY <1>1, <3>1, <3>3
    <3>5. ASSUME NEW j \in c + 1 .. Len(session')
          PROVE  session'[j].role = "tool"
      <4>1. CASE j = Len(session) + 1
        BY <2>8, <3>3, <4>1
      <4>2. CASE j # Len(session) + 1
        <5>1. j \in c + 1 .. Len(session) /\ j \in 1 .. Len(session)
          BY <1>1, <3>3, <3>4, <4>2
        <5> QED
          BY <3>1, <3>3, <5>1
      <4> QED
        BY <4>1, <4>2
    <3>6. session'[c].role = "assistant"
      BY <3>1, <3>3, <3>4
    <3>7. \E x \in AfterSummary(session') :
            session'[x].role = "assistant" /\ \A j \in x + 1 .. Len(session') : session'[j].role = "tool"
      BY <3>4, <3>5, <3>6, Zenon
    <3>8. running'
      BY <2>2, <3>2
    <3> QED
      BY <3>7, <3>8, Zenon DEF Asked
  <2> QED
    BY <2>11, <2>12, <2>13
<1>7. CASE Compact
  <2>1. ~running /\ session' = Compacted(session) /\ UNCHANGED <<added, running, owed>>
    BY <1>7 DEF Compact
  <2>2. owed = 0
    BY <1>1, <2>1 DEF CompactionIInv, Asked, Bounded
  <2>3. Bounded' /\ Asked'
    BY <1>1, <2>1, <2>2 DEF Bounded, Asked
  <2>4. CASE ShouldCompact(session)
    <3>1. Recent(session)'
      BY <2>1, <2>4, CompactingKeepsRecent
    <3> QED
      BY <2>3, <3>1
  <2>5. CASE ~ShouldCompact(session)
    <3>1. session' = session
      BY <2>1, <2>5 DEF Compacted
    <3>2. Recent(session)'
      BY <2>1, <3>1 DEF CompactionIInv, Recent, Numbered, Answers, TimelineTold, ScopesCount
    <3> QED
      BY <2>3, <3>2
  <2> QED
    BY <2>4, <2>5
<1>8. CASE UNCHANGED compactionVars
  BY <1>1, <1>8 DEF compactionVars, CompactionIInv, Recent, Bounded, Numbered, Answers, Asked,
                    TimelineTold, ScopesCount
<1> QED
  BY <1>4, <1>5, <1>6, <1>7, <1>8 DEF CompactionNext

(* What is kept is what the model promises.                                *)
LEMMA CompactionInvHolds ==
  ASSUME CompactionIInv
  PROVE  CompactionInv
<1> DEFINE n == Len(session)
           p == PrefixLen(session)
<1>1. /\ n \in Nat /\ p \in {0, 1} /\ p <= n /\ added \in 0 .. MaxMessages /\ MaxMessages \in Nat
      /\ session \in Seq(Messages \cup Summaries)
      /\ HasSummary(session) <=> p = 1
      /\ HasSummary(session) => n > 0 /\ session[1] \in Summaries
      /\ AfterSummary(session) = p + 1 .. n
      /\ \A k \in AfterSummary(session) : session[k] \in Messages
  BY CompactionAssumption, PrefixOfSession DEF CompactionIInv, AfterSummary, IsSession, Bounded
<1>2. Len(Verbatim) = n - p /\ \A k \in 1 .. n - p : Verbatim[k] = session[p + k]
  <2>1. Verbatim = SubSeq(session, p + 1, n)
    BY DEF Verbatim
  <2> HIDE DEF n, p
  <2> QED
    BY <1>1, <2>1, SubSeqProperties DEF n
<1>3. Verbatim \in Seq(Messages \cup Summaries)
  BY <1>1, SubSeqProperties DEF Verbatim
<1> HIDE DEF n, p
<1>4. ASSUME NEW k \in 1 .. n - p
      PROVE  /\ Verbatim[k] \in Messages
             /\ Verbatim[k].number = added - (n - p) + k
             /\ p + k \in p + 1 .. n
  <2>1. p + k \in p + 1 .. n
    BY <1>1
  <2>2. session[p + k].number = added - n + (p + k) /\ session[p + k] \in Messages
    BY <1>1, <2>1 DEF CompactionIInv, Numbered, n
  <2>3. added - n + (p + k) = added - (n - p) + k
    <3>1. n \in Nat /\ p \in {0, 1} /\ added \in Nat
      BY <1>1
    <3> QED
      BY <3>1
  <2> QED
    BY <1>2, <2>1, <2>2, <2>3, Zenon
<1>5. n - p \in Nat
  BY <1>1
<1>6. Verbatim \in Seq(Messages) /\ DOMAIN Verbatim = 1 .. n - p
  BY <1>2, <1>3, <1>4, <1>5
<1> HIDE DEF Verbatim
<1>7. CompactionTypeOK
  BY <1>1, <1>6 DEF CompactionTypeOK, CompactionIInv, Bounded, Summaries
<1>8. NothingUncounted
  BY <1>2 DEF NothingUncounted, CompactionIInv, ScopesCount, n, p
<1>9. RecentInOrder
  BY <1>2, <1>4, <1>6 DEF RecentInOrder
<1>10. TimelineInOrder
  <2>1. CASE HasSummary(session)
    <3>1. Told(session[1].timeline, added - (n - 1)) /\ p = 1
      BY <1>1, <2>1 DEF CompactionIInv, TimelineTold, n
    <3>2. added - (n - 1) = added - Len(Verbatim)
      BY <1>2, <3>1
    <3> QED
      BY <3>1, <3>2, Zenon DEF TimelineInOrder, Told
  <2>2. CASE ~HasSummary(session)
    BY <2>2 DEF TimelineInOrder
  <2> QED
    BY <2>1, <2>2
<1>11. OrphansOnlyAtTheCut
  <2> SUFFICES ASSUME NEW k \in 1 .. n - p, Verbatim[k].role = "tool",
                      Verbatim[k].of \notin ToSet(Numbers(Verbatim))
               PROVE  HasSummary(session) /\ \A j \in 1 .. k : Verbatim[j].role = "tool"
    BY <1>6 DEF OrphansOnlyAtTheCut
  <2>1. /\ Verbatim[k].of \in 1 .. MaxMessages /\ Verbatim[k] = session[p + k]
        /\ Verbatim[k].number = added - (n - p) + k
    BY <1>2, <1>4, MessageSorts
  <2>2. /\ session[p + k].of <= session[p + k].number
        /\ \A j \in p + 1 .. p + k : session[j].number > session[p + k].of => session[j].role = "tool"
    <3>1. p + k \in AfterSummary(session) /\ session[p + k].role = "tool"
      BY <1>1, <1>4, <2>1
    <3> QED
      BY <3>1, Zenon DEF CompactionIInv, Answers, p
  <2>3. Verbatim[k].of < added - (n - p) + 1
    <3> SUFFICES ASSUME ~(Verbatim[k].of < added - (n - p) + 1) PROVE FALSE
      OBVIOUS
    <3> DEFINE i == Verbatim[k].of - (added - (n - p))
    <3>1. i \in 1 .. n - p /\ added - (n - p) + i = Verbatim[k].of
      BY <1>1, <1>5, <2>1, <2>2
    <3> HIDE DEF i
    <3>2. Verbatim[i].number = Verbatim[k].of
      BY <1>4, <3>1
    <3>3. i \in DOMAIN Numbers(Verbatim) /\ Numbers(Verbatim)[i] = Verbatim[k].of
      BY <1>6, <3>1, <3>2 DEF Numbers
    <3>4. Verbatim[k].of \in ToSet(Numbers(Verbatim))
      BY <3>3 DEF ToSet
    <3> QED
      BY <3>4
  <2>4. ASSUME NEW j \in 1 .. k PROVE Verbatim[j].role = "tool"
    <3>1. j \in 1 .. n - p /\ p + j \in p + 1 .. p + k
      BY <1>1, <1>5
    <3>2. Verbatim[j].number = added - (n - p) + j /\ Verbatim[j] = session[p + j]
      BY <1>2, <1>4, <3>1
    <3>3. Verbatim[j].number > Verbatim[k].of
      BY <1>1, <2>1, <2>3, <3>2
    <3> QED
      BY <2>1, <2>2, <3>1, <3>2, <3>3
  <2>5. HasSummary(session)
    <3> SUFFICES ASSUME ~HasSummary(session) PROVE FALSE
      OBVIOUS
    <3>1. p = 0 /\ Scopes(session) = <<>>
      BY <1>1 DEF Scopes
    <3>2. Counted(<<>>) = 0
      <4>1. <<>> \in Seq(Nat) /\ 0 \in Nat
        OBVIOUS
      <4> QED
        BY <4>1, CountedAdds
    <3>3. Counted(Scopes(session)) + (n - p) = added
      BY DEF CompactionIInv, ScopesCount, n, p
    <3>4. n = added
      BY <1>1, <3>1, <3>2, <3>3
    <3> QED
      BY <1>1, <2>1, <2>3, <3>1, <3>4
  <2> QED
    BY <2>4, <2>5
<1> QED
  BY <1>7, <1>8, <1>9, <1>10, <1>11 DEF CompactionInv, OrderKept

(* An empty session forgets nothing.                                       *)
LEMMA CompactionStarts == CompactionInit => CompactionIInv
<1> SUFFICES ASSUME CompactionInit PROVE CompactionIInv
  OBVIOUS
<1>1. session = <<>> /\ added = 0 /\ running = FALSE /\ owed = 0 /\ MaxMessages \in Nat
  BY CompactionAssumption DEF CompactionInit
<1>2. Len(session) = 0 /\ ~HasSummary(session) /\ PrefixLen(session) = 0
  BY <1>1 DEF HasSummary, PrefixLen
<1>3. AfterSummary(session) = {}
  BY <1>2 DEF AfterSummary
<1>4. IsSession(session)
  BY <1>1 DEF IsSession
<1>5. ScopesCount(session)
  <2>1. Scopes(session) = <<>>
    BY <1>2 DEF Scopes
  <2>2. <<>> \in Seq(Nat) /\ 0 \in Nat
    OBVIOUS
  <2>3. Counted(<<>>) = 0
    BY <2>2, CountedAdds
  <2> QED
    BY <1>1, <1>2, <2>1, <2>3 DEF ScopesCount
<1>6. Numbered(session) /\ Answers(session)
  BY <1>3, Zenon DEF Numbered, Answers
<1>7. Bounded /\ Asked
  <2>1. added = 0 /\ owed = 0 /\ running = FALSE /\ MaxMessages \in Nat
    BY <1>1
  <2>2. Bounded
    <3>1. running \in BOOLEAN
      BY <2>1, Zenon
    <3>2. added \in 0 .. MaxMessages /\ owed \in 0 .. 2 /\ added + owed <= MaxMessages
      BY <2>1
    <3> QED
      BY <3>1, <3>2, Zenon DEF Bounded
  <2>3. ~(owed > 0)
    BY <2>1
  <2> QED
    BY <2>2, <2>3, Zenon DEF Asked
<1>8. TimelineTold(session)
  BY <1>2 DEF TimelineTold
<1> QED
  BY <1>4, <1>5, <1>6, <1>7, <1>8 DEF CompactionIInv

(* However often a session is compacted, the scopes of its summary and the *)
(* messages still there count the whole conversation, both are in order,   *)
(* and no result is orphaned but at the cut (compact_session,              *)
(* merge_compact_summaries).                                               *)
THEOREM NothingIsForgotten == CompactionSpec => []CompactionInv
<1>1. CompactionIInv /\ [CompactionNext]_compactionVars => CompactionIInv'
  BY CompactionInductive
<1>2. CompactionIInv => CompactionInv
  BY CompactionInvHolds
<1> QED
  BY <1>1, <1>2, CompactionStarts, PTL DEF CompactionSpec

(* A compaction of what was just compacted changes nothing, and none adds  *)
(* to a session (should_compact).                                          *)
THEOREM CompactingTwiceIsOnce == CompactionSpec => CompactionSettles
<1> DEFINE Settles == added' = added /\ session' # session =>
                        Compacted(session') = session' /\ Len(session') <= Len(session)
<1>1. ASSUME CompactionIInv, [CompactionNext]_compactionVars, added' = added, session' # session
      PROVE  Compacted(session') = session' /\ Len(session') <= Len(session)
  <2>1. Compact
    <3>1. added + 1 # added
      BY <1>1 DEF CompactionIInv, Bounded
    <3> QED
      BY <1>1, <3>1 DEF CompactionNext, compactionVars, AddUser, AddAssistant, AddResult, Add
  <2>2. session' = Compacted(session) /\ ShouldCompact(session)
    BY <1>1, <2>1 DEF Compact, Compacted
  <2>3. Recent(session)' /\ PrefixLen(session') = 1 /\ Len(session') = Preserve + 1
        /\ Len(session') <= Len(session)
    BY <1>1, <2>2, CompactingKeepsRecent
  <2>4. ~ShouldCompact(session')
    <3>1. session' \in Seq(Messages \cup Summaries) /\ Preserve \in Nat
      BY <2>3, CompactionAssumption DEF Recent, IsSession
    <3>2. Len(SubSeq(session', PrefixLen(session') + 1, Len(session'))) = Preserve
      BY <2>3, <3>1, SubSeqProperties
    <3>3. ~(Preserve > Preserve)
      BY <3>1
    <3> QED
      BY <3>2, <3>3, Zenon DEF ShouldCompact
  <2> QED
    BY <2>3, <2>4 DEF Compacted
<1>2. CompactionIInv /\ [CompactionNext]_compactionVars => CompactionIInv'
  BY CompactionInductive
<1>3. CompactionIInv /\ [CompactionNext]_compactionVars => [Settles]_compactionVars
  BY <1>1
<1> QED
  BY <1>2, <1>3, CompactionStarts, PTL DEF CompactionSpec, CompactionSettles

-----------------------------------------------------------------------------
(* Lines that .gitignore may have, each of them once.                      *)
GitignoreLines == ToSet(Entries) \cup {"user"}
AreLines(ls) == ls \in Seq(GitignoreLines) /\ \A j, k \in DOMAIN ls : ls[j] = ls[k] => j = k
Running == working.at \in {"look", "write", "writing"}
Writing(f) == working.at = "writing" /\ WorkedOn = f

RepositoryTyped ==
  /\ working \in [at : {"rest", "done", "look", "write", "writing"}, file : 0 .. 3]
  /\ Running => working.file \in 1 .. 3
  /\ made \in [InitFiles -> {"absent", "torn", "ours", "user"}]
  /\ AreLines(lines) /\ AreLines(toWrite)
  /\ theirs \subseteq InitFiles

(* An init has made or found the files before the one it works on; what is *)
(* torn is being written, or was when an init ended.                       *)
FilesAreFound ==
  /\ Running => \A k \in 1 .. working.file - 1 : made[FileOrder[k]] # "absent"
  /\ working.at = "done" => \A f \in InitFiles : made[f] # "absent"
  /\ \A f \in InitFiles : made[f] = "torn" => f \in cut \/ Writing(f)
  /\ \A f \in theirs : made[f] # "absent"

(* An init that is about to write a file of the user lets them keep it, or *)
(* their line, unless they wrote it in between.                            *)
LinesAreCarried ==
  working.at \in {"write", "writing"} /\ WorkedOn \in theirs \ raced =>
    /\ WorkedOn = ".gitignore"
    /\ "user" \in ToSet(toWrite) \/ WorkedOn \in cut

(* What an init is about to write to .gitignore has all the entries, and   *)
(* once it has seen to it, they are there until the user writes another.   *)
EntriesAreThere ==
  /\ working.at \in {"write", "writing"} /\ WorkedOn = ".gitignore" => ToSet(Entries) \subseteq ToSet(toWrite)
  /\ (Running /\ working.file = 3) \/ working.at = "done" =>
       ".gitignore" \in edited \/ ToSet(Entries) \subseteq ToSet(lines)

RepositoryIInv ==
  /\ RepositoryTyped /\ FilesAreFound /\ LinesAreCarried /\ EntriesAreThere
  /\ WhatIsTheirsStays /\ EveryLanguageIsChecked

(* The files of an init, and that each has its place in the order.         *)
LEMMA TheFiles ==
  /\ InitFiles = {".claw.json", ".gitignore", "CLAW.md"} /\ Len(FileOrder) = 3
  /\ \A k \in 1 .. 3 : FileOrder[k] \in InitFiles
  /\ \A f \in InitFiles : \E k \in 1 .. 3 : FileOrder[k] = f
  /\ FileOrder[1] # ".gitignore" /\ FileOrder[2] = ".gitignore" /\ FileOrder[3] # ".gitignore"
<1>1. Len(FileOrder) = 3 /\ DOMAIN FileOrder = 1 .. 3
  BY DEF FileOrder
<1>2. FileOrder[1] = ".claw.json" /\ FileOrder[2] = ".gitignore" /\ FileOrder[3] = "CLAW.md"
  BY DEF FileOrder
<1>3. InitFiles = {FileOrder[k] : k \in 1 .. 3}
  BY <1>1, Zenon DEF InitFiles, ToSet
<1>4. \A k \in 1 .. 3 : k = 1 \/ k = 2 \/ k = 3
  OBVIOUS
<1>5. 1 \in 1 .. 3 /\ 2 \in 1 .. 3 /\ 3 \in 1 .. 3
  OBVIOUS
<1>6. InitFiles = {".claw.json", ".gitignore", "CLAW.md"}
  BY <1>2, <1>3, <1>4, <1>5, Zenon
<1>7. FileOrder[1] # ".gitignore" /\ FileOrder[3] # ".gitignore"
  BY <1>2
<1> QED
  BY <1>1, <1>2, <1>3, <1>6, <1>7, Zenon

(* A line that is added if it is missing is there once.                    *)
LEMMA WithKeepsLines ==
  ASSUME NEW ls, AreLines(ls), NEW e \in GitignoreLines
  PROVE  /\ AreLines(With(ls, e)) /\ ToSet(ls) \subseteq ToSet(With(ls, e))
         /\ e \in ToSet(With(ls, e))
<1>1. CASE e \in ToSet(ls)
  BY <1>1 DEF With
<1>2. CASE e \notin ToSet(ls)
  <2> DEFINE t == Append(ls, e)
  <2>1. With(ls, e) = t
    BY <1>2 DEF With
  <2>2. /\ ls \in Seq(GitignoreLines) /\ Len(ls) \in Nat /\ DOMAIN ls = 1 .. Len(ls)
        /\ \A k \in 1 .. Len(ls) : ls[k] # e
    BY <1>2 DEF AreLines, ToSet
  <2>3. /\ t \in Seq(GitignoreLines) /\ DOMAIN t = 1 .. Len(ls) + 1
        /\ \A k \in 1 .. Len(ls) : t[k] = ls[k]
        /\ t[Len(ls) + 1] = e
    BY <2>2
  <2> HIDE DEF t
  <2>4. ASSUME NEW j \in 1 .. Len(ls) + 1, NEW k \in 1 .. Len(ls) + 1, t[j] = t[k]
        PROVE  j = k
    <3>1. \A i \in 1 .. Len(ls) + 1 : i = Len(ls) + 1 \/ i \in 1 .. Len(ls)
      BY <2>2
    <3>2. \A i, m \in 1 .. Len(ls) : ls[i] = ls[m] => i = m
      BY <2>2 DEF AreLines
    <3> QED
      BY <2>2, <2>3, <2>4, <3>1, <3>2, Zenon
  <2>5. ToSet(ls) \subseteq ToSet(t)
    <3>1. \A k \in 1 .. Len(ls) : k \in 1 .. Len(ls) + 1
      BY <2>2
    <3> QED
      BY <2>2, <2>3, <3>1 DEF ToSet
  <2>6. e \in ToSet(t)
    <3>1. Len(ls) + 1 \in 1 .. Len(ls) + 1
      BY <2>2
    <3> QED
      BY <2>3, <3>1, Zenon DEF ToSet
  <2> QED
    BY <2>1, <2>3, <2>4, <2>5, <2>6, Zenon DEF AreLines
<1> QED
  BY <1>1, <1>2

(* The entries are lines.                                                  *)
LEMMA TheEntries ==
  /\ Entries[1] \in GitignoreLines /\ Entries[2] \in GitignoreLines /\ Entries[3] \in GitignoreLines
  /\ \A e \in ToSet(Entries) : e = Entries[1] \/ e = Entries[2] \/ e = Entries[3]
<1>1. DOMAIN Entries = 1 .. 3 /\ 1 \in 1 .. 3 /\ 2 \in 1 .. 3 /\ 3 \in 1 .. 3
  BY DEF Entries
<1>2. \A k \in 1 .. 3 : k = 1 \/ k = 2 \/ k = 3
  OBVIOUS
<1> QED
  BY <1>1, <1>2, Zenon DEF GitignoreLines, ToSet

(* What is merged has every line that was there, every entry, and no line  *)
(* twice.                                                                  *)
LEMMA MergedKeepsLines ==
  ASSUME AreLines(lines)
  PROVE  /\ AreLines(Merged)
         /\ made[".gitignore"] # "absent" => ToSet(lines) \subseteq ToSet(Merged)
         /\ ToSet(Entries) \subseteq ToSet(Merged)
<1> DEFINE ls == IF made[".gitignore"] = "absent" THEN <<>> ELSE lines
<1>1. AreLines(ls)
  BY DEF AreLines
<1>2. Merged = With(With(With(ls, Entries[1]), Entries[2]), Entries[3])
  BY Zenon DEF Merged
<1>3. made[".gitignore"] # "absent" => ls = lines
  OBVIOUS
<1> HIDE DEF ls
<1>4. /\ AreLines(With(ls, Entries[1])) /\ ToSet(ls) \subseteq ToSet(With(ls, Entries[1]))
      /\ Entries[1] \in ToSet(With(ls, Entries[1]))
  BY <1>1, TheEntries, WithKeepsLines, Zenon
<1> DEFINE l1 == With(ls, Entries[1])
<1> HIDE DEF l1
<1>5. /\ AreLines(With(l1, Entries[2])) /\ ToSet(l1) \subseteq ToSet(With(l1, Entries[2]))
      /\ Entries[2] \in ToSet(With(l1, Entries[2]))
  BY <1>4, TheEntries, WithKeepsLines, Zenon DEF l1
<1> DEFINE l2 == With(l1, Entries[2])
<1> HIDE DEF l2
<1>6. /\ AreLines(With(l2, Entries[3])) /\ ToSet(l2) \subseteq ToSet(With(l2, Entries[3]))
      /\ Entries[3] \in ToSet(With(l2, Entries[3]))
  BY <1>5, TheEntries, WithKeepsLines, Zenon DEF l2
<1>7. Merged = With(l2, Entries[3])
  BY <1>2, Zenon DEF l1, l2
<1>8. ToSet(ls) \subseteq ToSet(Merged)
  BY <1>4, <1>5, <1>6, <1>7 DEF l1, l2
<1>9. ToSet(Entries) \subseteq ToSet(Merged)
  <2>1. Entries[1] \in ToSet(Merged) /\ Entries[2] \in ToSet(Merged) /\ Entries[3] \in ToSet(Merged)
    BY <1>4, <1>5, <1>6, <1>7 DEF l1, l2
  <2> QED
    BY <2>1, TheEntries, Zenon
<1> QED
  BY <1>3, <1>6, <1>7, <1>8, <1>9, Zenon

(* What a rendered CLAW.md names, it has a way to check.                   *)
LEMMA GuidanceIsChecked ==
  ASSUME NEW m, NEW g, g = RenderInitClawMd(DetectRepo(m))
  PROVE  /\ "Rust" \in g => {"cargo", "cargo in rust"} \cap g # {}
         /\ "Python" \in g => {"python", "pyproject"} \cap g # {}
         /\ (Frameworks \cup {"JavaScript"}) \cap g # {} => "npm" \in g
<1> DEFINE d == DetectRepo(m)
<1>1. g = Languages(d) \cup Checks(d) \cup Notes(d)
  BY DEF RenderInitClawMd
<1>2. \A n \in Frameworks : n \in d => "package.json" \in d
  BY DEF DetectRepo, Frameworks
<1> HIDE DEF d
<1>3. /\ "cargo in rust" \in Checks(d) <=> "rust/Cargo.toml" \in d
      /\ "cargo" \in Checks(d) <=> "Cargo.toml" \in d /\ "rust/Cargo.toml" \notin d
      /\ "pyproject" \in Checks(d) <=> "pyproject.toml" \in d
      /\ "python" \in Checks(d) <=> "Python" \in Languages(d) /\ "pyproject.toml" \notin d
      /\ "npm" \in Checks(d) <=> "package.json" \in d
      /\ Checks(d) \subseteq {"cargo in rust", "cargo", "pyproject", "python", "npm"}
  BY DEF Checks
<1>4. /\ "Rust" \in Languages(d) => {"Cargo.toml", "rust/Cargo.toml"} \cap d # {}
      /\ "JavaScript" \in Languages(d) => "package.json" \in d
      /\ Languages(d) \subseteq {"Rust", "Python", "TypeScript", "JavaScript"}
  BY DEF Languages
<1>5. Notes(d) \subseteq Frameworks /\ \A n \in Notes(d) : n \in d
  BY DEF Notes
<1>6. "Rust" \in g => "Rust" \in Languages(d)
  BY <1>1, <1>3, <1>5 DEF Frameworks
<1>7. "Python" \in g => "Python" \in Languages(d)
  BY <1>1, <1>3, <1>5 DEF Frameworks
<1>8. ASSUME NEW n \in (Frameworks \cup {"JavaScript"}) \cap g PROVE "package.json" \in d
  <2>1. CASE n = "JavaScript"
    BY <1>1, <1>3, <1>4, <1>5, <1>8, <2>1 DEF Frameworks
  <2>2. CASE n \in Frameworks
    <3>1. n \in Notes(d)
      BY <1>1, <1>3, <1>4, <1>8, <2>2 DEF Frameworks
    <3> QED
      BY <1>2, <1>5, <2>2, <3>1
  <2> QED
    BY <1>8, <2>1, <2>2
<1> QED
  BY <1>1, <1>3, <1>4, <1>6, <1>7, <1>8

(* A file of the user has their line, and no line twice.                  *)
LEMMA ArrangementsAreLines ==
  ASSUME NEW kept \in Arrangements
  PROVE  AreLines(Append(kept, "user")) /\ "user" \in ToSet(Append(kept, "user"))
<1>1. ToSet(Entries) = {"comment", "settings.local.json", "sessions"}
  <2>1. DOMAIN Entries = 1 .. 3 /\ Entries[1] = "comment" /\ Entries[2] = "settings.local.json"
        /\ Entries[3] = "sessions" /\ 1 \in 1 .. 3 /\ 2 \in 1 .. 3 /\ 3 \in 1 .. 3
    BY DEF Entries
  <2>2. \A k \in 1 .. 3 : k = 1 \/ k = 2 \/ k = 3
    OBVIOUS
  <2> QED
    BY <2>1, <2>2, Zenon DEF ToSet
<1>2. PICK n \in 0 .. Len(Entries) : kept \in [1 .. n -> ToSet(Entries)] /\ IsInjective(kept)
  BY DEF Arrangements
<1>3. n \in Nat /\ DOMAIN kept = 1 .. n
  BY <1>2
<1>4. \A k \in 1 .. n : kept[k] \in ToSet(Entries)
  BY <1>2
<1> HIDE DEF Entries
<1>5. kept \in Seq(GitignoreLines) /\ Len(kept) = n
  <2>1. kept \in [1 .. n -> GitignoreLines]
    BY <1>2, <1>3, <1>4, Zenon DEF GitignoreLines
  <2> QED
    BY <1>3, <2>1
<1>6. "user" \notin ToSet(kept)
  BY <1>1, <1>3, <1>4 DEF ToSet
<1>7. AreLines(kept)
  BY <1>2, <1>3, <1>5, Zenon DEF AreLines, IsInjective
<1>8. AreLines(With(kept, "user"))
  BY <1>7, WithKeepsLines, Zenon DEF GitignoreLines
<1>9. With(kept, "user") = Append(kept, "user")
  BY <1>6 DEF With
<1>10. "user" \in ToSet(Append(kept, "user"))
  <2>1. n + 1 \in DOMAIN Append(kept, "user") /\ Append(kept, "user")[n + 1] = "user"
    BY <1>3, <1>5
  <2> QED
    BY <2>1, Zenon DEF ToSet
<1> QED
  BY <1>8, <1>9, <1>10, Zenon

(* A repository without any of the files.                                  *)
LEMMA RepositoryStarts == RepositoryInit => RepositoryIInv
<1> SUFFICES ASSUME RepositoryInit PROVE RepositoryIInv
  OBVIOUS
<1>1. AreLines(<<>>)
  BY DEF AreLines
<1>2. RepositoryTyped
  BY <1>1 DEF RepositoryInit, RepositoryTyped, NotRunning, Running
<1> QED
  BY <1>2 DEF RepositoryInit, RepositoryIInv, FilesAreFound, LinesAreCarried, EntriesAreThere,
              NotRunning, Running, WhatIsTheirsStays, EveryLanguageIsChecked, Writing

(* The next file to look at is found, if this one is.                      *)
LEMMA LookingOn ==
  ASSUME RepositoryIInv, Running, working' = Look(working.file + 1)
  PROVE  /\ working' \in [at : {"rest", "done", "look", "write", "writing"}, file : 0 .. 3]
         /\ working'.at \in {"look", "done"}
         /\ Running' => working'.file \in 1 .. 3
         /\ working'.file = 3 \/ working'.at = "done" => working.file \in {2, 3}
         /\ (/\ \A f \in InitFiles : made[f] # "absent" => made'[f] # "absent"
             /\ made'[WorkedOn] # "absent")
            => /\ Running' => \A k \in 1 .. working'.file - 1 : made'[FileOrder[k]] # "absent"
               /\ working'.at = "done" => \A f \in InitFiles : made'[f] # "absent"
<1>1. working.file \in 1 .. 3
  BY DEF RepositoryIInv, RepositoryTyped
<1>2. \A k \in 1 .. working.file - 1 : made[FileOrder[k]] # "absent"
  BY DEF RepositoryIInv, FilesAreFound
<1>3. CASE working.file = 3
  <2>1. working' = [at |-> "done", file |-> 0]
    BY <1>3, TheFiles DEF Look
  <2>2. ~Running' /\ working'.at = "done"
    BY <2>1 DEF Running
  <2>3. ASSUME \A f \in InitFiles : made[f] # "absent" => made'[f] # "absent",
               made'[WorkedOn] # "absent", NEW f \in InitFiles
        PROVE  made'[f] # "absent"
    <3>1. PICK k \in 1 .. 3 : FileOrder[k] = f
      BY TheFiles, Zenon
    <3>2. k = 3 \/ k \in 1 .. working.file - 1
      BY <1>3
    <3> QED
      BY <1>2, <1>3, <2>3, <3>1, <3>2, Zenon DEF WorkedOn
  <2> QED
    BY <1>3, <2>1, <2>2, <2>3
<1>4. CASE working.file # 3
  <2>1. working' = [at |-> "look", file |-> working.file + 1]
    BY <1>1, <1>4, TheFiles DEF Look
  <2>2. working'.file = working.file + 1 /\ working'.at = "look"
    BY <2>1
  <2>3. ASSUME \A f \in InitFiles : made[f] # "absent" => made'[f] # "absent",
               made'[WorkedOn] # "absent", NEW k \in 1 .. working'.file - 1
        PROVE  made'[FileOrder[k]] # "absent"
    <3>1. k = working.file \/ k \in 1 .. working.file - 1
      BY <1>1, <2>2
    <3>2. k \in 1 .. 3
      BY <1>1, <3>1
    <3>3. FileOrder[k] \in InitFiles
      BY <3>2, TheFiles, Zenon
    <3> QED
      BY <1>2, <2>3, <3>1, <3>3, Zenon DEF WorkedOn
  <2>4. working' \in [at : {"rest", "done", "look", "write", "writing"}, file : 0 .. 3]
        /\ working'.file \in 1 .. 3
    BY <1>1, <1>4, <2>1
  <2>5. working'.file = 3 => working.file = 2
    BY <1>1, <2>2
  <2>6. working'.at # "done"
    BY <2>2
  <2> QED
    BY <2>2, <2>3, <2>4, <2>5, <2>6
<1> QED
  BY <1>3, <1>4

(* Every step of an init, its end, and every edit of the user keep it.     *)
LEMMA RepositoryInductive ==
  ASSUME RepositoryIInv, [RepositoryNext]_repoVars
  PROVE  RepositoryIInv'
<1>1. /\ RepositoryTyped /\ FilesAreFound /\ LinesAreCarried /\ EntriesAreThere
      /\ WhatIsTheirsStays /\ EveryLanguageIsChecked
  BY DEF RepositoryIInv
<1>2. Running => WorkedOn \in InitFiles
  BY <1>1, TheFiles DEF RepositoryTyped, WorkedOn
<1>3. CASE Begin
  <2>1. working' = [at |-> "look", file |-> 1]
    BY <1>3, TheFiles DEF Begin, Look
  <2>2. UNCHANGED <<made, lines, toWrite, guidance, cut, theirs, raced, edited>> /\ working.at \notin {"writing"}
    BY <1>3 DEF Begin
  <2>3. RepositoryTyped'
    BY <1>1, <2>1, <2>2 DEF RepositoryTyped, Running, AreLines
  <2>4. FilesAreFound'
    BY <1>1, <2>1, <2>2 DEF FilesAreFound, Running, Writing
  <2>5. LinesAreCarried'
    BY <2>1 DEF LinesAreCarried
  <2>6. WhatIsTheirsStays'
    BY <1>1, <2>1, <2>2 DEF WhatIsTheirsStays
  <2>7. EveryLanguageIsChecked'
    BY <1>1, <2>2 DEF EveryLanguageIsChecked
  <2>8. EntriesAreThere'
    BY <2>1 DEF EntriesAreThere
  <2> QED
    BY <2>3, <2>4, <2>5, <2>6, <2>7, <2>8 DEF RepositoryIInv
<1>4. CASE LookAtFile
  <2>1. working.at = "look" /\ UNCHANGED <<made, lines, guidance, cut, theirs, raced>> /\ Running
        /\ edited' = edited \ {WorkedOn}
    BY <1>4 DEF LookAtFile, Running
  <2>2. EveryLanguageIsChecked'
    BY <1>1, <2>1 DEF EveryLanguageIsChecked
  <2>3. WhatIsTheirsStays'
    BY <1>1, <2>1 DEF WhatIsTheirsStays
  <2>4. CASE made[WorkedOn] = "absent" \/ (WorkedOn = ".gitignore" /\ Merged # lines)
    <3>1. /\ working' = [working EXCEPT !.at = "write"]
          /\ toWrite' = IF WorkedOn = ".gitignore" THEN Merged ELSE toWrite
      BY <1>4, <2>4 DEF LookAtFile
    <3>2. working'.at = "write" /\ working'.file = working.file /\ WorkedOn' = WorkedOn
      BY <1>1, <3>1 DEF RepositoryTyped, WorkedOn
    <3>3. AreLines(toWrite)'
      <4>1. AreLines(lines) /\ AreLines(toWrite)
        BY <1>1 DEF RepositoryTyped
      <4>2. AreLines(Merged)
        BY <4>1, MergedKeepsLines
      <4> QED
        BY <3>1, <4>1, <4>2 DEF AreLines
    <3>4. RepositoryTyped'
      BY <1>1, <2>1, <3>1, <3>2, <3>3 DEF RepositoryTyped, Running, AreLines
    <3>5. FilesAreFound'
      BY <1>1, <2>1, <3>2 DEF FilesAreFound, Running, Writing
    <3>6. LinesAreCarried'
      <4> SUFFICES ASSUME WorkedOn \in theirs \ raced
                   PROVE  WorkedOn = ".gitignore" /\ ("user" \in ToSet(toWrite') \/ WorkedOn \in cut)
        BY <2>1, <3>2 DEF LinesAreCarried
      <4>1. made[WorkedOn] # "absent"
        BY <1>1 DEF FilesAreFound
      <4>2. WorkedOn = ".gitignore" /\ toWrite' = Merged
        BY <2>4, <3>1, <4>1
      <4>3. "user" \in ToSet(lines) \/ WorkedOn \in cut
        BY <1>1, <2>1, <4>2 DEF WhatIsTheirsStays
      <4>4. ToSet(lines) \subseteq ToSet(Merged)
        BY <1>1, <4>1, <4>2, MergedKeepsLines DEF RepositoryTyped
      <4> QED
        BY <4>2, <4>3, <4>4
    <3>7. EntriesAreThere'
      <4>1. AreLines(lines) /\ ToSet(Entries) \subseteq ToSet(Merged)
        BY <1>1, MergedKeepsLines DEF RepositoryTyped
      <4>2. WorkedOn = ".gitignore" => ToSet(Entries) \subseteq ToSet(toWrite')
        BY <3>1, <4>1
      <4>3. ASSUME working'.file = 3 PROVE ".gitignore" \in edited' \/ ToSet(Entries) \subseteq ToSet(lines')
        BY <1>1, <2>1, <3>2, <4>3, TheFiles, Zenon DEF EntriesAreThere, WorkedOn
      <4> QED
        BY <3>2, <4>2, <4>3 DEF EntriesAreThere
    <3> QED
      BY <2>2, <2>3, <3>4, <3>5, <3>6, <3>7 DEF RepositoryIInv
  <2>5. CASE ~(made[WorkedOn] = "absent" \/ (WorkedOn = ".gitignore" /\ Merged # lines))
    <3>1. working' = Look(working.file + 1) /\ toWrite' = toWrite /\ made[WorkedOn] # "absent"
      BY <1>4, <2>5 DEF LookAtFile
    <3>2. /\ working' \in [at : {"rest", "done", "look", "write", "writing"}, file : 0 .. 3]
          /\ working'.at \in {"look", "done"}
          /\ Running' => working'.file \in 1 .. 3
          /\ working'.file = 3 \/ working'.at = "done" => working.file \in {2, 3}
          /\ Running' => \A k \in 1 .. working'.file - 1 : made'[FileOrder[k]] # "absent"
          /\ working'.at = "done" => \A f \in InitFiles : made'[f] # "absent"
      BY <2>1, <3>1, LookingOn
    <3>3. RepositoryTyped'
      BY <1>1, <2>1, <3>1, <3>2 DEF RepositoryTyped, AreLines
    <3>4. FilesAreFound'
      BY <1>1, <2>1, <3>2 DEF FilesAreFound, Writing
    <3>5. LinesAreCarried'
      BY <3>2 DEF LinesAreCarried
    <3>6. EntriesAreThere'
      <4> SUFFICES ASSUME working'.file = 3 \/ working'.at = "done"
                   PROVE  ".gitignore" \in edited' \/ ToSet(Entries) \subseteq ToSet(lines)
        BY <2>1, <3>2 DEF EntriesAreThere
      <4>1. CASE working.file = 2
        <5>1. Merged = lines
          BY <2>5, <4>1, TheFiles DEF WorkedOn
        <5>2. ToSet(Entries) \subseteq ToSet(Merged)
          BY <1>1, MergedKeepsLines DEF RepositoryTyped
        <5> QED
          BY <5>1, <5>2
      <4>2. CASE working.file = 3
        BY <1>1, <2>1, <4>2, TheFiles, Zenon DEF EntriesAreThere, WorkedOn
      <4> QED
        BY <3>2, <4>1, <4>2
    <3> QED
      BY <2>2, <2>3, <3>3, <3>4, <3>5, <3>6 DEF RepositoryIInv
  <2> QED
    BY <2>4, <2>5
<1>5. CASE TruncateFile
  <2>1. /\ working.at = "write" /\ Running
        /\ working' = [working EXCEPT !.at = "writing"]
        /\ made' = [made EXCEPT ![WorkedOn] = "torn"]
        /\ lines' = IF WorkedOn = ".gitignore" THEN <<>> ELSE lines
        /\ UNCHANGED <<toWrite, guidance, cut, theirs, raced, edited>>
    BY <1>5 DEF TruncateFile, Running
  <2>2. working'.at = "writing" /\ working'.file = working.file /\ WorkedOn' = WorkedOn
    BY <1>1, <2>1 DEF RepositoryTyped, WorkedOn
  <2>3. /\ made'[WorkedOn] = "torn"
        /\ \A f \in InitFiles : f # WorkedOn => made'[f] = made[f]
        /\ \A f \in InitFiles : made[f] # "absent" => made'[f] # "absent"
    BY <1>1, <1>2, <2>1 DEF RepositoryTyped
  <2>4. AreLines(lines)'
    BY <1>1, <2>1 DEF RepositoryTyped, AreLines
  <2>5. RepositoryTyped'
    BY <1>1, <2>1, <2>2, <2>4 DEF RepositoryTyped, Running, AreLines
  <2>6. FilesAreFound'
    <3>1. ASSUME NEW k \in 1 .. working'.file - 1 PROVE made'[FileOrder[k]] # "absent"
      <4>1. k \in 1 .. working.file - 1 /\ k \in 1 .. 3
        BY <1>1, <2>1, <2>2 DEF RepositoryTyped
      <4> QED
        BY <1>1, <2>1, <2>3, <4>1, TheFiles, Zenon DEF FilesAreFound
    <3>2. \A f \in InitFiles : made'[f] = "torn" => f \in cut' \/ Writing(f)'
      <4>1. \A f \in InitFiles : made[f] = "torn" => f \in cut
        BY <1>1, <2>1 DEF FilesAreFound, Writing
      <4> QED
        BY <2>1, <2>2, <2>3, <4>1, Zenon DEF Writing
    <3>3. \A f \in theirs' : made'[f] # "absent"
      BY <1>1, <2>1, <2>3 DEF FilesAreFound, RepositoryTyped
    <3> QED
      BY <2>2, <3>1, <3>2, <3>3 DEF FilesAreFound
  <2>7. LinesAreCarried'
    BY <1>1, <2>1, <2>2 DEF LinesAreCarried
  <2>8. WhatIsTheirsStays'
    <3> SUFFICES ASSUME NEW f \in theirs \ raced
                 PROVE  IF f # ".gitignore" THEN made'[f] = "user"
                        ELSE "user" \in ToSet(lines') \/ f \in cut \/ WorkedOn = f
      BY <2>1, <2>2 DEF WhatIsTheirsStays
    <3>1. f \in InitFiles
      BY <1>1 DEF RepositoryTyped
    <3>2. f = WorkedOn => f = ".gitignore"
      BY <1>1, <2>1 DEF LinesAreCarried
    <3>3. f # ".gitignore" => made[f] = "user"
      BY <1>1 DEF WhatIsTheirsStays
    <3>4. f = ".gitignore" => "user" \in ToSet(lines) \/ f \in cut
      BY <1>1, <2>1 DEF WhatIsTheirsStays
    <3>5. WorkedOn # f /\ f = ".gitignore" => lines' = lines
      BY <2>1
    <3> QED
      BY <2>3, <3>1, <3>2, <3>3, <3>4, <3>5, Zenon
  <2>9. EveryLanguageIsChecked'
    BY <1>1, <2>1 DEF EveryLanguageIsChecked
  <2>10. EntriesAreThere'
    <3>1. working.file = 3 => WorkedOn # ".gitignore"
      BY TheFiles DEF WorkedOn
    <3> QED
      BY <1>1, <2>1, <2>2, <3>1 DEF EntriesAreThere, Running
  <2> QED
    BY <2>5, <2>6, <2>7, <2>8, <2>9, <2>10 DEF RepositoryIInv
<1>6. CASE WriteFile
  <2>1. /\ working.at = "writing" /\ Running
        /\ made' = [made EXCEPT ![WorkedOn] = "ours"]
        /\ lines' = IF WorkedOn = ".gitignore" THEN toWrite ELSE lines
        /\ working' = Look(working.file + 1)
        /\ UNCHANGED <<toWrite, cut, theirs, raced>> /\ edited' = edited \ {WorkedOn}
    BY <1>6 DEF WriteFile, Running
  <2>2. /\ made'[WorkedOn] = "ours"
        /\ \A f \in InitFiles : f # WorkedOn => made'[f] = made[f]
        /\ \A f \in InitFiles : made[f] # "absent" => made'[f] # "absent"
        /\ made'[WorkedOn] # "absent"
    BY <1>1, <1>2, <2>1 DEF RepositoryTyped
  <2>3. /\ working' \in [at : {"rest", "done", "look", "write", "writing"}, file : 0 .. 3]
        /\ working'.at \in {"look", "done"}
        /\ Running' => working'.file \in 1 .. 3
        /\ working'.file = 3 \/ working'.at = "done" => working.file \in {2, 3}
        /\ Running' => \A k \in 1 .. working'.file - 1 : made'[FileOrder[k]] # "absent"
        /\ working'.at = "done" => \A f \in InitFiles : made'[f] # "absent"
    BY <2>1, <2>2, LookingOn
  <2>4. AreLines(lines)'
    BY <1>1, <2>1 DEF RepositoryTyped, AreLines
  <2>5. RepositoryTyped'
    BY <1>1, <2>1, <2>3, <2>4 DEF RepositoryTyped, AreLines
  <2>6. FilesAreFound'
    <3>1. \A f \in InitFiles : made'[f] = "torn" => f \in cut'
      BY <1>1, <2>1, <2>2 DEF FilesAreFound, Writing
    <3>2. \A f \in theirs' : made'[f] # "absent"
      BY <1>1, <2>1, <2>2 DEF FilesAreFound, RepositoryTyped
    <3> QED
      BY <2>3, <3>1, <3>2 DEF FilesAreFound
  <2>7. LinesAreCarried'
    BY <2>3 DEF LinesAreCarried
  <2>8. WhatIsTheirsStays'
    <3> SUFFICES ASSUME NEW f \in theirs \ raced
                 PROVE  IF f # ".gitignore" THEN made'[f] = "user"
                        ELSE "user" \in ToSet(lines') \/ f \in cut
      BY <2>1 DEF WhatIsTheirsStays
    <3>1. f \in InitFiles
      BY <1>1 DEF RepositoryTyped
    <3>2. f = WorkedOn => f = ".gitignore" /\ ("user" \in ToSet(toWrite) \/ f \in cut)
      BY <1>1, <2>1 DEF LinesAreCarried
    <3>3. f # ".gitignore" => made[f] = "user"
      BY <1>1 DEF WhatIsTheirsStays
    <3>4. f = ".gitignore" /\ f # WorkedOn => ("user" \in ToSet(lines) \/ f \in cut) /\ lines' = lines
      BY <1>1, <2>1 DEF WhatIsTheirsStays
    <3>5. f = ".gitignore" /\ f = WorkedOn => lines' = toWrite
      BY <2>1
    <3> QED
      BY <2>2, <3>1, <3>2, <3>3, <3>4, <3>5, Zenon
  <2>9. EveryLanguageIsChecked'
    <3>1. CASE guidance' = guidance
      BY <1>1, <3>1 DEF EveryLanguageIsChecked
    <3>2. CASE guidance' # guidance
      <4>1. PICK m \in SUBSET Markers : guidance' = RenderInitClawMd(DetectRepo(m))
        BY <1>6, <3>2 DEF WriteFile
      <4> QED
        BY <4>1, GuidanceIsChecked, Zenon DEF EveryLanguageIsChecked
    <3> QED
      BY <3>1, <3>2
  <2>10. EntriesAreThere'
    <3> SUFFICES ASSUME working'.file = 3 \/ working'.at = "done"
                 PROVE  ".gitignore" \in edited' \/ ToSet(Entries) \subseteq ToSet(lines')
      BY <2>3 DEF EntriesAreThere
    <3>1. CASE working.file = 2
      BY <1>1, <2>1, <3>1, TheFiles DEF EntriesAreThere, WorkedOn
    <3>2. CASE working.file = 3
      <4>1. WorkedOn # ".gitignore"
        BY <3>2, TheFiles DEF WorkedOn
      <4> QED
        BY <1>1, <2>1, <3>2, <4>1 DEF EntriesAreThere
    <3> QED
      BY <2>3, <3>1, <3>2
  <2> QED
    BY <2>5, <2>6, <2>7, <2>8, <2>9, <2>10 DEF RepositoryIInv
<1>7. CASE InitEnds
  <2>1. /\ working' = NotRunning /\ Running
        /\ cut' = IF working.at = "writing" THEN cut \cup {WorkedOn} ELSE cut
        /\ UNCHANGED <<made, lines, toWrite, guidance, theirs, raced>>
    BY <1>7 DEF InitEnds, Running
  <2>2. working'.at = "rest" /\ working'.file = 0 /\ ~Running'
    BY <2>1 DEF NotRunning, Running
  <2>3. RepositoryTyped'
    BY <1>1, <2>1, <2>2 DEF RepositoryTyped, AreLines, NotRunning
  <2>4. FilesAreFound'
    BY <1>1, <2>1, <2>2 DEF FilesAreFound, Writing
  <2>5. LinesAreCarried'
    BY <2>2 DEF LinesAreCarried
  <2>6. WhatIsTheirsStays'
    BY <1>1, <2>1, <2>2 DEF WhatIsTheirsStays
  <2>7. EveryLanguageIsChecked'
    BY <1>1, <2>1 DEF EveryLanguageIsChecked
  <2>8. EntriesAreThere'
    BY <2>2 DEF EntriesAreThere
  <2> QED
    BY <2>3, <2>4, <2>5, <2>6, <2>7, <2>8 DEF RepositoryIInv
<1>8. CASE UserWrites
  <2>1. PICK u \in InitFiles :
          /\ made' = [made EXCEPT ![u] = "user"]
          /\ IF u = ".gitignore" THEN lines' \in {Append(kept, "user") : kept \in Arrangements}
                                 ELSE UNCHANGED lines
          /\ cut' = cut \ {u} /\ theirs' = theirs \cup {u} /\ edited' = edited \cup {u}
          /\ raced' = IF working.at \in {"write", "writing"} /\ u = WorkedOn
                      THEN raced \cup {u} ELSE raced \ {u}
    BY <1>8 DEF UserWrites
  <2>2. UNCHANGED <<working, toWrite, guidance>> /\ WorkedOn' = WorkedOn
    BY <1>8 DEF UserWrites, WorkedOn
  <2>3. /\ made'[u] = "user"
        /\ \A f \in InitFiles : f # u => made'[f] = made[f]
        /\ \A f \in InitFiles : made[f] # "absent" => made'[f] # "absent"
    BY <1>1, <2>1 DEF RepositoryTyped
  <2>4. AreLines(lines)' /\ (u = ".gitignore" => "user" \in ToSet(lines'))
    <3>1. CASE u = ".gitignore"
      <4>1. PICK kept \in Arrangements : lines' = Append(kept, "user")
        BY <2>1, <3>1
      <4> QED
        BY <4>1, ArrangementsAreLines, Zenon DEF AreLines
    <3>2. CASE u # ".gitignore"
      BY <1>1, <2>1, <3>2 DEF RepositoryTyped, AreLines
    <3> QED
      BY <3>1, <3>2
  <2>5. RepositoryTyped'
    BY <1>1, <2>1, <2>2, <2>4 DEF RepositoryTyped, Running, AreLines
  <2>6. FilesAreFound'
    <3>1. Running' => \A k \in 1 .. working'.file - 1 : made'[FileOrder[k]] # "absent"
      <4> SUFFICES ASSUME Running, NEW k \in 1 .. working.file - 1 PROVE made'[FileOrder[k]] # "absent"
        BY <2>2 DEF Running
      <4>1. k \in 1 .. 3
        BY <1>1 DEF RepositoryTyped
      <4> QED
        BY <1>1, <2>3, <4>1, TheFiles, Zenon DEF FilesAreFound
    <3>2. working'.at = "done" => \A f \in InitFiles : made'[f] # "absent"
      BY <1>1, <2>2, <2>3 DEF FilesAreFound
    <3>3. \A f \in InitFiles : made'[f] = "torn" => f \in cut' \/ Writing(f)'
      <4> SUFFICES ASSUME NEW f \in InitFiles, made'[f] = "torn" PROVE f \in cut' \/ Writing(f)
        BY <2>2 DEF Writing
      <4>1. f # u /\ made[f] = "torn"
        BY <2>3
      <4> QED
        BY <1>1, <2>1, <4>1 DEF FilesAreFound
    <3>4. \A f \in theirs' : made'[f] # "absent"
      BY <1>1, <2>1, <2>3 DEF FilesAreFound, RepositoryTyped
    <3> QED
      BY <3>1, <3>2, <3>3, <3>4 DEF FilesAreFound
  <2>7. LinesAreCarried'
    <3> SUFFICES ASSUME working.at \in {"write", "writing"}, WorkedOn \in theirs' \ raced'
                 PROVE  WorkedOn = ".gitignore" /\ ("user" \in ToSet(toWrite) \/ WorkedOn \in cut')
      BY <2>2 DEF LinesAreCarried
    <3>1. u # WorkedOn
      BY <2>1
    <3>2. WorkedOn \in theirs \ raced
      BY <2>1, <3>1
    <3> QED
      BY <1>1, <2>1, <3>1, <3>2 DEF LinesAreCarried
  <2>8. WhatIsTheirsStays'
    <3> SUFFICES ASSUME NEW f \in theirs' \ raced'
                 PROVE  IF f # ".gitignore" THEN made'[f] = "user"
                        ELSE "user" \in ToSet(lines') \/ f \in cut' \/ (working.at = "writing" /\ WorkedOn = f)
      BY <2>2 DEF WhatIsTheirsStays
    <3>1. CASE f = u
      BY <2>3, <2>4, <3>1
    <3>2. CASE f # u
      <4>1. f \in theirs \ raced /\ f \in InitFiles
        BY <1>1, <2>1, <3>2 DEF RepositoryTyped
      <4>2. IF f # ".gitignore" THEN made[f] = "user"
            ELSE "user" \in ToSet(lines) \/ f \in cut \/ (working.at = "writing" /\ WorkedOn = f)
        BY <1>1, <4>1 DEF WhatIsTheirsStays
      <4>3. made'[f] = made[f] /\ (f = ".gitignore" => lines' = lines) /\ (f \in cut => f \in cut')
        BY <2>1, <2>3, <3>2, <4>1
      <4> QED
        BY <4>2, <4>3, Zenon
    <3> QED
      BY <3>1, <3>2
  <2>9. EveryLanguageIsChecked'
    BY <1>1, <2>2 DEF EveryLanguageIsChecked
  <2>10. EntriesAreThere'
    BY <1>1, <2>1, <2>2 DEF EntriesAreThere, Running
  <2> QED
    BY <2>5, <2>6, <2>7, <2>8, <2>9, <2>10 DEF RepositoryIInv
<1>9. CASE UNCHANGED repoVars
  BY <1>1, <1>9 DEF repoVars, RepositoryIInv, RepositoryTyped, FilesAreFound, LinesAreCarried,
     EntriesAreThere, WhatIsTheirsStays, EveryLanguageIsChecked, Running, Writing, WorkedOn, AreLines
<1> QED
  BY <1>3, <1>4, <1>5, <1>6, <1>7, <1>8, <1>9 DEF RepositoryNext

(* However often init runs or is cut short, it writes over no file of the  *)
(* user but one they edited as it was about to write, keeps their line of  *)
(* .gitignore, has made or found each file when it is done, with all the   *)
(* entries in .gitignore, whatever that was before, and names no language  *)
(* without a check (initialize_repo, ensure_gitignore_entries,             *)
(* render_init_claw_md).                                                   *)
THEOREM InitLosesNothing == RepositorySpec => []RepositoryInv
<1>1. RepositoryIInv => RepositoryInv
  <2> SUFFICES ASSUME RepositoryIInv PROVE DoneMeansReady /\ WhatIsOursIsIgnored
    BY DEF RepositoryInv, RepositoryIInv
  <2>1. \A j, k \in DOMAIN lines : lines[j] = lines[k] => j = k
    BY DEF RepositoryIInv, RepositoryTyped, AreLines
  <2>2. ASSUME working.at = "done", NEW f \in InitFiles
        PROVE  made[f] # "absent" /\ (made[f] = "torn" => f \in cut)
    BY <2>2 DEF RepositoryIInv, FilesAreFound, Writing
  <2>3. working.at = "done" => ".gitignore" \in edited \/ ToSet(Entries) \subseteq ToSet(lines)
    BY DEF RepositoryIInv, EntriesAreThere
  <2> QED
    BY <2>1, <2>2, <2>3 DEF DoneMeansReady, WhatIsOursIsIgnored
<1>2. RepositoryIInv /\ [RepositoryNext]_repoVars => RepositoryIInv'
  BY RepositoryInductive
<1> QED
  BY <1>1, <1>2, RepositoryStarts, PTL DEF RepositorySpec

=============================================================================
