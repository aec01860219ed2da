------------------------- MODULE SessionServerProofs -------------------------
(***************************************************************************)
(* Theorems about SessionServer, for any calls and clients, and channels   *)
(* of any capacity.                                                        *)
(***************************************************************************)
EXTENDS SessionServer, FiniteSetTheorems, SequenceTheorems, TLAPS

(* A call that drew an id has it to itself, whenever it gets to the lock;  *)
(* the sessions in the store are those of the calls that did.              *)
Drawn == {r \in Creators : drawn[r] # NoId}
IdsAreDrawn ==
  /\ nextSessionId = Cardinality(Drawn) + 1
  /\ \A r \in Drawn : drawn[r] < nextSessionId
  /\ \A r, q \in Drawn : drawn[r] = drawn[q] => r = q
  /\ created \subseteq Drawn
  /\ \A i \in DOMAIN conversation : \E r \in created : drawn[r] = i

(* A message is pushed once, and broadcast once.                           *)
MessagesAreOnce ==
  /\ \A i \in DOMAIN conversation : ToSet(conversation[i]) \subseteq posted
  /\ \A i \in SessionIds :
       /\ sending[i] \subseteq posted
       /\ ToSet(log[i]) \subseteq posted \ sending[i]
       /\ \A j, k \in 1 .. Len(log[i]) : log[i][j] = log[i][k] => j = k

(* Every message of the session is in the snapshot of a stream, ahead of   *)
(* it, or in flight; one that is both was in flight at the subscription.   *)
SnapshotFits(c) ==
  LET s == stream[c] IN
    /\ s.session \in DOMAIN conversation
    /\ s.start <= s.cursor /\ s.cursor <= Len(log[s.session]) + 1
    /\ ToSet(s.snapshot) \subseteq posted
    /\ sending[s.session] \cap ToSet(s.snapshot) \subseteq s.inFlight
    /\ \A k \in s.start .. Len(log[s.session]) :
         log[s.session][k] \in ToSet(s.snapshot) => log[s.session][k] \in s.inFlight
    /\ \A m \in ToSet(conversation[s.session]) :
         \/ m \in ToSet(s.snapshot)
         \/ m \in sending[s.session]
         \/ \E k \in s.start .. Len(log[s.session]) : log[s.session][k] = m

(* What the client saw is what its cursor passed and the channel kept.     *)
SeenIsExact(c) ==
  LET s == stream[c] IN
    /\ \A j \in s.start .. s.cursor - 1 :
         j + Capacity > Len(log[s.session]) => log[s.session][j] \in ToSet(s.seen)
    /\ \A n \in 1 .. Len(s.seen) : \E j \in s.start .. s.cursor - 1 : s.seen[n] = log[s.session][j]
    /\ \A n, k \in 1 .. Len(s.seen) : s.seen[n] = s.seen[k] => n = k

Follows(c) == SnapshotFits(c) /\ SeenIsExact(c)
StreamsFollow == \A c \in Clients : Opened(c) => Follows(c)

IInv == TypeOK /\ IdsAreDrawn /\ MessagesAreOnce /\ StreamsFollow

-----------------------------------------------------------------------------
(* The set of a sequence, and that of one that is longer by one.           *)
LEMMA SetOfSequence ==
  ASSUME NEW S, NEW s \in Seq(S)
  PROVE  /\ ToSet(s) \subseteq S
         /\ \A x : x \in ToSet(s) <=> \E k \in 1 .. Len(s) : s[k] = x
<1>1. DOMAIN s = 1 .. Len(s) /\ \A k \in 1 .. Len(s) : s[k] \in S
  BY LenProperties
<1> QED
  BY <1>1 DEF ToSet

LEMMA SetOfAppend ==
  ASSUME NEW S, NEW s \in Seq(S), NEW x \in S
  PROVE  ToSet(Append(s, x)) = ToSet(s) \cup {x}
<1>1. /\ Append(s, x) \in Seq(S) /\ Len(Append(s, x)) = Len(s) + 1 /\ Len(s) \in Nat
      /\ \A k \in 1 .. Len(s) : Append(s, x)[k] = s[k]
      /\ Append(s, x)[Len(s) + 1] = x
  BY AppendProperties, LenProperties
<1>2. ASSUME NEW y
      PROVE  y \in ToSet(Append(s, x)) <=> y \in ToSet(s) \cup {x}
  <2>1. y \in ToSet(Append(s, x)) <=> \E k \in 1 .. Len(s) + 1 : Append(s, x)[k] = y
    <3>1. y \in ToSet(Append(s, x)) <=> \E k \in 1 .. Len(Append(s, x)) : Append(s, x)[k] = y
      BY <1>1, SetOfSequence
    <3> QED
      BY <1>1, <3>1
  <2>2. y \in ToSet(s) <=> \E k \in 1 .. Len(s) : s[k] = y
    BY SetOfSequence
  <2> QED
    BY <1>1, <2>1, <2>2
<1> QED
  BY <1>2

LEMMA PrefixOfAppend ==
  ASSUME NEW S, NEW s \in Seq(S), NEW x \in S
  PROVE  IsPrefix(s, Append(s, x))
<1>1. /\ Append(s, x) \in Seq(S) /\ Len(Append(s, x)) = Len(s) + 1 /\ Len(s) \in Nat
      /\ \A k \in 1 .. Len(s) : Append(s, x)[k] = s[k]
  BY AppendProperties, LenProperties
<1>2. SubSeq(s, 1, Len(s)) = SubSeq(Append(s, x), 1, Len(s))
  BY <1>1
<1> QED
  BY <1>1, <1>2 DEF IsPrefix

(* A sequence without repetitions has as many elements as its set.         *)
LEMMA CountOfDistinct ==
  ASSUME NEW S, NEW s \in Seq(S),
         \A n, k \in 1 .. Len(s) : s[n] = s[k] => n = k
  PROVE  Cardinality(ToSet(s)) = Len(s)
<1>1. Len(s) \in Nat
  BY LenProperties
<1>2. s \in [1 .. Len(s) -> ToSet(s)]
  BY SetOfSequence, LenProperties
<1>3. s \in Bijection(1 .. Len(s), ToSet(s))
  <2>1. \A x \in ToSet(s) : \E k \in 1 .. Len(s) : s[k] = x
    BY SetOfSequence
  <2> QED
    BY <1>2, <2>1 DEF Bijection, Injection, Surjection, IsInjective
<1>4. ExistsBijection(1 .. Len(s), ToSet(s))
  BY <1>3 DEF ExistsBijection
<1> QED
  BY <1>1, <1>4, FS_CountingElements

LEMMA CountIsNatural == Cardinality(Creators) \in Nat
BY SessionServerAssumption, FS_CardinalityType

LEMMA DrawnIsCounted ==
  \A r \in Creators \ Drawn :
    /\ Cardinality(Drawn) + 1 \in SessionIds
    /\ Cardinality(Drawn \cup {r}) = Cardinality(Drawn) + 1
<1>1. Drawn \in SUBSET Creators
  BY DEF Drawn
<1>2. /\ IsFiniteSet(Drawn) /\ Cardinality(Drawn) <= Cardinality(Creators)
      /\ Cardinality(Drawn) = Cardinality(Creators) => Drawn = Creators
  BY <1>1, SessionServerAssumption, FS_Subset
<1>3. Cardinality(Drawn) \in Nat
  BY <1>2, FS_CardinalityType
<1> SUFFICES ASSUME NEW r \in Creators \ Drawn
             PROVE  /\ Cardinality(Drawn) + 1 \in SessionIds
                    /\ Cardinality(Drawn \cup {r}) = Cardinality(Drawn) + 1
  OBVIOUS
<1>4. Cardinality(Drawn) # Cardinality(Creators)
  BY <1>2
<1>5. Cardinality(Drawn \cup {r}) = Cardinality(Drawn) + 1
  BY <1>2, FS_AddElement
<1> QED
  BY <1>2, <1>3, <1>4, <1>5, CountIsNatural DEF SessionIds

LEMMA OpenStreamsAreTyped ==
  ASSUME TypeOK, NEW c \in Clients, Opened(c)
  PROVE  /\ stream[c] \in Streams
         /\ stream[c].session \in SessionIds
         /\ stream[c].snapshot \in Seq(Messages) /\ stream[c].seen \in Seq(Messages)
         /\ stream[c].start \in Nat \ {0} /\ stream[c].cursor \in Nat \ {0}
         /\ log[stream[c].session] \in Seq(Messages) /\ Len(log[stream[c].session]) \in Nat
<1>1. stream[c] \in Streams
  BY DEF TypeOK, Opened
<1>2. stream[c].session \in SessionIds
  BY <1>1 DEF Streams
<1>3. log[stream[c].session] \in Seq(Messages)
  BY <1>2 DEF TypeOK
<1> QED
  BY <1>1, <1>2, <1>3, LenProperties DEF Streams

LEMMA IInvInit == Init => IInv
<1> SUFFICES ASSUME Init
             PROVE  IInv
  OBVIOUS
<1>1. Drawn = {} /\ Cardinality(Drawn) = 0
  <2>1. Drawn = {}
    BY DEF Init, Drawn
  <2> QED
    BY <2>1, FS_EmptySet
<1>2. DOMAIN conversation = {}
  BY DEF Init
<1>3. \A i \in SessionIds : log[i] \in Seq(Messages) /\ Len(log[i]) = 0 /\ ToSet(log[i]) = {}
  BY EmptySeq DEF Init, ToSet
<1>4. nextSessionId \in 1 .. Cardinality(Creators) + 1
  BY CountIsNatural DEF Init
<1>5. log \in [SessionIds -> Seq(Messages)]
  BY <1>3 DEF Init
<1>6. TypeOK
  BY <1>2, <1>4, <1>5 DEF Init, TypeOK
<1>7. IdsAreDrawn
  BY <1>1, <1>2 DEF Init, IdsAreDrawn
<1>8. MessagesAreOnce
  BY <1>2, <1>3 DEF Init, MessagesAreOnce
<1>9. StreamsFollow
  BY DEF Init, StreamsFollow, Opened
<1> QED
  BY <1>6, <1>7, <1>8, <1>9 DEF IInv

(* A stream whose session a step does not touch follows it still.          *)
LEMMA OtherStreamsFollow ==
  ASSUME NEW c \in Clients, Follows(c), UNCHANGED stream[c], posted \subseteq posted',
         stream[c].session \in DOMAIN conversation',
         conversation'[stream[c].session] = conversation[stream[c].session],
         log'[stream[c].session] = log[stream[c].session],
         sending'[stream[c].session] = sending[stream[c].session]
  PROVE  Follows(c)'
BY DEF Follows, SnapshotFits, SeenIsExact

(* A step of one client changes its own stream only.                       *)
ClientMoves(c) ==
  /\ UNCHANGED <<nextSessionId, drawn, created, conversation, log, sending, posted>>
  /\ \A d \in Clients \ {c} : stream'[d] = stream[d]

LEMMA OneClientMoves ==
  ASSUME IInv, NEW c \in Clients, ClientMoves(c), Opened(c)' => Follows(c)',
         stream' \in [Clients -> Streams \cup {NoStream}]
  PROVE  IInv'
<1>1. TypeOK' /\ IdsAreDrawn' /\ MessagesAreOnce'
  BY DEF IInv, ClientMoves, TypeOK, IdsAreDrawn, Drawn, MessagesAreOnce
<1>2. ASSUME NEW d \in Clients, d # c, Opened(d)'
      PROVE  Follows(d)'
  <2>1. Opened(d) /\ Follows(d)
    BY <1>2 DEF IInv, ClientMoves, StreamsFollow, Opened
  <2>2. stream[d].session \in DOMAIN conversation
    BY <2>1 DEF Follows, SnapshotFits
  <2> QED
    BY <1>2, <2>1, <2>2, OtherStreamsFollow DEF ClientMoves
<1> QED
  BY <1>1, <1>2 DEF IInv, StreamsFollow

LEMMA CursorMoves ==
  ASSUME NEW c \in Clients, ClientMoves(c), SnapshotFits(c),
         stream'[c].session = stream[c].session, stream'[c].snapshot = stream[c].snapshot,
         stream'[c].start = stream[c].start, stream'[c].inFlight = stream[c].inFlight,
         stream'[c].start <= stream'[c].cursor,
         stream'[c].cursor <= Len(log[stream[c].session]) + 1
  PROVE  SnapshotFits(c)'
BY DEF ClientMoves, SnapshotFits

LEMMA IInvStep == IInv /\ [Next]_vars => IInv'
<1> SUFFICES ASSUME TypeOK, IdsAreDrawn, MessagesAreOnce, StreamsFollow, [Next]_vars
             PROVE  IInv'
  BY DEF IInv
<1>1. ASSUME NEW r \in Creators, AllocateSessionId(r)
      PROVE  IInv'
  <2>1. r \notin Drawn /\ drawn'[r] = nextSessionId /\ \A q \in Creators \ {r} : drawn'[q] = drawn[q]
    BY <1>1 DEF AllocateSessionId, Drawn, TypeOK
  <2>2. /\ nextSessionId = Cardinality(Drawn) + 1 /\ nextSessionId \in SessionIds
        /\ nextSessionId \in 1 .. Cardinality(Creators) /\ nextSessionId' = nextSessionId + 1
    BY <1>1, <2>1, DrawnIsCounted DEF AllocateSessionId, IdsAreDrawn, SessionIds
  <2>3. Drawn' = Drawn \cup {r}
    BY <2>1, <2>2 DEF Drawn, NoId
  <2>4. TypeOK'
    BY <1>1, <2>2, CountIsNatural DEF AllocateSessionId, TypeOK
  <2>5. IdsAreDrawn'
    <3>1. nextSessionId' = Cardinality(Drawn') + 1
      BY <2>1, <2>2, <2>3, DrawnIsCounted
    <3>2. \A q \in Drawn : drawn'[q] = drawn[q] /\ drawn[q] < nextSessionId /\ drawn[q] \in SessionIds
      BY <2>1 DEF IdsAreDrawn, Drawn, TypeOK
    <3>3. \A q \in Drawn' : drawn'[q] < nextSessionId'
      BY <2>1, <2>2, <2>3, <3>2 DEF SessionIds
    <3>4. \A p, q \in Drawn' : drawn'[p] = drawn'[q] => p = q
      <4>1. \A q \in Drawn : drawn'[q] # drawn'[r]
        BY <2>1, <2>2, <3>2 DEF SessionIds
      <4> QED
        BY <2>3, <3>2, <4>1 DEF IdsAreDrawn
    <3>5. created' \subseteq Drawn' /\ \A i \in DOMAIN conversation' : \E q \in created' : drawn'[q] = i
      BY <1>1, <2>3, <3>2 DEF AllocateSessionId, IdsAreDrawn
    <3> QED
      BY <3>1, <3>3, <3>4, <3>5 DEF IdsAreDrawn
  <2>6. MessagesAreOnce'
    BY <1>1 DEF AllocateSessionId, MessagesAreOnce
  <2>7. StreamsFollow'
    BY <1>1 DEF AllocateSessionId, StreamsFollow, Opened, Follows, SnapshotFits, SeenIsExact
  <2> QED
    BY <2>4, <2>5, <2>6, <2>7 DEF IInv
<1>2. ASSUME NEW r \in Creators, InsertSession(r)
      PROVE  IInv'
  <2> DEFINE i == drawn[r]
  <2>1. r \in Drawn /\ i \in SessionIds
    BY <1>2 DEF InsertSession, Drawn, TypeOK
  <2>2. i \notin DOMAIN conversation
    BY <1>2, <2>1 DEF InsertSession, IdsAreDrawn
  <2>3. /\ DOMAIN conversation' = DOMAIN conversation \cup {i}
        /\ conversation'[i] = <<>>
        /\ \A j \in DOMAIN conversation : conversation'[j] = conversation[j]
    BY <1>2, <2>2 DEF InsertSession
  <2>4. <<>> \in Seq(Messages) /\ ToSet(<<>>) = {}
    BY EmptySeq DEF ToSet
  <2>5. TypeOK'
    BY <1>2, <2>1, <2>3, <2>4 DEF InsertSession, TypeOK
  <2>6. IdsAreDrawn'
    <3>1. Drawn' = Drawn
      BY <1>2 DEF InsertSession, Drawn
    <3> QED
      BY <1>2, <2>1, <2>3, <3>1 DEF InsertSession, IdsAreDrawn
  <2>7. MessagesAreOnce'
    BY <1>2, <2>3, <2>4 DEF InsertSession, MessagesAreOnce
  <2>8. StreamsFollow'
    <3> SUFFICES ASSUME NEW c \in Clients, Opened(c)'
                 PROVE  Follows(c)'
      BY DEF StreamsFollow
    <3>1. Opened(c) /\ Follows(c)
      BY <1>2 DEF InsertSession, StreamsFollow, Opened
    <3>2. stream[c].session \in DOMAIN conversation
      BY <3>1 DEF Follows, SnapshotFits
    <3> QED
      BY <1>2, <2>3, <3>1, <3>2, OtherStreamsFollow DEF InsertSession
  <2> QED
    BY <2>5, <2>6, <2>7, <2>8 DEF IInv
<1>3. ASSUME NEW m \in Messages, NEW i \in SessionIds, PushMessage(m, i)
      PROVE  IInv'
  <2>1. /\ conversation[i] \in Seq(Messages) /\ i \in DOMAIN conversation /\ m \notin posted
        /\ DOMAIN conversation' = DOMAIN conversation
        /\ conversation'[i] = Append(conversation[i], m)
        /\ \A j \in DOMAIN conversation \ {i} : conversation'[j] = conversation[j]
    BY <1>3 DEF PushMessage, TypeOK
  <2>2. /\ sending'[i] = sending[i] \cup {m} /\ \A j \in SessionIds \ {i} : sending'[j] = sending[j]
        /\ posted' = posted \cup {m} /\ UNCHANGED <<nextSessionId, drawn, created, log, stream>>
    BY <1>3 DEF PushMessage, TypeOK
  <2>3. Append(conversation[i], m) \in Seq(Messages) /\ ToSet(conversation'[i]) = ToSet(conversation[i]) \cup {m}
    BY <2>1, SetOfAppend, AppendProperties
  <2>4. TypeOK'
    <3>1. /\ DOMAIN conversation' \subseteq SessionIds
          /\ \A j \in DOMAIN conversation' : conversation'[j] \in Seq(Messages)
      BY <2>1, <2>3 DEF TypeOK
    <3>2. sending' \in [SessionIds -> SUBSET Messages]
      BY <1>3 DEF PushMessage, TypeOK
    <3> QED
      BY <2>2, <3>1, <3>2 DEF TypeOK
  <2>5. IdsAreDrawn'
    <3>1. Drawn' = Drawn
      BY <2>2 DEF Drawn
    <3> QED
      BY <2>1, <2>2, <3>1 DEF IdsAreDrawn
  <2>6. MessagesAreOnce'
    BY <2>1, <2>2, <2>3 DEF MessagesAreOnce, TypeOK
  <2>7. StreamsFollow'
    <3> SUFFICES ASSUME NEW c \in Clients, Opened(c)'
                 PROVE  Follows(c)'
      BY DEF StreamsFollow
    <3>1. Opened(c) /\ Follows(c)
      BY <2>2 DEF StreamsFollow, Opened
    <3>2. stream[c].session \in DOMAIN conversation /\ stream[c].session \in SessionIds
      BY <3>1 DEF Follows, SnapshotFits, TypeOK
    <3>3. CASE stream[c].session # i
      BY <2>1, <2>2, <3>1, <3>2, <3>3, OtherStreamsFollow
    <3>4. CASE stream[c].session = i
      <4>1. SeenIsExact(c)'
        BY <2>2, <3>1 DEF Follows, SeenIsExact
      <4>2. SnapshotFits(c)'
        <5>1. m \notin ToSet(stream[c].snapshot)
          BY <2>1, <3>1 DEF Follows, SnapshotFits
        <5> QED
          BY <2>1, <2>2, <2>3, <3>1, <3>4, <5>1 DEF Follows, SnapshotFits
      <4> QED
        BY <4>1, <4>2 DEF Follows
    <3> QED
      BY <3>3, <3>4
  <2> QED
    BY <2>4, <2>5, <2>6, <2>7 DEF IInv
<1>4. ASSUME NEW m \in Messages, NEW i \in SessionIds, Broadcast(m, i)
      PROVE  IInv'
  <2>1. /\ m \in sending[i] /\ log[i] \in Seq(Messages)
        /\ sending'[i] = sending[i] \ {m} /\ \A j \in SessionIds \ {i} : sending'[j] = sending[j]
        /\ log'[i] = Append(log[i], m) /\ \A j \in SessionIds \ {i} : log'[j] = log[j]
        /\ UNCHANGED <<nextSessionId, drawn, created, conversation, posted, stream>>
    BY <1>4 DEF Broadcast, TypeOK
  <2>2. /\ log'[i] \in Seq(Messages) /\ ToSet(log'[i]) = ToSet(log[i]) \cup {m}
        /\ Len(log'[i]) = Len(log[i]) + 1 /\ Len(log[i]) \in Nat
        /\ \A k \in 1 .. Len(log[i]) : log'[i][k] = log[i][k] /\ log[i][k] \in ToSet(log[i])
        /\ log'[i][Len(log[i]) + 1] = m
    BY <2>1, SetOfAppend, SetOfSequence, AppendProperties, LenProperties
  <2>3. TypeOK'
    <3>1. log' \in [SessionIds -> Seq(Messages)] /\ sending' \in [SessionIds -> SUBSET Messages]
      BY <1>4, <2>1, <2>2 DEF Broadcast, TypeOK
    <3> QED
      BY <2>1, <3>1 DEF TypeOK
  <2>4. IdsAreDrawn'
    BY <2>1 DEF IdsAreDrawn, Drawn
  <2>5. MessagesAreOnce'
    <3>1. m \notin ToSet(log[i]) /\ m \in posted
      BY <2>1 DEF MessagesAreOnce
    <3>2. \A j, k \in 1 .. Len(log'[i]) : log'[i][j] = log'[i][k] => j = k
      BY <2>2, <3>1 DEF MessagesAreOnce
    <3>3. ASSUME NEW h \in SessionIds
          PROVE  /\ sending'[h] \subseteq posted' /\ ToSet(log'[h]) \subseteq posted' \ sending'[h]
                 /\ \A j, k \in 1 .. Len(log'[h]) : log'[h][j] = log'[h][k] => j = k
      <4>1. CASE h = i
        BY <2>1, <2>2, <3>1, <3>2, <4>1 DEF MessagesAreOnce
      <4>2. CASE h # i
        BY <2>1, <4>2 DEF MessagesAreOnce
      <4> QED
        BY <4>1, <4>2
    <3>4. \A h \in DOMAIN conversation' : ToSet(conversation'[h]) \subseteq posted'
      BY <2>1 DEF MessagesAreOnce
    <3> QED
      BY <3>3, <3>4 DEF MessagesAreOnce
  <2>6. StreamsFollow'
    <3> SUFFICES ASSUME NEW c \in Clients, Opened(c)'
                 PROVE  Follows(c)'
      BY DEF StreamsFollow
    <3>1. Opened(c) /\ Follows(c)
      BY <2>1 DEF StreamsFollow, Opened
    <3>2. /\ stream[c].session \in DOMAIN conversation /\ stream[c].session \in SessionIds
          /\ stream[c].start \in Nat \ {0} /\ stream[c].cursor \in Nat \ {0}
      BY <3>1, OpenStreamsAreTyped DEF Follows, SnapshotFits
    <3>3. CASE stream[c].session # i
      BY <2>1, <3>1, <3>2, <3>3, OtherStreamsFollow
    <3>4. CASE stream[c].session = i
      <4>1. stream[c].start <= stream[c].cursor /\ stream[c].cursor <= Len(log[i]) + 1
        BY <3>1, <3>4 DEF Follows, SnapshotFits
      <4>2. SeenIsExact(c)'
        <5>1. \A j \in stream[c].start .. stream[c].cursor - 1 : log'[i][j] = log[i][j]
          BY <2>2, <3>2, <4>1
        <5>2. Capacity \in Nat
          BY SessionServerAssumption
        <5>3. \A j \in stream[c].start .. stream[c].cursor - 1 :
                j + Capacity > Len(log'[i]) => j + Capacity > Len(log[i])
          BY <2>2, <3>2, <5>2
        <5>4. \A j \in stream[c].start .. stream[c].cursor - 1 :
                j + Capacity > Len(log'[i]) => log'[i][j] \in ToSet(stream[c].seen)
          BY <3>1, <3>4, <5>1, <5>3 DEF Follows, SeenIsExact
        <5>5. \A n \in 1 .. Len(stream[c].seen) :
                \E j \in stream[c].start .. stream[c].cursor - 1 : stream[c].seen[n] = log'[i][j]
          BY <3>1, <3>4, <5>1 DEF Follows, SeenIsExact
        <5>6. stream' = stream
          BY <2>1
        <5> QED
          BY <3>1, <3>4, <5>4, <5>5, <5>6 DEF Follows, SeenIsExact
      <4>3. SnapshotFits(c)'
        <5>1. \A k \in stream[c].start .. Len(log'[i]) :
                 \/ k \in stream[c].start .. Len(log[i]) /\ log'[i][k] = log[i][k]
                 \/ k = Len(log[i]) + 1 /\ log'[i][k] = m
          BY <2>2, <3>2
        <5>2. Len(log[i]) + 1 \in stream[c].start .. Len(log'[i])
          BY <2>2, <3>2, <4>1
        <5>3. \A k \in stream[c].start .. Len(log[i]) :
                k \in stream[c].start .. Len(log'[i]) /\ log'[i][k] = log[i][k]
          BY <2>2, <3>2
        <5>4. \A k \in stream[c].start .. Len(log'[i]) :
                log'[i][k] \in ToSet(stream[c].snapshot) => log'[i][k] \in stream[c].inFlight
          BY <2>1, <3>1, <3>4, <5>1 DEF Follows, SnapshotFits
        <5>5. \A x \in ToSet(conversation[i]) :
                \/ x \in ToSet(stream[c].snapshot)
                \/ x \in sending'[i]
                \/ \E k \in stream[c].start .. Len(log'[i]) : log'[i][k] = x
          <6> SUFFICES ASSUME NEW x \in ToSet(conversation[i]),
                              x \notin ToSet(stream[c].snapshot), x \notin sending'[i]
                       PROVE  \E k \in stream[c].start .. Len(log'[i]) : log'[i][k] = x
            OBVIOUS
          <6>1. CASE x = m
            BY <2>2, <5>2, <6>1
          <6>2. CASE x # m
            <7>1. x \notin sending[i]
              BY <2>1, <6>2
            <7>2. PICK k \in stream[c].start .. Len(log[i]) : log[i][k] = x
              BY <3>1, <3>4, <7>1 DEF Follows, SnapshotFits
            <7> QED
              BY <5>3, <7>2
          <6> QED
            BY <6>1, <6>2
        <5>6. stream[c].cursor <= Len(log'[i]) + 1
          BY <2>2, <3>2, <4>1
        <5> QED
          BY <2>1, <3>1, <3>4, <5>4, <5>5, <5>6 DEF Follows, SnapshotFits
      <4> QED
        BY <4>2, <4>3 DEF Follows
    <3> QED
      BY <3>3, <3>4
  <2> QED
    BY <2>3, <2>4, <2>5, <2>6 DEF IInv

<1>5. ASSUME NEW c \in Clients, NEW i \in SessionIds, Subscribe(c, i)
      PROVE  IInv'
  <2>1. PICK s : /\ s = [session |-> i, snapshot |-> conversation[i],
                          start |-> Len(log[i]) + 1, cursor |-> Len(log[i]) + 1, seen |-> <<>>,
                          inFlight |-> sending[i]]
                 /\ stream' = [stream EXCEPT ![c] = s]
    BY <1>5 DEF Subscribe
  <2>2. /\ i \in DOMAIN conversation /\ conversation[i] \in Seq(Messages)
        /\ log[i] \in Seq(Messages) /\ Len(log[i]) \in Nat /\ sending[i] \subseteq Messages
    BY <1>5, LenProperties DEF Subscribe, TypeOK
  <2>3. <<>> \in Seq(Messages) /\ Len(<<>>) = 0
    BY EmptySeq
  <2>4. s \in Streams
    BY <2>1, <2>2, <2>3 DEF Streams
  <2>5. ClientMoves(c) /\ stream' \in [Clients -> Streams \cup {NoStream}] /\ stream'[c] = s
    BY <1>5, <2>1, <2>4 DEF Subscribe, ClientMoves, TypeOK
  <2>6. /\ stream'[c].session = i /\ stream'[c].snapshot = conversation[i]
        /\ stream'[c].start = Len(log[i]) + 1 /\ stream'[c].cursor = Len(log[i]) + 1
        /\ stream'[c].seen = <<>> /\ stream'[c].inFlight = sending[i]
    BY <2>1, <2>5
  <2>7. ToSet(conversation[i]) \subseteq posted
    BY <2>2 DEF MessagesAreOnce
  <2>8. SnapshotFits(c)'
    BY <2>2, <2>5, <2>6, <2>7 DEF ClientMoves, SnapshotFits
  <2>9. SeenIsExact(c)'
    BY <2>2, <2>3, <2>6 DEF SeenIsExact
  <2> QED
    BY <2>5, <2>8, <2>9, OneClientMoves DEF Follows, IInv
<1>6. ASSUME NEW c \in Clients, Receive(c)
      PROVE  IInv'
  <2> DEFINE j == stream[c].session
             e == log[j][stream[c].cursor]
  <2>1. /\ Opened(c) /\ Follows(c) /\ stream[c] \in Streams /\ j \in SessionIds
        /\ stream[c].seen \in Seq(Messages) /\ stream[c].start \in Nat \ {0}
        /\ stream[c].cursor \in Nat \ {0} /\ stream[c].cursor <= Len(log[j])
        /\ log[j] \in Seq(Messages) /\ Len(log[j]) \in Nat
    BY <1>6, OpenStreamsAreTyped DEF Receive, StreamsFollow, EventsOf
  <2>2. stream[c].cursor \in 1 .. Len(log[j])
    BY <2>1
  <2>3. e \in Messages
    BY <2>1, <2>2, LenProperties
  <2>4. PICK s : /\ s = [stream[c] EXCEPT !.seen = Append(@, e), !.cursor = @ + 1]
                 /\ stream' = [stream EXCEPT ![c] = s]
    BY <1>6, <2>1 DEF Receive, EventsOf
  <2>5. /\ s.session = j /\ s.snapshot = stream[c].snapshot /\ s.start = stream[c].start
        /\ s.inFlight = stream[c].inFlight
        /\ s.cursor = stream[c].cursor + 1 /\ s.seen = Append(stream[c].seen, e)
    BY <2>1, <2>4 DEF Streams
  <2>6. /\ s.seen \in Seq(Messages) /\ Len(s.seen) = Len(stream[c].seen) + 1
        /\ Len(stream[c].seen) \in Nat
        /\ \A n \in 1 .. Len(stream[c].seen) : s.seen[n] = stream[c].seen[n]
        /\ s.seen[Len(stream[c].seen) + 1] = e /\ ToSet(s.seen) = ToSet(stream[c].seen) \cup {e}
    BY <2>1, <2>3, <2>5, AppendProperties, LenProperties, SetOfAppend
  <2>7. s \in Streams
    <3>1. Append(stream[c].seen, e) \in Seq(Messages) /\ stream[c].cursor + 1 \in Nat \ {0}
      BY <2>1, <2>5, <2>6
    <3> QED
      BY <2>1, <2>4, <3>1 DEF Streams
  <2>8. ClientMoves(c) /\ stream' \in [Clients -> Streams \cup {NoStream}] /\ stream'[c] = s
    BY <1>6, <2>4, <2>7 DEF Receive, ClientMoves, TypeOK
  <2>9. SnapshotFits(c)'
    <3>1. stream'[c].start <= stream'[c].cursor /\ stream'[c].cursor <= Len(log[j]) + 1
      BY <2>1, <2>5, <2>8 DEF Follows, SnapshotFits
    <3> QED
      BY <2>1, <2>5, <2>8, <3>1, CursorMoves DEF Follows
  <2>10. SeenIsExact(c)'
    <3>1. \A k \in stream[c].start .. s.cursor - 1 :
            k \in stream[c].start .. stream[c].cursor - 1 \/ k = stream[c].cursor
      BY <2>1, <2>5
    <3>2. /\ \A k \in stream[c].start .. stream[c].cursor - 1 : k \in stream[c].start .. s.cursor - 1
          /\ stream[c].cursor \in stream[c].start .. s.cursor - 1
      BY <2>1, <2>5 DEF Follows, SnapshotFits
    <3>3. \A k \in stream[c].start .. s.cursor - 1 :
            k + Capacity > Len(log[j]) => log[j][k] \in ToSet(s.seen)
      BY <2>1, <2>6, <3>1 DEF Follows, SeenIsExact
    <3>4. \A n \in 1 .. Len(s.seen) :
            \/ n \in 1 .. Len(stream[c].seen) /\ s.seen[n] = stream[c].seen[n]
            \/ n = Len(stream[c].seen) + 1 /\ s.seen[n] = e
      BY <2>6
    <3>5. \A n \in 1 .. Len(s.seen) : \E k \in stream[c].start .. s.cursor - 1 : s.seen[n] = log[j][k]
      BY <2>1, <3>2, <3>4 DEF Follows, SeenIsExact
    <3>6. \A n \in 1 .. Len(stream[c].seen) : stream[c].seen[n] # e
      <4>1. \A k \in stream[c].start .. stream[c].cursor - 1 :
              k \in 1 .. Len(log[j]) /\ k # stream[c].cursor
        BY <2>1
      <4>2. \A k \in stream[c].start .. stream[c].cursor - 1 : log[j][k] # e
        BY <2>1, <2>2, <4>1 DEF MessagesAreOnce
      <4> QED
        BY <2>1, <4>2 DEF Follows, SeenIsExact
    <3>7. \A n, k \in 1 .. Len(s.seen) : s.seen[n] = s.seen[k] => n = k
      BY <2>1, <3>4, <3>6 DEF Follows, SeenIsExact
    <3>8. /\ stream'[c].start = stream[c].start /\ stream'[c].cursor = s.cursor
          /\ stream'[c].seen = s.seen /\ log'[stream'[c].session] = log[j]
      BY <2>5, <2>8 DEF ClientMoves
    <3> QED
      BY <3>3, <3>5, <3>7, <3>8 DEF SeenIsExact
  <2> QED
    BY <2>8, <2>9, <2>10, OneClientMoves DEF Follows, IInv
<1>7. ASSUME NEW c \in Clients, Lagged(c)
      PROVE  IInv'
  <2> DEFINE j == stream[c].session
  <2>1. /\ Opened(c) /\ Follows(c) /\ stream[c] \in Streams /\ j \in SessionIds
        /\ stream[c].seen \in Seq(Messages) /\ stream[c].start \in Nat \ {0}
        /\ stream[c].cursor \in Nat \ {0}
        /\ log[j] \in Seq(Messages) /\ Len(log[j]) \in Nat
    BY <1>7, OpenStreamsAreTyped DEF Lagged, StreamsFollow
  <2>2. Capacity \in Nat \ {0}
    BY SessionServerAssumption
  <2>3. /\ Oldest(c) = Len(log[j]) - Capacity + 1 /\ Oldest(c) \in Nat \ {0}
        /\ stream[c].cursor < Oldest(c) /\ Oldest(c) <= Len(log[j])
    <3>1. stream[c].cursor < Oldest(c)
      BY <1>7 DEF Lagged
    <3>2. Oldest(c) = IF Len(log[j]) > Capacity THEN Len(log[j]) - Capacity + 1 ELSE 1
      BY DEF Oldest, EventsOf
    <3> QED
      BY <2>1, <2>2, <3>1, <3>2
  <2>4. PICK s : s = [stream[c] EXCEPT !.cursor = Oldest(c)] /\ stream' = [stream EXCEPT ![c] = s]
    BY <1>7 DEF Lagged
  <2>5. /\ s.session = j /\ s.snapshot = stream[c].snapshot /\ s.start = stream[c].start
        /\ s.inFlight = stream[c].inFlight /\ s.seen = stream[c].seen /\ s.cursor = Oldest(c)
    BY <2>1, <2>4 DEF Streams
  <2>6. s \in Streams
    BY <2>1, <2>3, <2>4 DEF Streams
  <2>7. ClientMoves(c) /\ stream' \in [Clients -> Streams \cup {NoStream}] /\ stream'[c] = s
    BY <1>7, <2>4, <2>6 DEF Lagged, ClientMoves, TypeOK
  <2>8. stream[c].start <= s.cursor /\ s.cursor <= Len(log[j]) + 1
    BY <2>1, <2>3, <2>5 DEF Follows, SnapshotFits
  <2>9. SnapshotFits(c)'
    BY <2>1, <2>5, <2>7, <2>8, CursorMoves DEF Follows
  <2>10. SeenIsExact(c)'
    <3>1. \A k \in stream[c].start .. s.cursor - 1 :
            k \in stream[c].start .. stream[c].cursor - 1 \/ ~(k + Capacity > Len(log[j]))
      BY <2>1, <2>2, <2>3, <2>5
    <3>2. \A k \in stream[c].start .. stream[c].cursor - 1 : k \in stream[c].start .. s.cursor - 1
      BY <2>1, <2>3, <2>5
    <3>3. \A k \in stream[c].start .. s.cursor - 1 :
            k + Capacity > Len(log[j]) => log[j][k] \in ToSet(s.seen)
      BY <2>1, <2>5, <3>1 DEF Follows, SeenIsExact
    <3>4. \A n \in 1 .. Len(s.seen) : \E k \in stream[c].start .. s.cursor - 1 : s.seen[n] = log[j][k]
      BY <2>1, <2>5, <3>2 DEF Follows, SeenIsExact
    <3>5. /\ stream'[c].start = stream[c].start /\ stream'[c].cursor = s.cursor
          /\ stream'[c].seen = s.seen /\ log'[stream'[c].session] = log[j]
      BY <2>5, <2>7 DEF ClientMoves
    <3>6. \A n, k \in 1 .. Len(s.seen) : s.seen[n] = s.seen[k] => n = k
      BY <2>1, <2>5 DEF Follows, SeenIsExact
    <3> QED
      BY <3>3, <3>4, <3>5, <3>6 DEF SeenIsExact
  <2> QED
    BY <2>7, <2>9, <2>10, OneClientMoves DEF Follows, IInv
<1>8. ASSUME NEW c \in Clients, Disconnect(c)
      PROVE  IInv'
  <2>1. ClientMoves(c) /\ stream' \in [Clients -> Streams \cup {NoStream}] /\ ~Opened(c)'
    BY <1>8 DEF Disconnect, ClientMoves, Opened, TypeOK, NoStream
  <2> QED
    BY <2>1, OneClientMoves DEF IInv
<1>9. CASE UNCHANGED vars
  BY <1>9 DEF vars, IInv, TypeOK, IdsAreDrawn, Drawn, MessagesAreOnce, StreamsFollow, Opened,
     Follows, SnapshotFits, SeenIsExact
<1> QED
  BY <1>1, <1>2, <1>3, <1>4, <1>5, <1>6, <1>7, <1>8, <1>9 DEF Next

LEMMA IInvHolds == Spec => []IInv
<1>1. QED
  BY IInvInit, IInvStep, PTL DEF Spec

(* No message falls between a snapshot and the events that follow it: the  *)
(* push and the snapshot take the same lock (send_message,                 *)
(* stream_session_events).                                                 *)
THEOREM SubscriptionLosesNothing == Spec => []NothingBetweenSnapshotAndEvents
<1>1. IInv => NothingBetweenSnapshotAndEvents
  BY DEF IInv, StreamsFollow, Follows, SnapshotFits, NothingBetweenSnapshotAndEvents
<1>2. QED
  BY <1>1, IInvHolds, PTL

(* Whatever the capacity and however slow the client: it misses only what  *)
(* the channel dropped, sees nothing twice, and is told of a message twice *)
(* only when that was in flight as it subscribed.                          *)
THEOREM StreamsAreExact == Spec => []EventsAreExact
<1>1. IInv => OnlyOverflowIsLost
  <2> SUFFICES ASSUME IInv, NEW c \in Clients, Opened(c)
               PROVE  LET s == stream[c]
                          passed == {log[s.session][k] : k \in s.start .. s.cursor - 1}
                          kept == {log[s.session][k] : k \in
                                     {j \in s.start .. s.cursor - 1 : j + Capacity > Len(log[s.session])}}
                      IN  /\ kept \subseteq ToSet(s.seen)
                          /\ ToSet(s.seen) \subseteq passed
                          /\ Cardinality(ToSet(s.seen)) = Len(s.seen)
    BY DEF OnlyOverflowIsLost
  <2>1. SeenIsExact(c) /\ stream[c].seen \in Seq(Messages)
    BY OpenStreamsAreTyped DEF IInv, StreamsFollow, Follows
  <2>2. Cardinality(ToSet(stream[c].seen)) = Len(stream[c].seen)
    BY <2>1, CountOfDistinct DEF SeenIsExact
  <2>3. \A x \in ToSet(stream[c].seen) : \E n \in 1 .. Len(stream[c].seen) : stream[c].seen[n] = x
    BY <2>1, SetOfSequence
  <2> QED
    BY <2>1, <2>2, <2>3 DEF SeenIsExact
<1>2. IInv => TwiceMeansInFlight
  BY DEF IInv, StreamsFollow, Follows, SnapshotFits, TwiceMeansInFlight
<1>3. QED
  BY <1>1, <1>2, IInvHolds, PTL DEF EventsAreExact

(* What the run checks of the server, for any number of calls.             *)
THEOREM ServerIsSound == Spec => []ServerInv
<1>1. IInv => TypeOK
  BY DEF IInv
<1>2. QED
  BY <1>1, IInvHolds, SubscriptionLosesNothing, StreamsAreExact, PTL DEF ServerInv

(* No session is ever wiped out by another call of POST /sessions, though  *)
(* the id is drawn outside the lock: a conversation only grows.            *)
THEOREM SessionsOnlyGrow == Spec => ConversationsOnlyGrow
<1>1. IInv /\ [Next]_vars =>
        [\A i \in DOMAIN conversation :
           i \in DOMAIN conversation' /\ IsPrefix(conversation[i], conversation'[i])]_vars
  <2> SUFFICES ASSUME IInv, Next, NEW i \in DOMAIN conversation
               PROVE  i \in DOMAIN conversation' /\ IsPrefix(conversation[i], conversation'[i])
    OBVIOUS
  <2>1. i \in SessionIds /\ conversation[i] \in Seq(Messages)
    BY DEF IInv, TypeOK
  <2>2. IsPrefix(conversation[i], conversation[i])
    BY <2>1, LenProperties DEF IsPrefix
  <2>3. CASE UNCHANGED conversation
    BY <2>2, <2>3
  <2>4. ASSUME NEW r \in Creators, InsertSession(r)
        PROVE  i \in DOMAIN conversation' /\ IsPrefix(conversation[i], conversation'[i])
    <3>1. r \in Drawn /\ drawn[r] \notin DOMAIN conversation
      BY <2>4 DEF IInv, InsertSession, IdsAreDrawn, Drawn
    <3> QED
      BY <2>2, <2>4, <3>1 DEF InsertSession
  <2>5. ASSUME NEW m \in Messages, NEW j \in SessionIds, PushMessage(m, j)
        PROVE  i \in DOMAIN conversation' /\ IsPrefix(conversation[i], conversation'[i])
    <3>1. conversation' = [conversation EXCEPT ![j] = Append(@, m)]
      BY <2>5 DEF PushMessage
    <3>2. CASE i = j
      BY <2>1, <3>1, <3>2, PrefixOfAppend
    <3>3. CASE i # j
      BY <2>2, <3>1, <3>3
    <3> QED
      BY <3>2, <3>3
  <2> QED
    BY <2>3, <2>4, <2>5 DEF Next, AllocateSessionId, Broadcast, Subscribe, Receive, Lagged, Disconnect
<1>2. QED
  BY <1>1, IInvHolds, PTL DEF Spec, ConversationsOnlyGrow

=============================================================================
