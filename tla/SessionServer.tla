---------------------------- MODULE SessionServer ----------------------------
(***************************************************************************)
(* The HTTP session server (server/src/lib.rs).  Handlers run concurrently *)
(* over one RwLock'ed map of sessions.  send_message pushes under the      *)
(* lock and broadcasts after it; an event stream is a snapshot followed by *)
(* what a bounded broadcast channel still holds when the client reads.     *)
(***************************************************************************)
EXTENDS Naturals, SequencesExt

CONSTANTS
  Creators,     \* calls of POST /sessions
  Messages,     \* calls of POST /sessions/{id}/message, each with its own text
  Clients,      \* calls of GET /sessions/{id}/events
  Capacity      \* BROADCAST_CAPACITY: events a channel keeps for slow readers

ASSUME SessionServerAssumption ==
  /\ IsFiniteSet(Creators)
  /\ Capacity \in Nat \ {0}

VARIABLES
  nextSessionId,   \* next_session_id
  drawn,           \* id a create_session call drew, or NoId
  created,         \* create_session calls that have returned
  conversation,    \* [id -> messages] of the sessions in the store
  log,             \* [id -> events ever broadcast on the channel of the session]
  sending,         \* [id -> messages pushed and not broadcast yet]
  posted,          \* send_message calls that have taken the lock
  stream           \* [client -> its event stream, or NoStream]

vars == <<nextSessionId, drawn, created, conversation, log, sending, posted, stream>>

NoId == 0
SessionIds == 1 .. Cardinality(Creators)
NoStream == [session |-> NoId]
Opened(c) == stream[c] # NoStream

Init ==
  /\ nextSessionId = 1
  /\ drawn = [r \in Creators |-> NoId]
  /\ created = {}
  /\ conversation = <<>>
  /\ log = [i \in SessionIds |-> <<>>]
  /\ sending = [i \in SessionIds |-> {}]
  /\ posted = {}
  /\ stream = [c \in Clients |-> NoStream]

-----------------------------------------------------------------------------
(* create_session: the id is drawn before the write lock is taken.         *)

(* Slip: the counter is loaded, and stored only if nobody else did.        *)
AllocateRacy(r) ==
  /\ drawn[r] = NoId
  /\ drawn' = [drawn EXCEPT ![r] = nextSessionId]
  /\ nextSessionId' \in {nextSessionId, nextSessionId + 1}
  /\ UNCHANGED <<created, conversation, log, sending, posted, stream>>

AllocateSessionId(r) ==
  /\ drawn[r] = NoId
  /\ drawn' = [drawn EXCEPT ![r] = nextSessionId]
  /\ nextSessionId' = nextSessionId + 1
  /\ UNCHANGED <<created, conversation, log, sending, posted, stream>>

InsertSession(r) ==
  /\ drawn[r] # NoId
  /\ r \notin created
  /\ created' = created \cup {r}
  /\ conversation' = [i \in DOMAIN conversation \cup {drawn[r]} |->
                        IF i = drawn[r] THEN <<>> ELSE conversation[i]]
  /\ UNCHANGED <<nextSessionId, drawn, log, sending, posted, stream>>

-----------------------------------------------------------------------------
(* send_message: a session that is not in the store is a 404.              *)
PushMessage(m, i) ==
  /\ m \notin posted
  /\ i \in DOMAIN conversation
  /\ posted' = posted \cup {m}
  /\ conversation' = [conversation EXCEPT ![i] = Append(@, m)]
  /\ sending' = [sending EXCEPT ![i] = @ \cup {m}]
  /\ UNCHANGED <<nextSessionId, drawn, created, log, stream>>

Broadcast(m, i) ==
  /\ m \in sending[i]
  /\ sending' = [sending EXCEPT ![i] = @ \ {m}]
  /\ log' = [log EXCEPT ![i] = Append(@, m)]
  /\ UNCHANGED <<nextSessionId, drawn, created, conversation, posted, stream>>

-----------------------------------------------------------------------------
(* stream_session_events: the snapshot and the subscription are taken      *)
(* under one read lock; cursor is the next event the receiver will get.    *)
(* inFlight is history: what was pushed and not broadcast at that moment.  *)

(* Slip: the subscription starts after as many events as the snapshot has  *)
(* messages, which is wrong whenever broadcasts and pushes are out of step.*)
SubscribeByCount(c, i) ==
  /\ stream[c] = NoStream
  /\ i \in DOMAIN conversation
  /\ stream' = [stream EXCEPT ![c] =
       [session |-> i, snapshot |-> conversation[i],
        start |-> Len(conversation[i]) + 1, cursor |-> Len(conversation[i]) + 1, seen |-> <<>>,
        inFlight |-> sending[i]]]
  /\ UNCHANGED <<nextSessionId, drawn, created, conversation, log, sending, posted>>

Subscribe(c, i) ==
  /\ stream[c] = NoStream
  /\ i \in DOMAIN conversation
  /\ stream' = [stream EXCEPT ![c] =
       [session |-> i, snapshot |-> conversation[i],
        start |-> Len(log[i]) + 1, cursor |-> Len(log[i]) + 1, seen |-> <<>>,
        inFlight |-> sending[i]]]
  /\ UNCHANGED <<nextSessionId, drawn, created, conversation, log, sending, posted>>

EventsOf(c) == log[stream[c].session]
Oldest(c) == IF Len(EventsOf(c)) > Capacity THEN Len(EventsOf(c)) - Capacity + 1 ELSE 1

Receive(c) ==
  /\ Opened(c)
  /\ stream[c].cursor >= Oldest(c)
  /\ stream[c].cursor <= Len(EventsOf(c))
  /\ stream' = [stream EXCEPT ![c].seen = Append(@, EventsOf(c)[stream[c].cursor]),
                              ![c].cursor = @ + 1]
  /\ UNCHANGED <<nextSessionId, drawn, created, conversation, log, sending, posted>>

(* Slip: a reader that fell behind asks again for what it missed. *)
LaggedRetries(c) ==
  /\ Opened(c)
  /\ stream[c].cursor < Oldest(c)
  /\ stream' = [stream EXCEPT ![c].cursor = @]
  /\ UNCHANGED <<nextSessionId, drawn, created, conversation, log, sending, posted>>

(* RecvError::Lagged: the loop continues from the oldest event kept, and   *)
(* the client is not told.                                                 *)
Lagged(c) ==
  /\ Opened(c)
  /\ stream[c].cursor < Oldest(c)
  /\ stream' = [stream EXCEPT ![c].cursor = Oldest(c)]
  /\ UNCHANGED <<nextSessionId, drawn, created, conversation, log, sending, posted>>

Disconnect(c) ==
  /\ Opened(c)
  /\ stream' = [stream EXCEPT ![c] = NoStream]
  /\ UNCHANGED <<nextSessionId, drawn, created, conversation, log, sending, posted>>

-----------------------------------------------------------------------------
Next ==
  \/ \E r \in Creators : AllocateSessionId(r) \/ InsertSession(r)
  \/ \E i \in SessionIds :
       \/ \E m \in Messages : PushMessage(m, i) \/ Broadcast(m, i)
       \/ \E c \in Clients : Subscribe(c, i)
  \/ \E c \in Clients : Receive(c) \/ Lagged(c) \/ Disconnect(c)

(* A handler that holds a message goes on to broadcast it, and the client  *)
(* of a stream that stays open keeps reading.                              *)
Fairness ==
  /\ \A m \in Messages, i \in SessionIds : WF_vars(Broadcast(m, i))
  /\ \A c \in Clients : WF_vars(Receive(c) \/ Lagged(c))

Spec == Init /\ [][Next]_vars /\ Fairness

-----------------------------------------------------------------------------
Streams ==
  [session : SessionIds, snapshot : Seq(Messages), start : Nat \ {0}, cursor : Nat \ {0},
   seen : Seq(Messages), inFlight : SUBSET Messages]

TypeOK ==
  /\ nextSessionId \in 1 .. Cardinality(Creators) + 1
  /\ drawn \in [Creators -> SessionIds \cup {NoId}]
  /\ created \subseteq Creators
  /\ DOMAIN conversation \subseteq SessionIds
  /\ \A i \in DOMAIN conversation : conversation[i] \in Seq(Messages)
  /\ log \in [SessionIds -> Seq(Messages)]
  /\ sending \in [SessionIds -> SUBSET Messages]
  /\ posted \subseteq Messages
  /\ stream \in [Clients -> Streams \cup {NoStream}]

(* Creating a session never wipes out one that is in use: a conversation   *)
(* only ever grows (create_session draws its id outside the lock).         *)
ConversationsOnlyGrow ==
  [][\A i \in DOMAIN conversation :
       i \in DOMAIN conversation' /\ IsPrefix(conversation[i], conversation'[i])]_vars

(* No message falls between the snapshot of a stream and its events: it is *)
(* in the snapshot, or its event comes at or after the subscription, or    *)
(* its handler is still about to broadcast it.                             *)
NothingBetweenSnapshotAndEvents ==
  \A c \in Clients : Opened(c) =>
    LET s == stream[c] IN
    \A m \in ToSet(conversation[s.session]) :
      \/ m \in ToSet(s.snapshot)
      \/ m \in sending[s.session]
      \/ \E k \in s.start .. Len(log[s.session]) : log[s.session][k] = m

(* A slow reader loses only what the channel no longer keeps, and gets the *)
(* rest once each and in the order of the broadcasts.                      *)
OnlyOverflowIsLost ==
  \A c \in Clients : Opened(c) =>
    LET s == stream[c]
        passed == {log[s.session][k] : k \in s.start .. s.cursor - 1}
        kept == {log[s.session][k] : k \in
                   {j \in s.start .. s.cursor - 1 : j + Capacity > Len(log[s.session])}}
    IN  /\ kept \subseteq ToSet(s.seen)
        /\ ToSet(s.seen) \subseteq passed
        /\ Cardinality(ToSet(s.seen)) = Len(s.seen)

(* A client is told of a message twice, in the snapshot and by an event,   *)
(* only if it was in flight when the client subscribed.                    *)
TwiceMeansInFlight ==
  \A c \in Clients : Opened(c) =>
    LET s == stream[c] IN
    {log[s.session][k] : k \in s.start .. Len(log[s.session])} \cap ToSet(s.snapshot)
      \subseteq s.inFlight

(* The events of a stream are the broadcasts since it was opened: none     *)
(* missing but by overflow, none twice but what was in flight.             *)
EventsAreExact == OnlyOverflowIsLost /\ TwiceMeansInFlight

(* A client that stays connected hears of every message: from the snapshot,*)
(* from an event, or never because it fell behind by more than the channel *)
(* keeps.                                                                  *)
Hears(c, m) ==
  \/ stream[c] = NoStream
  \/ m \in ToSet(stream[c].snapshot)
  \/ m \in ToSet(stream[c].seen)
  \/ \E k \in 1 .. stream[c].cursor - 1 : EventsOf(c)[k] = m
EveryoneHears ==
  \A c \in Clients, m \in Messages :
    (Opened(c) /\ m \in ToSet(conversation[stream[c].session])) ~> Hears(c, m)

(* A subscriber loses nothing between its snapshot and its events, and     *)
(* what it receives is what was sent, in its order.                        *)
ServerInv == TypeOK /\ NothingBetweenSnapshotAndEvents /\ EventsAreExact

=============================================================================
