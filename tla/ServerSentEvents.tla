-------------------------- MODULE ServerSentEvents --------------------------
(***************************************************************************)
(* Frames of a streamed body, cut into chunks wherever the network cuts    *)
(* them: SseParser of api/src/sse.rs ("claw"), OpenAiSseParser of          *)
(* openai_compat.rs ("openai") and IncrementalSseParser of                 *)
(* runtime/src/sse.rs ("lines"), with the streams that feed them.  A frame *)
(* is two bytes with a line end between, and ends with an empty line.      *)
(***************************************************************************)
EXTENDS Integers, SequencesExt

CONSTANT Frames  \* bound: frames of one body

ASSUME ServerSentEventsAssumption == Frames \in Nat

Parsers == {"claw", "openai", "lines"}
Kinds == {"event", "ping", "bad"}
LF == <<0, 0>>
CR == <<0, 1>>
Eol(crlf) == IF crlf THEN <<CR, LF>> ELSE <<LF>>
Frame(k, crlf) == <<<<k, 1>>>> \o Eol(crlf) \o <<<<k, 2>>>> \o Eol(crlf) \o Eol(crlf)

VARIABLES
  parser,    \* which parser reads
  kinds,     \* what each frame is; a "bad" one has data that does not parse
  ends,      \* does each frame use CR LF?
  wire,      \* bytes not received yet
  buffer,    \* buffer
  line,      \* "lines": the bytes of the event collected so far
  delivered,    \* frames that were delivered as events
  reading      \* "open", "done" (no more events), "failed" (an error was returned)

sseVars == <<parser, kinds, ends, wire, buffer, line, delivered, reading>>

SseInit ==
  /\ parser \in Parsers
  /\ kinds \in [1 .. Frames -> Kinds]
  /\ ends \in [1 .. Frames -> BOOLEAN]
  /\ wire = FlattenSeq([k \in 1 .. Frames |-> Frame(k, ends[k])])
  /\ buffer = <<>> /\ line = <<>> /\ delivered = <<>>
  /\ reading = "open"

-----------------------------------------------------------------------------
(* next_frame, next_sse_frame: the first empty line, one of two line feeds *)
(* before any of the other kind.                                           *)
Finds(bytes, sep) ==
  {k \in 1 .. Len(bytes) - Len(sep) + 1 : SubSeq(bytes, k, k + Len(sep) - 1) = sep}
LeastOf(S) == CHOOSE k \in S : \A j \in S : k <= j
Separators == <<<<LF, LF>>, <<CR, LF, CR, LF>>>>

NextFrame(bytes) ==
  LET cut(sep) == [found |-> TRUE, frame |-> SubSeq(bytes, 1, LeastOf(Finds(bytes, sep)) - 1),
                   rest |-> SubSeq(bytes, LeastOf(Finds(bytes, sep)) + Len(sep), Len(bytes))]
  IN  IF Finds(bytes, Separators[1]) # {} THEN cut(Separators[1])
      ELSE IF Finds(bytes, Separators[2]) # {} THEN cut(Separators[2])
      ELSE [found |-> FALSE, rest |-> bytes]

(* parse_frame, parse_sse_frame: what the data lines of a frame give.  A   *)
(* ping has an event name (Anthropic) or is a comment (OpenAI).            *)
Content(bytes) == SelectSeq(bytes, LAMBDA b : b[1] > 0)
FramesIn(bytes) == {Content(bytes)[j][1] : j \in DOMAIN Content(bytes)}

Parse(bytes) ==
  LET spoken == {k \in FramesIn(bytes) : kinds[k] # "ping"}
      k == CHOOSE j \in spoken : TRUE
  IN  IF spoken = {} \/ (parser = "claw" /\ spoken # FramesIn(bytes)) THEN "nothing"
      ELSE IF spoken = {k} /\ kinds[k] = "event" /\ {<<k, 1>>, <<k, 2>>} \subseteq ToSet(bytes)
      THEN "event" ELSE "error"

FrameOf(bytes) == CHOOSE k \in FramesIn(bytes) : kinds[k] # "ping"

(* push: frames until there is none, or one is an error, which loses the   *)
(* events that the same chunk brought before it.                           *)
TakeFrame(got, n) ==
  LET next == NextFrame(got.buffer)
  IN  IF got.failed \/ ~next.found THEN got
      ELSE IF Parse(next.frame) = "nothing" THEN [got EXCEPT !.buffer = next.rest]
      ELSE IF Parse(next.frame) = "error" THEN [got EXCEPT !.buffer = next.rest, !.failed = TRUE]
      ELSE [got EXCEPT !.buffer = next.rest, !.events = Append(@, FrameOf(next.frame))]

(* Slip: the search starts at what the chunk brought. *)
PushUnjoined(chunk) ==
  LET got == FoldLeft(TakeFrame, [buffer |-> chunk, events |-> <<>>, failed |-> FALSE],
                      [n \in 1 .. Frames |-> n])
  IN  [got EXCEPT !.buffer = IF got.buffer = chunk THEN buffer \o chunk ELSE @]

Push(chunk) ==
  FoldLeft(TakeFrame, [buffer |-> buffer \o chunk, events |-> <<>>, failed |-> FALSE],
           [n \in 1 .. Frames |-> n])

(* IncrementalSseParser: line by line; an empty line ends an event.        *)
TakeByte(got, b) ==
  IF b # LF THEN [got EXCEPT !.buffer = Append(@, b)]
  ELSE LET text == Content(got.buffer)
       IN  IF text # <<>> THEN [got EXCEPT !.buffer = <<>>, !.line = @ \o text]
           ELSE IF got.line = <<>> THEN [got EXCEPT !.buffer = <<>>]
           ELSE [buffer |-> <<>>, line |-> <<>>, events |-> Append(got.events, got.line[1][1])]

PushLines(chunk) == FoldLeft(TakeByte, [buffer |-> buffer, line |-> line, events |-> <<>>], chunk)

-----------------------------------------------------------------------------
(* next_event: a chunk arrives.  An error is the last thing returned.      *)
ChunkArrives(n) ==
  /\ reading = "open" /\ n <= Len(wire)
  /\ wire' = SubSeq(wire, n + 1, Len(wire))
  /\ IF parser = "lines"
     THEN LET got == PushLines(SubSeq(wire, 1, n))
          IN  /\ buffer' = got.buffer /\ line' = got.line
              /\ delivered' = delivered \o got.events
              /\ UNCHANGED reading
     ELSE LET got == Push(SubSeq(wire, 1, n))
          IN  /\ buffer' = got.buffer
              /\ reading' = IF got.failed THEN "failed" ELSE reading
              /\ delivered' = IF got.failed THEN delivered ELSE delivered \o got.events
              /\ UNCHANGED line
  /\ UNCHANGED <<parser, kinds, ends>>

(* The body ends, here or before its time.  SseParser::finish reads what   *)
(* is left as a frame (one that is cut may have no data line yet);         *)
(* OpenAiSseParser leaves it; the third gives what it has.                 *)
EndOfBody ==
  /\ reading = "open"
  /\ CASE parser = "openai" -> reading' = "done" /\ UNCHANGED <<buffer, line, delivered>>
       [] parser = "lines" ->
            /\ reading' = "done"
            /\ delivered' = IF line \o Content(buffer) = <<>> THEN delivered
                         ELSE Append(delivered, (line \o Content(buffer))[1][1])
            /\ buffer' = <<>> /\ line' = <<>>
       [] OTHER ->
            /\ buffer' = <<>>
            /\ \/ /\ Parse(buffer) = "event"
                  /\ reading' = "done" /\ delivered' = Append(delivered, FrameOf(buffer))
               \/ /\ Parse(buffer) # "event"
                  /\ reading' \in IF Parse(buffer) = "error" THEN {"failed", "done"} ELSE {"done"}
                  /\ UNCHANGED delivered
            /\ UNCHANGED line
  /\ UNCHANGED <<parser, kinds, ends, wire>>

SseNext == (\E n \in 1 .. Len(wire) : ChunkArrives(n)) \/ EndOfBody
SseSpec == SseInit /\ [][SseNext]_sseVars

-----------------------------------------------------------------------------
SseTypeOK ==
  /\ parser \in Parsers
  /\ reading \in {"open", "done", "failed"}
  /\ ToSet(delivered) \subseteq 1 .. Frames

(* The frames that were received, with their ends, up to one that is bad.  *)
Sent == SubSeq(FlattenSeq([k \in 1 .. Frames |-> Frame(k, ends[k])]),
               1, Len(FlattenSeq([k \in 1 .. Frames |-> Frame(k, ends[k])])) - Len(wire))
Received == {k \in 1 .. Frames :
               Len(Sent) >= Len(FlattenSeq([j \in 1 .. k |-> Frame(j, ends[j])]))}
Good == {k \in 1 .. Frames : \A j \in 1 .. k : kinds[j] # "bad"}
Wanted(S) == IF parser = "lines" THEN S ELSE {k \in S \cap Good : kinds[k] = "event"}
InTurn(S) == SetToSortSeq(S, <)

(* A body whose frames end in different ways is read right only if no      *)
(* chunk brings the end of one frame together with the next.               *)
Mixed == parser # "lines" /\ \E j, k \in 1 .. Frames : ends[j] # ends[k]

(* However the body is cut into chunks, every frame whose end has arrived  *)
(* is an event, once and in turn, at once; what a bad frame can take with  *)
(* it are the events just before it; and the end of a body adds at most    *)
(* the frame whose empty line is missing.                                  *)
ChunksDoNotMatter ==
  ~Mixed =>
    /\ reading = "open" => delivered = InTurn(Wanted(Received))
    /\ reading = "failed" => IsPrefix(delivered, InTurn(Wanted(1 .. Frames)))
    /\ reading = "done" => /\ IsPrefix(InTurn(Wanted(Received)), delivered)
                         /\ Len(delivered) <= Cardinality(Wanted(Received)) + 1
    /\ reading = "done" /\ parser = "claw" => IsPrefix(delivered, InTurn(Wanted(1 .. Frames)))

EventsInv == SseTypeOK /\ ChunksDoNotMatter

=============================================================================
