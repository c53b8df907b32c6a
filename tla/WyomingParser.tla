--------------------------- MODULE WyomingParser ---------------------------
(***************************************************************************)
(* The receive path of wyoming.c: bytes arrive in chunks cut anywhere, are *)
(* appended to rx_buffer, and are parsed as far as they go: a JSON header, *)
(* a newline, the JSON data the header announces, the binary payload it    *)
(* announces.                                                              *)
(*                                                                         *)
(* What the server sends is fixed when a behaviour starts.  A byte is what *)
(* it is a part of: the k-th byte of the header, of the data or of the     *)
(* payload of a message, or the newline behind a header.  The buffer holds *)
(* consecutive bytes of the input, first .. arrived, so that a removal of  *)
(* bytes from its front (memmove) is an increase of first.                 *)
(***************************************************************************)
EXTENDS Integers, Sequences, FiniteSets, FiniteSetsExt, SequencesExt

CONSTANTS
  Streams,      \* what a server may send: sequences of messages
  HeaderSize,   \* bytes in a header
  DataSize,     \* bytes in the data of a message that has some
  BufferSize,   \* WYOMING_BUFFER_SIZE
  MaxChunk      \* bytes one recv() returns at most

Types == {"info", "error", "transcript", "audio-start", "audio-chunk", "audio-stop"}

\* A message: its type, whether its header has a data_length, and its
\* payload_length, 0 if there is none.
Messages == [type : Types, data : BOOLEAN, payload : Nat]

ASSUME ParserAssumption ==
  /\ Streams \subseteq Seq(Messages)
  /\ HeaderSize \in Nat /\ DataSize \in Nat /\ HeaderSize > 1 /\ DataSize > 1
  /\ BufferSize \in Nat \ {0} /\ MaxChunk \in Nat \ {0}

\* Only an audio chunk has a payload, and its format is its data. (The parser steps over
\* the newline behind a header on its way to the data: without data it would be taken
\* for the first byte of the payload.)
ASSUME ProtocolAssumption ==
  \A s \in Streams : \A i \in DOMAIN s :
    s[i].payload > 0 => s[i].type = "audio-chunk" /\ s[i].data

VARIABLES
  sent,          \* the messages of this behaviour
  arrived,       \* bytes received so far
  first,         \* the byte at the start of rx_buffer
  parse_state,   \* "json" or "binary"
  expected,      \* binary_bytes_expected
  received,      \* binary_bytes_received
  audio,         \* audio_buffer: which bytes it holds
  at,            \* parse_ptr
  parsed,        \* parsed_something
  stage,         \* "poll", "outer" (the loop on rx_length) or "json"
  handled,       \* messages handed to wyoming_process_message
  dropped        \* history variable: bytes were thrown away unread

parserVars == <<sent, arrived, first, parse_state, expected, received, audio, at,
          parsed, stage, handled, dropped>>

-----------------------------------------------------------------------------
(* The input. *)

Part(i, part, size) == [k \in 1 .. size |-> [msg |-> i, part |-> part, k |-> k]]

BytesOf(i) ==
  Part(i, "header", HeaderSize) \o Part(i, "newline", 1)
    \o Part(i, "data", IF sent[i].data THEN DataSize ELSE 0)
    \o Part(i, "payload", sent[i].payload)

Input == FlattenSeq([i \in 1 .. Len(sent) |-> BytesOf(i)])

\* The JSON texts begin and end with a brace; other bytes are none that the
\* parser looks for.
OpensObject(b) == b.part \in {"header", "data"} /\ b.k = 1

\* rx_length.
Buffered == arrived - first + 1

Fits(n) == Buffered + n < BufferSize

ParserInit ==
  /\ sent \in Streams
  /\ arrived = 0 /\ first = 1
  /\ parse_state = "json" /\ expected = 0 /\ received = 0
  /\ audio = << >>
  /\ at = 1 /\ parsed = FALSE
  /\ stage = "poll"
  /\ handled = << >>
  /\ dropped = FALSE

-----------------------------------------------------------------------------
(* wyoming_poll_callback. *)

Receive(n) ==
  /\ stage = "poll"
  /\ arrived + n <= Len(Input)
  /\ Fits(n)
  /\ arrived' = arrived + n
  /\ stage' = "outer"
  /\ UNCHANGED <<sent, first, parse_state, expected, received, audio, at, parsed,
                 handled, dropped>>

\* No room: what is buffered and what was received is dropped.
ReceiveTooMuch(n) ==
  /\ stage = "poll"
  /\ arrived + n <= Len(Input)
  /\ ~Fits(n)
  /\ arrived' = arrived + n
  /\ first' = arrived + n + 1
  /\ parse_state' = "json"
  /\ dropped' = TRUE
  /\ UNCHANGED <<sent, expected, received, audio, at, parsed, stage, handled>>

NothingLeft ==
  /\ stage = "outer"
  /\ Buffered = 0
  /\ stage' = "poll"
  /\ UNCHANGED <<sent, arrived, first, parse_state, expected, received, audio, at,
                 parsed, handled, dropped>>

\* Bug: what follows the payload is taken for payload, too.
AllBuffered == Buffered

\* As much of the payload as there is.
PayloadHere == Min({expected - received, Buffered})

CopyPayload ==
  LET n == PayloadHere
  IN  /\ stage = "outer"
      /\ Buffered > 0
      /\ parse_state = "binary"
      /\ audio' = audio \o [i \in 1 .. n |-> first + i - 1]
      /\ first' = first + n
      /\ IF received + n >= expected
         THEN parse_state' = "json" /\ expected' = 0 /\ received' = 0
         ELSE received' = received + n /\ UNCHANGED <<parse_state, expected>>
      /\ UNCHANGED <<sent, arrived, at, parsed, stage, handled, dropped>>

\* The audio buffer cannot be enlarged.
CopyFails ==
  /\ stage = "outer"
  /\ Buffered > 0
  /\ parse_state = "binary"
  /\ parse_state' = "json"
  /\ first' = arrived + 1
  /\ dropped' = TRUE
  /\ stage' = "poll"
  /\ UNCHANGED <<sent, arrived, expected, received, audio, at, parsed, handled>>

BeginPass ==
  /\ stage = "outer"
  /\ Buffered > 0
  /\ parse_state = "json"
  /\ at' = first
  /\ parsed' = FALSE
  /\ stage' = "json"
  /\ UNCHANGED <<sent, arrived, first, parse_state, expected, received, audio,
                 handled, dropped>>

\* In a pass over the buffer, with bytes left.
InPass == stage = "json" /\ parse_state = "json" /\ at <= arrived

SkipNewline ==
  /\ InPass
  /\ Input[at].part = "newline"
  /\ at' = at + 1
  /\ UNCHANGED <<sent, arrived, first, parse_state, expected, received, audio,
                 parsed, stage, handled, dropped>>

\* Anything that is not the start of an object is skipped to the next newline.
SkipUnknown ==
  /\ InPass
  /\ ~OpensObject(Input[at]) /\ Input[at].part # "newline"
  /\ at' = Min({p \in at .. arrived : Input[p].part = "newline"} \cup {arrived + 1})
  /\ UNCHANGED <<sent, arrived, first, parse_state, expected, received, audio,
                 parsed, stage, handled, dropped>>

\* The last byte of the message that starts at p, its payload not counted: of
\* the header, or of the data behind the newline.
MessageEnd(p) ==
  p + HeaderSize - 1 + (IF sent[Input[p].msg].data THEN 1 + DataSize ELSE 0)

\* All of it is in the buffer.
MessageIsHere(p) == MessageEnd(p) <= arrived

AtHeader == InPass /\ Input[at].part = "header" /\ Input[at].k = 1

\* wyoming_process_message for the types that leave the buffer alone. A
\* payload_length makes the payload come next.
TakeMessage ==
  LET m == sent[Input[at].msg]
  IN  /\ AtHeader
      /\ MessageIsHere(at)
      /\ m.type \notin {"transcript", "audio-stop"}
      /\ handled' = Append(handled, Input[at].msg)
      /\ audio' = IF m.type = "audio-start" THEN << >> ELSE audio
      /\ IF m.payload > 0
         THEN parse_state' = "binary" /\ expected' = m.payload /\ received' = 0
         ELSE UNCHANGED <<parse_state, expected, received>>
      /\ at' = MessageEnd(at) + 1
      /\ parsed' = TRUE
      /\ UNCHANGED <<sent, arrived, first, stage, dropped>>

\* A transcript or an audio-stop empties the buffer and resets the parser.
TakeLastMessage ==
  /\ AtHeader
  /\ MessageIsHere(at)
  /\ sent[Input[at].msg].type \in {"transcript", "audio-stop"}
  /\ handled' = Append(handled, Input[at].msg)
  /\ first' = arrived + 1
  /\ parse_state' = "json" /\ expected' = 0 /\ received' = 0
  /\ dropped' = (dropped \/ MessageEnd(at) < arrived)
  /\ stage' = "poll"
  /\ UNCHANGED <<sent, arrived, audio, at, parsed>>

\* Data met without its header, after something was dropped: an object without
\* a type. An audio format is taken for that of a payload if one is still
\* expected.
TakeBareData ==
  /\ InPass
  /\ Input[at].part = "data" /\ Input[at].k = 1
  /\ at + DataSize - 1 <= arrived
  /\ parse_state' =
       IF sent[Input[at].msg].type \in {"audio-start", "audio-chunk"} /\ expected > 0
       THEN "binary" ELSE parse_state
  /\ at' = at + DataSize
  /\ parsed' = TRUE
  /\ UNCHANGED <<sent, arrived, first, expected, received, audio, stage, handled,
                 dropped>>

\* The pass is over: nothing left, a payload next, or an object or its data
\* not here yet.
PassIsOver ==
  \/ parse_state = "binary"
  \/ at > arrived
  \/ AtHeader /\ ~MessageIsHere(at)
  \/ InPass /\ Input[at].part = "data" /\ Input[at].k = 1
       /\ at + DataSize - 1 > arrived

\* Bugs: what was parsed stays in the buffer; a pass without progress is
\* followed by another one.
EndPassKeeping ==
  /\ stage = "json"
  /\ PassIsOver
  /\ stage' = IF ~parsed /\ at <= arrived THEN "poll" ELSE "outer"
  /\ UNCHANGED <<sent, arrived, first, parse_state, expected, received, audio, at,
                 parsed, handled, dropped>>

EndPassAgain ==
  /\ stage = "json"
  /\ PassIsOver
  /\ first' = at
  /\ stage' = "outer"
  /\ UNCHANGED <<sent, arrived, parse_state, expected, received, audio, at, parsed,
                 handled, dropped>>

\* What was parsed is removed. Without a message there is nothing to gain
\* from another pass.
EndPass ==
  /\ stage = "json"
  /\ PassIsOver
  /\ first' = at
  /\ stage' = IF ~parsed /\ at <= arrived THEN "poll" ELSE "outer"
  /\ UNCHANGED <<sent, arrived, parse_state, expected, received, audio, at, parsed,
                 handled, dropped>>

Parse ==
  \/ NothingLeft \/ CopyPayload \/ CopyFails \/ BeginPass
  \/ SkipNewline \/ SkipUnknown \/ TakeMessage \/ TakeLastMessage \/ TakeBareData
  \/ EndPass

\* All that was sent has arrived.
Quiet == stage = "poll" /\ arrived = Len(Input) /\ UNCHANGED parserVars

ParserNext ==
  \/ \E n \in 1 .. MaxChunk : Receive(n) \/ ReceiveTooMuch(n)
  \/ Parse
  \/ Quiet

\* The callback goes on once it has begun; nothing obliges the server to send.
ParserSpec == ParserInit /\ [][ParserNext]_parserVars /\ WF_parserVars(Parse)

-----------------------------------------------------------------------------
ParserTypeOK ==
  /\ sent \in Streams
  /\ arrived \in 0 .. Len(Input)
  /\ first \in 1 .. arrived + 1
  /\ parse_state \in {"json", "binary"}
  /\ expected \in Nat /\ received \in 0 .. expected
  /\ audio \in Seq(1 .. arrived)
  /\ at \in 1 .. arrived + 1 /\ parsed \in BOOLEAN
  /\ stage \in {"poll", "outer", "json"}
  /\ handled \in Seq(1 .. Len(sent))
  /\ dropped \in BOOLEAN

\* Messages whose header and data lie in the first n bytes.
Complete(n) ==
  {i \in 1 .. Len(sent) :
     \A p \in 1 .. Len(Input) :
       Input[p].msg = i /\ Input[p].part \in {"header", "data"} => p <= n}

\* The payload bytes in the first n that follow the newest audio-start.
Payload(n) ==
  LET starts == {i \in Complete(n) : sent[i].type = "audio-start"}
      from   == IF starts = {} THEN 0 ELSE Max(starts)
  IN  {p \in 1 .. n : Input[p].part = "payload" /\ Input[p].msg > from}

\* Between two polls, exactly the messages that have arrived completely have
\* been handled, in order, and exactly the payload that has arrived is in the
\* audio buffer: it does not matter where TCP cuts the stream.
CutsDoNotMatter ==
  stage = "poll" /\ ~dropped =>
    /\ handled = [i \in 1 .. Cardinality(Complete(arrived)) |-> i]
    /\ ToSet(audio) = Payload(arrived) /\ Len(audio) = Cardinality(Payload(arrived))

\* Whatever is dropped, no message is handled twice or after a later one, and the buffer
\* keeps room for the zero that is written behind its last byte.
HandledInOrder ==
  /\ \A i, j \in DOMAIN handled : i < j => handled[i] < handled[j]
  /\ Buffered < BufferSize

\* The callback comes back to the main loop: the parser neither spins on bytes
\* it cannot use yet nor parses the same ones again and again.
PollReturns == stage # "poll" ~> stage = "poll"
=============================================================================
