# Voice-Transcript in TLA+

The application turns a camera's microphone into text. A capture callback feeds
samples into a ring; a worker thread cuts them into utterances; an utterance is
transcribed by a local whisper.cpp model or by an external server that speaks
the Wyoming protocol; transcripts are filtered, kept in a short history, shown
over HTTP and published over MQTT. The code is C with GLib; four threads matter:

| thread | started by | what it runs |
|---|---|---|
| main loop | `main` | capture callbacks, everything posted with `g_idle_add`, the 10 ms poll of the Wyoming socket, start and shutdown |
| worker | `whisper_stt_init` | `transcribe_thread_func` |
| HTTP | `ACAP()` | one request at a time: settings, transcripts, status, MQTT, certificates |
| MQTT library | `MQTTAsync_create` | the callbacks of `MQTT.c` |

Paths below are under `src/app/`, unless they name a file of `src/` itself.

## 1. Inventory

**Sample ring** (`whisper_stt.c` 56-61, 142-177, 429-468, 519-535). State:
`g_ring`, `g_written`, `g_running`, a mutex and a condition variable; the
worker's cursor and frame. Operations: start, feed, read a frame, stop and join.
Hard: the capture side laps a worker that is busy transcribing; wake-ups; the
join. Correct if frames are whole and in order, only the oldest samples are
lost, nobody sleeps through work, and shutdown returns. *`AudioRing`*

**Segmentation** (`whisper_stt.c` 284-427, 470-502). State: the configuration
under its mutex; pre-roll, utterance buffer, speech and silence counters.
Operations: one per frame, and the change of settings from another thread. Hard:
settings that change inside an utterance; buffer limits; 32-bit lengths. Correct
if an utterance is an unbroken piece of the stream, fits its buffer, ends on the
configured silence or cap, and is judged by the speech in it. *`Segmenter`*

**Delivery to the main loop** (`whisper_stt.c` 81-140, 202-282, `main.c`
810-813). Transcripts, external requests and engine states are posted as idle
callbacks. Hard: what was true when a result was posted may not be when it is
delivered. Correct if each utterance is in one place, is handed on once and in
order, comes to an end, and the status does not stay at work. *`SttDelivery`*

**External recogniser** (`main.c` 81-87, 476-546, 916-1031; `wyoming.c`). State:
the request in flight (flag, start, utterance start), the connection (state,
socket, awaiting), the settings' mode and host. Operations: submit, poll,
connect, disconnect, apply settings. Hard: the HTTP thread applies settings
while the main thread submits or polls, with no lock; late answers; errors at
every step. Correct if an answer is attributed to the utterance it belongs to,
the connection never gets stuck, and state, socket and tracking agree.
*`ExternalAsr`*

**Wyoming parser** (`wyoming.c` 453-710). State: receive buffer, parse state,
bytes expected and received, the audio collected. Hard: a stream cut anywhere; a
full buffer. Correct if what is handled depends on what arrived and not on where
it was cut, if nothing is handled twice, and if the callback always returns.
*`WyomingParser`*

**Transcript policy** (`main.c` 105-321, 359-441, 853-898). State: use case,
keywords, minimum of words. Splitting, cleaning, counting, fuzzy matching, the
choice of a topic. Hard: edit distance in two rolling rows, brackets that do not
match, settings applied field by field meanwhile. A text comes from a server as JSON and
is published as JSON (`wyoming.c` 562-637, `MQTT.c` 366-415, `cJSON.c`): escapes,
surrogate pairs, a buffer that grows. Correct if a text that is left alone is judged as the
settings say, and if what is published says what was meant. *`TranscriptPolicy`, `JsonText`*

**Transcript history** (`main.c` 50-64, 327-357, 815-851, 1037-1087). State: a
circular array with its mutex, an unprotected counter, three status fields.
Operations: record and publish (main), list and clear (HTTP). Hard: clearing
while publishing; the wrap-around. Correct if it is a log of the newest entries,
if what is published was recorded, and if the counters agree with it.
*`TranscriptHistory`*

**Audio input** (`pipewire_audio.c`, `main.c` 549-614, 763-804). State: the
catalogue of nodes, one stream, five status fields. Operations: start, the
registry's announcements, buffers and errors, stop; the HTTP thread refreshes
the list. Hard: numbers that are used again, events that come late, two
refreshes at once. Correct if the catalogue is PipeWire's, if samples come from
the node that was wanted, and if the status shows that one. *`InputCapture`*

**MQTT client** (`MQTT.c`). State: settings and client under a mutex, the
settings' file, the library's connection, a status field. Operations: start,
publish, the settings endpoint, five callbacks, clean-up. Hard: callbacks that
come late, publications without the mutex, a dozen ways out of the endpoint, a
write that fails, a kill. Correct if no client is left behind, file and client
have the settings that were answered for, and the mutex is always given back.
*`MqttClient`*

**Status tree** (`ACAP.c` 140-233, 735-880, on cJSON's lists). State: the object
`app` with settings and status, a mutex. Hard: the lists are linked by hand;
groups are looked up and added without the mutex; `GET /app` prints without it.
*`JsonHeap`, `AppTree`*

**Settings** (`main.c` 616-737, `ACAP.c` 80-140, 168-233). State: the tree, the
file, what is in effect. Hard: a request during the start; a file that is
emptied before it is written. Correct if what was answered for is stored, shown
and in effect. *`Server`, `DurableSettings`*

**Certificate store** (`CERTS.c`). State: four files, the settings that name
them, the password, a status. Hard: every step fails on its own; the next start
loads what it finds. Correct if what is named is there and shown, what was
removed stays away, and a key gets its own password. *`CertStore`*

**HTTP server and life cycle** (`ACAP.c` 236-560, 2500-2525, `main.c`
1151-1265). State: endpoints, the thread, its cancellation. Hard: it serves from
the middle of the start to the middle of the end, and is cancelled wherever it
is. Correct if it ends before what it uses. *`Server`*

Every part is listed in `PROJECT.json` with its status, and the places where it
is hard to test under `hazards`.

## 2. Plan

The modules were written in this order: `AudioRing` over `LossyAudioQueue`;
`Segmenter`; `TranscriptHistory` over `BoundedLog`; `ExternalAsr`;
`WyomingParser`; `SttDelivery` over `Handover`; `MqttClient`; `InputCapture`; `TranscriptPolicy` on
`JsonText`; `AppTree` on `JsonHeap`; `CertStore`, and `Server`, which composes it with the
life cycle and the settings, over `DurableSettings`. A component that another
one depends on appears there in the form in which it matters:

| in | stands | for |
|---|---|---|
| `Segmenter` | one frame after the other | `AudioRing`'s hand-over |
| `SttDelivery` | "an utterance is finished" | the path of `Segmenter` through `EndUtterance` |
| `SttDelivery` | a submission that succeeds or fails | `ExternalAsr`'s path from `Take` to `Send` |
| `ExternalAsr` | the messages on a socket | what `WyomingParser` finds |
| `TranscriptPolicy` | `Publish` | `TranscriptHistory`'s publication |
| `Server` | `MutexIsFree` | the status fields of `AppTree` |
| `Server` | `CertsReceive`, `CertStep`, `CertsCut`, `CertsEnd`, `CertsInit` | `CertStore`, whole |

Left, most important first:

1. A disconnect on the HTTP thread while a poll parses (`wyoming.c` 430-710): the
   two-thread form of `WyomingParser`.
2. A composition of `SttDelivery` with the request tracking of `ExternalAsr`, so
   that `Submit` is a refinement and not an abstraction by hand. What it takes from
   `ExternalAsr`, that answers come once, in turn and to the right utterance, is
   `AnswersInTurn` there, and proved.

## 3. Modules

### LossyAudioQueue, AudioRing (proved in MicrophoneProofs)

`AudioRing` follows both threads through the code line by line where they share
memory: taking and releasing `g_ring_lock`, each slot written, each slot read,
the wait, the broadcast, the flag. A sample is its position in the stream, so a
torn frame shows. `running`, `ring`, `written`, `lock` are `g_running`, `g_ring`,
`g_written`, `g_ring_lock`; `next`, `frame` are the worker's. `mpc` and `wpc` say
where the threads are: `FeedCall`, `FeedLock`, `FeedWrite`, `FeedPublish` are
`whisper_stt_feed`; `ReadLock` to `ReadReturn` are `read_frame`; `Cleanup...` is
`whisper_stt_cleanup`; `Process` is the rest of the worker's loop, which takes as
long as it likes. `pthread_cond_wait` may return spuriously.

`LossyAudioQueue` says what the rest of the program relies on: frames of
consecutive samples, in order, of which only the oldest may be lost, and only
when more than `Capacity` wait. The refinement maps a frame to the queue's
hand-over when `read_frame` has returned.

### Segmenter, MCSegmenter (proved in MicrophoneProofs)

One action per path of the loop: `DropFrame` (disabled), `KeepForPreroll`,
`StartUtterance`, `ContinueUtterance`, `EndUtterance`; `Configure` from another
thread between any two frames. The gates are abstracted to three levels (at or
below `continue_gate`, up to `gate`, above it), and any sequence of levels is
allowed; the adaptive noise floor only chooses among these. A frame keeps its
number and level, so properties can be stated about the stream and not about the
code's counters. The 32-bit product of `max_utterance_sec` is modelled with its
width (`WordSize`).

### Handover, SttDelivery, SttDeliveryProofs

The worker, the queue of idle callbacks, the main loop and the HTTP thread. `queue`
holds what `g_idle_add` was given: a state, a text, or a request for the external
server. `fate` follows each utterance from `unborn` to its end. `callback`,
`external` and `hosted` are three variables of the code that the HTTP thread sets
in two steps (`HttpAssign`, `HttpSwitch`) while the worker and the main loop read
them. `inflight` and `awaited` are kept apart because a request can be forgotten
while its answer may still come, and can stay in flight when none will.
The callback pointer, which `deliver_external_transcribe_idle` reads twice
(`whisper_stt.c` 112), is read once.

`Handover` says what the rest of the program relies on: each utterance that was spoken is
handed on once or given up, what is settled stays so, and until the backend is switched
they are handed on in the order of speech. The refinement forgets where an utterance
is and keeps that it is not settled yet (`Unsettled`).

### ExternalAsr, MCExternalAsr, ExternalAsrProofs

Main and HTTP thread, each with a program counter. The functions both call
(`wyoming_connect`, `wyoming_disconnect`, `resolve_stt_backend_from_settings`)
are actions with the thread as parameter; `Resume` says where a call returns.
A step is between two accesses to shared variables that the other thread can
tell apart. `Take` to `Failed` are `Whisper_External_Transcribe_Callback` and
`wyoming_asr_transcribe`; `PollReady` to `PollDrop` the poll callback with the
messages it passes on. `age` stands for `now - g_external_request_started_ms`,
up to `Stale`.

Abstractions: the three assignments of `ClearRequest` are one step; a
`wyoming_set_state` with its callback is one step; the three events of a request
are sent in one step, of which any number may get through (`EventsSent`); a
socket's identity is never reused, so a descriptor number that the system hands
out again, and a double close, are not modelled; the parser is taken to find the
messages (`WyomingParser`); `stt.state` is `SttDelivery`'s. The server (external,
from how the code uses it) answers requests on a connection in order, with a
transcript, one without text, or an error; it may close at any time, or never
answer. The HTTP thread applies settings only after the main thread began with
those of the start; requests during the start are `Server`'s.

### WyomingParser, MCWyomingParser (proved in ExternalAsrProofs)

One connection's `wyoming_poll_callback` from `recv` on, and what
`wyoming_process_message` does to the buffer. A byte is named by the part of the
message it belongs to, so a header taken for a payload shows. The messages of a
behaviour are chosen at the start (`sent`), and the buffer is a window `first ..
arrived` on their bytes: `rx_length` is `Buffered`, a `memmove` to the front
increases `first`, `parse_ptr` is `at`. `stage` tells the two loops apart:
`CopyPayload`, `CopyFails` (no memory) and `BeginPass` are the outer one;
`SkipNewline`, `SkipUnknown`, `TakeMessage`, `TakeLastMessage`, `TakeBareData`
and the end of a pass the inner one. `ParserInit` is what `wyoming_connect` leaves.

What a server may send is any sequence of messages with two restrictions
(`ProtocolAssumption`): only an audio chunk has a payload, and its header announces data,
the format. The parser relies on the second: it steps over the newline behind a header
on its way to the data, so a payload without data would begin with that newline
(section 4).

A transcript and an audio-stop empty the buffer on purpose, whatever is behind
them; together with a full buffer and failed memory this sets the history variable
`dropped`, after which only order and progress are promised. Abstractions: JSON text
is reduced to its first byte (braces inside strings, which the code counts, and
headers with nested objects are not modelled), payload bytes never look like JSON,
and a disconnect on the HTTP thread, which resets `rx_length` under the parser's
feet, is left out.

### JsonText, TranscriptPolicy, MCTranscriptPolicy

`Whisper_Transcript_Callback` on the main thread and `apply_settings` on the HTTP
thread. Here a text is a sequence of characters, because the properties are about
them; a handful of characters stands for the kinds the code tells apart. The pure
functions are operators with the code's loops as folds: `Levenshtein` goes row by
row as `levenshtein_distance` does, and is compared (in `VerdictIsRight`) with a
definition over edits; `CountWords` is compared with a count of word starts.
`ApplyKeywords` to `RebuildEnd` are the fields of the settings one by one and the
keyword array name by name; `torn` notes that the array was changed while it was
read, after which `Match` may find anything or end the program. `steady` notes
that no settings were applied since the text came: the promise about the verdict
is made for such texts only.

A text comes from whisper.cpp (`Hear`) or in a server's message (`HearServer`), which
`MergedMessage` parses, merges with its data and prints; that is parsed again for
`TranscriptOf`; it leaves as the `payload` of `Publish`. Both are bytes. `JsonText` has what
cJSON does to them, as operators named for its functions: `Parse...` from
`cJSON_Parse` down to `Hex4`, `Print...` from `cJSON_PrintUnformatted` down to
`Escapes` (the first pass of `print_string_ptr`, which counts) and `Escaped` (the
second, which writes). `Put` writes what follows an `Ensure`, and notes in `over` if
it is more than there is room for; where the second pass leaves a gap before the
closing quote it shows as `Unwritten`. The parser reads the message in the buffer;
that it finds the ends of header and data is `WyomingParser`'s.

### BoundedLog, TranscriptHistory, TranscriptHistoryProofs

A step is a critical section of `g_history_mutex`, an access to the unprotected
`g_transcript_count` (`LoadCount` and `StoreCount` are `++`), or one status field
set under the status mutex. `HTTP_Endpoint_transcripts` runs on the HTTP thread
(`Get`, `HistoryClear`, `Reset...`), `publish_transcript_entry` on the main one.
`mqtt` is the last entry handed to `MQTT_Publish_JSON`, which may fail. `raced`
is a history variable: a DELETE and a publication have overlapped, and none that met no
publication came since. `Shutdown`
clears the history while the HTTP thread still runs; the use of the mutex after
`g_mutex_clear` (`main.c` 1257-1262) is undefined and not modelled.

`BoundedLog` is a sequence of the newest `Size` entries with Record, Read, Clear.

### InputCapture, InputCaptureProofs

`present` is PipeWire (external), `events` what its registry has announced,
`catalog` is `g_node_catalog`, `stream` the one stream and the node it is connected
to, `detected` is `node_detected`. `HandleAdd` and `HandleRemove` are
`pw_registry_event_global` and `..._remove`; `ListNodes` and `ShowNodes` on the main
thread, `HttpList` and `HttpShow` on the other, are
`refresh_available_input_nodes_status`. `lost` and `overlapped` are history
variables for the two cases in which the status cannot be right: the stream's node went
away, and two refreshes of the list have met, and none has come since that met no other; `reported` has the
objects whose connection failed and was shown as an error. The settings
allow one input node only, so the code that restarts the capture on another one
cannot run and is left out.

### MqttClient, MqttClientProofs

Main, HTTP and library thread, a kill, and the next start. The library's clients
live in `Places`, so that a handle that is forgotten, or used after it was
destroyed, can be told from a good one. `InitLoad` to `InitConnect` are `MQTT_Init`;
`HttpLock` to `HttpConnect` are `MQTT_HTTP_callback`, a step for each call into the
library or the file system; `Cleanup...` is `MQTT_Cleanup`; `Callback` are the five
callbacks, which set `mqtt.connected`. What the library does is external
(`Connected` to `Disconnected`). A setting is a server and whether it is reached
by TLS, which is what decides about the client. `raced` marks a request that met
`MQTT_Init` and a client given up while a callback ran.

### JsonHeap, AppTree, MCAppTree, AppTreeProofs

`JsonHeap` is cJSON's representation of an object: items with `next`, `prev` and
`child`, the first item's `prev` being the last; `AddItem`, `ReplaceItem`, `Detach`,
`Delete` and `DeleteItem` do what the functions of that name do to them, NULL
included. `AppTree` is the tree of `ACAP.c` in that memory. `SetBegin` looks a group
up without the mutex, `CreateRead`, `CreateLink`, `CreateClose` append one in three
steps as `add_item_to_array` does, `Write` sets the field under the mutex;
`WalkItem` is one step of `print_object`. `raced` notes that two threads appended
groups at once.

### CertStore

`CERTS.c`, a step for each file removed, opened or written, any of which may fail.
A text is its size, in the five classes the code tells apart, and whether it says
BEGIN CERTIFICATE. A password is a name and a length, any length, as a request may bring
it; the empty one is not the same as none. `CertsInit` is `CERTS_Init`, with `ReadBack`
for what it makes of the password's file: one that is shorter than 4 bytes or longer than 99
is not loaded, any other is, or something garbled, because the buffer it is read into
has no end. `CertsReceive` to `FillPassword`
are `CERTS_HTTP`. `shown` keeps the fields that the code confuses (`CA` and `ca`)
apart. History variables: `fits`, the password that came with the key in the file;
`aged`, a start since then; `cut`, a write that failed or was cut short. A removal that is
asked for with no text at all ends in a write that always "fails"; it leaves nothing half
written, and is not `cut`.

### DurableSettings, Server, MCServer, ServerProofs

`Server` EXTENDS `CertStore` and runs it: the main thread goes through `Boot`
(`ACAP()`, then `main()`), the loop and `Shutdown`; the HTTP thread accepts what is
registered by then (`nodes`), and is cancelled where it may be (`CancelPoints`): wherever
it waits, logs, connects or uses a file, so also between two settings of a request. `owner` is
`status_mutex`. `tree`, `file`, `cfg`, `effect` are the settings in memory, in
`localdata/settings.json`, as read to apply them, and in effect; a value is the
number of the request it came with. A setting in `AtStart` (the model) is read once,
before the engine starts. `Restart` is a kill, or the next start after an end.

`DurableSettings` is what the store of the settings promises, in four actions:
Change, BeginSave, EndSave, Start. The refinement maps the open and emptied file to
"nothing stored".

Abstractions: the settings are flat (nested objects, which the code merges, are
not modelled); a start that fails in `MQTT_Init` leaves the certificates' endpoint
unregistered, and is a choice.

## 4. Runs

| run | shows | bounds |
|---|---|---|
| `audio_ring` | nobody sleeps through a frame or a shutdown (`NoLostWakeup`), a buffered frame is read and cleanup returns (`NobodyWaitsForEver`, liveness), the refinement (`ImplementsQueue`), of which whole frames are a part | ring 5, frame 2, chunks up to 3, 12 samples: the ring is no multiple of the frame, a chunk can complete two frames, the worker can be lapped twice |
| `segmenter` | `UtteranceIsStream`, `VerdictIsRight`, `EndsOnSilenceOrCap` | buffer of 8 frames, 10 frames read, five settings: silence shorter than a frame, maximum below, at and above the buffer, disabled, and values that fall back to the defaults |
| `stt_delivery` | `OnePlace`, `StateSettles`, the refinement (`ImplementsHandover`), `FinishedIsSettled` (liveness) | 3 utterances: one in flight, one that meets it, one after a switch; 2 switches of the backend |
| `external_asr` | `AnswersInTurn` with both threads (an action property, of which `AnswerMatchesRequest` is a part), `StateMatchesSocket` | 2 utterances, 2 changes of settings after the start, 4 sockets (start, both changes, a submission), stale after 2 ticks |
| `wyoming_parser` | `CutsDoNotMatter`, `HandledInOrder`, every poll returns (`PollReturns`, liveness) | header 3, data 2, buffer 9, chunks of 1 to 8: a chunk can end anywhere and span messages, a message fits the buffer and one with its successor does not; four streams, with all message types |
| `transcript_policy` | `VerdictIsRight`, `SentencesAreKept`, `TextSurvives` | one text of 12 chosen for the hard cases, of all 85 with up to three letters, or of 10 answers: every kind of escape, one and two UTF-16 units, plain UTF-8, the text in the header or among other members, twice, nested too deeply, cut short, half a pair; 3 settings, changed twice before or while the text is dealt with; a buffer of 16 bytes (256 in the code), which every payload outgrows several times, and 3 brackets (1000), which one answer exceeds |
| `transcript_history` | `ImplementsLog`, `PublishedIsRecorded`, `CountsAgree` | 2 slots, 4 transcripts, 2 DELETEs: two wrap-arounds, or a clear and another one |
| `input_capture` | `CatalogIsRegistry`, `StreamIsItsNode`, `ListeningIsConnected`, the first usable node is connected to, or it is shown that it could not be (`NodeIsFound`, liveness) | 2 object numbers and 3 changes, so that a number is given up, used again and given up; 2 refreshes by HTTP |
| `mqtt_client` | `NoClientLeaks`, `SettledIsKept`, `StatusIsTrue`, `MutexIsGivenBack` (liveness) | 2 servers, 2 places for clients, 2 requests, one kill |
| `app_tree` | `ListsAreSound`, `TreeIsCurrent`, `StatusIsASnapshot` | 2 threads, 2 groups of 2 fields, 3 settings, 3 certificates, 20 items, 3 sets and requests in all: the only, the first, a middle and the last item of a list are replaced, and deleted |
| `app_tree_snapshot` | `AppIsASnapshot` does not hold | the same |
| `server` | `AnsweredIsStored`, `ShownIsInEffect`, `NoRequestOnFreedTree`, `NamedIsThere`, `NothingComesBack`, `PasswordFits`, `ImplementsDurable` (refinement), `ShutdownEnds` (liveness) | 2 settings, one of them read at the start only; two requests, or three for certificates, in two runs of the program; three texts; two passwords, one that a start forgets and one of the 99 bytes that it just keeps (the other limits, and every length, are in the proof) |

The larger ones: `mqtt_client` has 986,400 states and takes two minutes,
`external_asr` 1.3 million and half a minute, `stt_delivery` 560,000 and two minutes,
`server` 880,000 and two minutes, `transcript_history` 520,000, `input_capture` 470,000,
`transcript_policy` 140,000 and a minute.

What a module proves of itself is not also run: `TypeOK` of the modules with
proofs, `FrameIntact`, `NeverFull`, `NamedIsShown` and, because a property that is run
says more, `OncePerUtterance` and `AnswerMatchesRequest` (section 5). The other modules'
`TypeOK`, and that of `AppTree`, whose proofs bound the values by nothing, documents their variables; it holds in the instances of their runs, where
a line `INVARIANT TypeOK` in the configuration checks it.

Each property of a passing run has a mutant in `PROJECT.json`: a plausible bug of
the code, written next to the definition it changes (comments "Bug:"), which makes
that property fail.

**Conditions in properties.** Some promises hold only while two threads do not
meet, because the code does nothing about the meeting; the condition is then a
history variable of the module, and what the code does otherwise is said below.
`OneThread` (ExternalAsr): two threads that write a state and a socket in turn,
without a lock, end up with one's state and the other's socket; what holds then is
`AnswersInTurn` and the first part of `StateMatchesSocket`. `steady`
(TranscriptPolicy), `raced` (TranscriptHistory, MqttClient, AppTree), `overlapped`
and `lost` (InputCapture), `overlapped` (Server), `cut` and `aged` (CertStore). Three
of them are over when the two do not meet again: `raced` of TranscriptHistory with the next
DELETE, `overlapped` with the next refresh, or request, so that `CountsAgree`,
`ListeningIsConnected` and `ShownIsInEffect` also say that the state becomes right again;
`ShownIsInEffect` says besides what is in effect until then. Once a node was lost, or two
threads have appended a group at once, nothing puts it right, and no property of the
status, or of the list, is checked after that.

**Fairness.** A thread goes on once it has begun; nobody outside is obliged to do
anything.

| run | fair | not fair |
|---|---|---|
| `audio_ring` | the steps of a call and the worker (weak); a thread that keeps asking for `g_ring_lock` gets it although it is taken again and again (strong): it is held for a copy of a few hundred samples, and waiters on POSIX mutexes are served by every scheduler the application runs on | feeding, quitting |
| `wyoming_parser` | the callback, once begun (weak) | the server |
| `stt_delivery` | the worker after the end of an utterance, the main loop, an application of settings (weak) | speech, its end, the server, switches, the end |
| `input_capture` | the main loop handles what was announced (weak) | PipeWire, requests |
| `mqtt_client` | each thread's steps of a call, a callback (weak; the wait for the end of a connection is limited to 5 s by the code) | requests, the network, kills |
| `server` | both threads (weak; the mutex is not taken for ever by a thread that goes on) | requests, signals, kills |

Safety properties use no fairness.

**Deadlock** is checked in `audio_ring`, `segmenter`, `transcript_history` and
`wyoming_parser`. In the others the program, or what the bounds allow of it, may
really come to its end; that nobody waits for ever there is what the liveness
properties say.

### What the code does otherwise

One run finds the code to differ from what is written about it (`findings`):
`app_tree_snapshot`. `GET /app` prints the status tree without the mutex under which
its items are freed (`ACAP.c` 164), and walks onto a freed one.

The rest was met while modelling; it has no run, because the model says it by
itself or because it is outside of it.

*Recogniser.* `max_utterance_sec * 16000` wraps at 32 bits before it is limited
(`whisper_stt.c` 317), so a huge "hard cap" (`whisper_stt.h` 22) becomes a tiny one.
Disabling in the middle of an utterance posts no state (329), although the callback
is said to be invoked on state changes (`whisper_stt.h` 39): the page shows
"listening". The status says "idle" while the server's answer is awaited, because
the worker's "idle" is posted behind the request (420). The comment at line 33 gives
the pre-roll as "300ms"; it is 3 frames of 40 ms.

*Wyoming.* A host name is refused as an invalid address (`wyoming.c` 851;
`src/README.md` 248 proposes one). After a server's error message a descriptor is
overwritten and never closed (867). A payload whose header announces no data begins
with the header's newline (629; the format at 1023 says otherwise). A send that
takes only a part of a header is taken for a whole one (1087). DISCONNECTED, unlike
ERROR, leaves the request in flight (`main.c` 951): utterances are skipped until it
is stale. In a message four characters that are no hexadecimal digits behind `\u` count
as zero (`cJSON.c` 643), and a zero cuts the text short.

*Transcripts.* DELETE empties the history under its mutex and resets the counter after it
(`main.c` 1077-1078; `src/README.md` 167 says it clears both): a publication in between
leaves one empty and the other not, until the next DELETE. Matching stops at the first keyword, so `keywords`
never has more than one, where `src/README.md` 162, 202 and 209 show several. Sentences are
split before annotations are removed, so one that spans a sentence end leaves its
second half. The topic is chosen by the use case as it is at line 832, after line
877 decided by an earlier one: a text that was not matched may go out as a command
(`src/README.md` 93).

*Audio input.* `node_detected` is taken for "Already connected to a node"
(`pipewire_audio.c` 458-459) and never reset: a node that comes back after its stream was
destroyed (594-604) gets none and no error is shown, and the status keeps "listening". The
list of nodes is not freed after a refresh (`main.c` 550); when two threads refresh it at
once, the older list may be shown, until the next refresh.

*MQTT.* `MQTT_Publish` uses the client without the mutex (`MQTT.c` 324, 359), so it
may send on a handle that was destroyed. A change of tls alone keeps the old client
(786; `html/mqtt.html` 140 promises immediate effect). The `connect` setting is
ignored at the start. After an automatic reconnect the retained announcement stays
offline (the publication in the callback is commented out); after a change of server
the old broker keeps "connected". A late `onConnect` before a client is destroyed,
and a new one that cannot be made, leave `mqtt.connected` true without a client. A
failed save leaves the new settings in memory only.

*Settings and life cycle.* A failed or interrupted write leaves the settings' file
empty, so the next start has the defaults, and the answer is "updated successfully"
all the same (`ACAP.c` 225, 1573). A POST during the start may be overtaken by `main`'s own
application of older settings (`main.c` 1223; `src/README.md` 124 says "immediately"), which
then stay in effect until the next request.
The history's mutex (`main.c` 1259) and the MQTT settings are gone while the HTTP
thread may still serve. `ACAP_Cleanup` deletes `status_container`, which hangs below
`app`, and then `app` (2512-2520). A thread that is cancelled keeps `status_mutex`;
nobody takes it after that.

*Certificates.* A removal goes on to write the short text it was asked with as the
new file. The removal of the CA resets the status `CA`, not `ca`; that of a
certificate leaves the key's. The statuses of certificate and password are off after
a start although both are loaded. The file of the password stays when a key without
one replaces a key with one, so a restart brings the old password back; the buffer
it is read into has no end, and passwords of up to 3 or from 100 bytes, which a
request may bring, are not loaded (419, 428), so the client has none for its key then. Texts of 9000 bytes and more are accepted and not loaded.

## 5. Proofs

All are for every value of the constants that satisfies the modules' assumptions,
which say what the code's constants and its inputs are: sizes are positive, a ring
holds a frame, a buffer is a multiple of a frame, values that mean "nothing" are
different from the others.

`MicrophoneProofs`, first part: `RingTypeCorrect`, `FramesAreIntact`, `NoWakeupIsLost`,
`RingImplementsQueue`, of `AudioRing`. The invariant behind them relates the slots to the stream:
with the lock free or with the worker, the last `RingSize` positions below
`written` are in their slots; while the main thread writes under the lock, those
not yet overwritten are. While the worker copies, what it copied so far is a
prefix of the frame it wants, and the rest is still in the ring. Two positions
less than a ring apart are in different slots (`SlotsDiffer`), which is why a
frame must not be larger than the ring (`SizesAssumption`). The refinement then
goes action by action: `FeedPublish` accepts, `ReadReturn` hands over.

`MicrophoneProofs`, second part: `TypeCorrect`, `UtterancesAreUnbroken`, `BufferIsNeverFull`,
`VerdictsAreRight`, `UtterancesEndWhenSet`, of `Segmenter`.
`NeverFull` is not inductive on its own terms: that a buffer that is not full has
room for a whole frame needs that it holds whole frames and that its size is a
multiple of a frame (`RoomForOne`); that nothing is skipped when appending needs
that it has room (`ExtendedIsAppend`). `Counted` says what the code's counters count: there is
loud speech in every utterance and none in the pre-roll, `speech_frames` is the number of
speech frames, and the last `silence_run` frames are quiet. That an utterance ends
as configured has a premise, `NoWrap`: the product of no configured maximum with the sample
rate reaches the word size. Without it the code does something else (section 4).

`TranscriptHistoryProofs`: `TypeCorrect`, `PublishedWasRecorded`,
`HistoryImplementsLog`, `CountersAgree`. Until the array is full it is filled from slot 0 on
(`CursorInv`), so the walk back from the cursor meets only valid entries; an
entry being published is the newest one unless the history was cleared
(`PublishInv`). The refinement reasons about the positions of the log's elements
before and after an append (`AppendRecords`). Until a DELETE meets a
publication, and from the next that meets none on (`CountInv`), only one of the two is under way, and at each of its steps the
fields not yet set are behind the counter by exactly that call (`PublicationCounted`,
`DeleteCounted`).

`SttDeliveryProofs`: `TypeCorrect`, `UtterancesAreInOnePlace`,
`UtterancesAreHandedOnOnce`, `DeliveryImplementsHandover`, `StateIsLeftSettled`, for any number of utterances and switches. `Sound` relates the
fates to where the utterances are: an utterance that waits is in the queue, once, and
nothing else is (`Queued`); what the worker has in hand and what the server owes an answer
to are in neither (`WorkerHas`, `AtServer`); what was handed on is (`Delivered`). That they
are handed on in order, while nothing was switched, needs that texts and requests are then
never mixed and that queue, server and what was handed on ascend (`Ordered`). The refinement
goes step by step: each settles one utterance, or two where a submission gives up an older
request, and only one that was not settled. What the status is left at follows from what
the worker posts last (`Followed`): behind everything else it posted is its "idle", and when
that has come, only an answer or a switch has set the state since.

`ExternalAsrProofs`: `TypeCorrect`, `AnswersMatchRequests`, `AnswersComeInTurn`,
`StatesMatchSockets`, for any number of utterances, sockets and changes of settings.
The argument (`Asked`): a request goes out on a socket of its own, opened for it, and before
it does what was recorded is withdrawn or is that of this request; so whatever is recorded
when an answer arrives was asked on the current socket, or nothing is. Therefore a socket
has one request at most, and what was passed on is older than that, that than the utterance
being submitted, that than those in the queue (`InOrder`), so that answers come in turn
although either thread may replace the socket at any step. The state is
CONNECTING only in a thread's `wyoming_connect` (`Opening`). While one thread works on the
connection, `Alone` says at which steps state and socket may differ, and `Awaited` what was
sent at each step of a submission.

`ExternalAsrProofs`, second part: `ParserTypeCorrect`, `MessagesInOrder`,
`NothingIsParsedTwice`, `CutsNeverMatter`, of `WyomingParser`, for any messages and for any
sizes of header, data, buffer and chunk. The input is the messages' bytes put one behind the
other by a library operator that is defined with a recursive function. That this function
exists, and what it is, is proved from a least counterexample (`Least`, `Joins`,
`FlattenIs`), and gives where each message ends (`Offsets`, `JoinedByFlatten`) and what each
byte is a part of (`Fitting`, `ByteIs`). From that on the parser is a position in the input
(`Here`) that only grows: whatever is dropped, a message that is taken begins there, behind
all that were (`Behind`), so none is taken twice or late. That cuts do not matter needs to
know where the position may be as long as nothing is dropped (`Reached`): behind the last
message taken, at the newline that is left when it has no data, or inside its payload with as
many bytes to go as are still expected. So a pass meets a newline or a header and nothing
else (`NextIs`), each step moves over a newline, a header with its data, or some payload
(`StepsAre`), the audio buffer holds the payload passed, each byte once (`Heard`), and a
poll ends when all was used or the next message is not here (`Settled`).

`MqttClientProofs`: `TypeCorrect`, `ClientsAreDestroyed`, `SettingsAreKept`,
`ConnectedIsTrue`, for any number of servers, places, requests and kills. `Locks` says who is where while the mutex is taken;
`Owned`, that the one client not destroyed is the one the code has a handle of, at every step
of a replacement; `Settled`, that the file holds what is in effect until the next settings
are written; `Fits`, that a client that was just made has their server; `Shown`, that the status
says "connected" only with a client whose connection is up or was meant to be (`Up`), or
while a callback that will correct it is due.

`InputCaptureProofs`: `TypeCorrect`, `CatalogFollowsRegistry`, `StreamKeepsItsNode`,
`ListeningIsTrue`, for any numbers of objects, changes and refreshes. That the catalogue has
what PipeWire has once everything was handled is not inductive; `Tells` adds what the
announcements under way say of each object: with none the catalogue is right, the last one
says what there is, the first adds only what the catalogue does not have, and in between
additions and removals take turns. Where the first of several is needed, `Least` provides it.
Hence a stream's node is there or its removal is still to come. `Listening` says what the
status shows at each step of the two threads that list the nodes.

`ServerProofs`, first part: `CertTypeCorrect`, `NamedFilesExist`, `NamedFilesAreShown`,
`RemovedStaysRemoved`, `PasswordIsOfTheKey`, of the store by itself. `NamedIsThere` is
not inductive: that a file is there needs to know at which step of a removal it was
deleted and its name not yet dropped (`NamedIsThere` with `CertInv`'s `Settled`), and
`Remembered` says what file and memory know of a password at each step: in memory that of
the key until a start, and then what could be read back of its file, whatever its length.

`ServerProofs`, second part: `RunsCertStore` shows that the program, whatever its two threads
do, takes steps of `CertStore` or leaves it alone, and is restarted as it says; so
the four properties hold in the program (`ServedFilesExist`, `ServedFilesAreShown`,
`NothingReturns`, `ClientGetsItsPassword`). `RequestsEndBeforeTheTree`: the HTTP thread
is there only between the load and the join (`Ordered`). `AnsweredIsKept` and
`SettingsAreDurable`: `Stored` relates file, tree and answer to where a request is;
values only grow, and what is saved is what is shown. `ShownTakesEffect`: what either
thread has read to apply it is what the tree holds, unless a request is under way; from one
that met `main`'s own application to the next, what is in effect may be what `main` had read
(`Effective`). `ServerTypeCorrect`: every variable keeps its type.

`AppTreeProofs`: `TreeStaysSound`, `TreeSaysWhatWasSet`, `StatusIsPrintedWhole`, for any
threads, groups, names, settings, certificates, requests and amount of memory. `Chain` and
`Reach` follow links step by step; that these walks exist, end in memory, and find exactly
the items that are linked in turn, or hang on an item, is proved first (`Recursion`,
`ChainLinked`, `ReachInside`, `ReachClosed`). Then each operation on a list is shown to do to
the sequence of its items what it should (`AddItemIs`, `ReplaceItemIs`, `DetachItemIs`,
`BuildIs`), last item and `prev` of the first included: this is the proof that the hand-made
links of cJSON are right, whichever item is replaced or deleted. With distinct names that
means for the object as a map from names to values that one name changes and no other
(`FieldWritten`, `FieldRemoved`). The inductive invariant `TreeInv(G)` has as a parameter the
groups G that were made: `Shape` says that what is in memory is app, settings, status,
certificates, the groups and a parsed request, each with items of its own, so that nothing
is freed that another object points to; it holds even after two threads appended at once.
Unless they did, `OneAppends` says what the list of the status is at each step of an append,
`Named` and `Shows` which group is whose and what it holds, and `Prints` that under the mutex
what was printed and what is still ahead (`Ahead`) make up what was set; a group that is
appended meanwhile has no field yet (`AheadAppended`). `Room` keeps an allocation from
failing; the memory must hold what `ACAP()` makes (`TreeAssumption`).

Only model-checked: liveness (the prover has no rule for fairness or ENABLED), and
`TranscriptPolicy` with `JsonText`. The recursive descent of
`JsonText` is out of the prover's reach in any module that uses it. What a recursive
definition computes can be proved where an argument by a least counterexample gives its
existence, as for the input of `WyomingParser` and the walks of `JsonHeap`; an induction over folds, as in the edit
distance and the filters of `TranscriptPolicy`, needs theorems with operator parameters, which
this prover cannot instantiate. No module that is proved about uses recursive operators.

## 6. Not modelled

The Piper half of `wyoming.c` (the application never uses it), whisper.cpp, the Paho
headers and library, VAPIX, device properties, events and the web pages: third-party,
generated, or pure input and output. Of cJSON what the application calls is modelled,
but not formatted printing (only files have it, `ACAP.c` 1579),
fractions and exponents, failed allocations, and texts of a gigabyte. Of the HTTP server, the parsing of requests and the sending of
answers are not: they keep no state. Of the audio input, playback (unused) and the
restart of the capture for another node (unreachable with one node allowed). Of the
parser, JSON text and a disconnect by the other thread (section 2).

Undefined behaviour is left out where nothing can be said of its outcomes: the use of
`g_history_mutex` after it was cleared, of the MQTT settings after they were freed,
of a client's handle after it was destroyed. Where the outcomes are known they are
choices: a keyword array that is read while it is changed, a password without an end.
