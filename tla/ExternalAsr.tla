---------------------------- MODULE ExternalAsr ----------------------------
(***************************************************************************)
(* The external recogniser: the request tracking of main.c, the Wyoming    *)
(* connection of wyoming.c, and the two threads that work on both without  *)
(* a lock.  The main thread delivers finished utterances to the server and *)
(* polls the connection for answers; the HTTP thread applies settings,     *)
(* which may switch the backend, connect and disconnect.                   *)
(*                                                                         *)
(* A socket is a connection's identity, never reused.  An utterance is its *)
(* number, which also stands for its start time.  Time is the age of the   *)
(* request in flight, counted up to the limit the code compares it with.   *)
(***************************************************************************)
EXTENDS Integers, Sequences

CONSTANTS
  Stale,          \* EXTERNAL_ASR_STALE_MS, in ticks
  Settings,       \* settings that may be applied: [mode, host]
  MaxUtterances,  \* bound: utterances posted in one behaviour
  MaxChanges,     \* bound: settings applied after the start
  MaxSockets      \* bound: after so many sockets, socket() fails

ASSUME AsrAssumption ==
  /\ Stale \in Nat \ {0}
  /\ Settings \subseteq [mode : {"internal", "external"},
                         host : {"", "name", "address"}]
  /\ MaxUtterances \in Nat /\ MaxChanges \in Nat /\ MaxSockets \in Nat

VARIABLES
  mode, host,      \* g_stt_mode, g_wyoming_host
  callback,        \* g_external_transcribe_cb is set
  server_ip,       \* conn->server_ip
  state, shown,    \* conn->state; wyoming.whisper in the status
  fd,              \* conn->socket_fd
  awaiting,        \* conn->awaiting_response
  inflight,        \* g_external_request_inflight
  age,             \* now - g_external_request_started_ms
  start,           \* g_external_request_utterance_start_ms
  pc,              \* where each thread is
  utt, fresh,      \* main: the utterance being submitted, if any; it is in
                   \* wyoming_asr_transcribe
  applied,         \* of each thread: the settings being applied
  queue, posted,   \* main loop: pending requests; utterances posted so far
  changes,         \* settings applied so far by the HTTP thread
  sockets,         \* sockets opened so far are 1 .. sockets
  open,            \* those this program has not closed
  requests,        \* external: what the server has still to answer on each
  answer           \* the last transcript passed on: whose words, which start

settingVars == <<mode, host, callback, server_ip, applied, changes>>
connVars == <<state, shown, fd, awaiting>>
requestVars == <<inflight, age, start>>
queueVars == <<queue, posted>>
netVars == <<sockets, open, requests>>
mainVars == <<utt, fresh>>
vars == <<settingVars, connVars, requestVars, queueVars, netVars, mainVars,
          pc, answer>>

Threads == {"main", "http"}
Utterances == 1 .. MaxUtterances
NoUtt == 0       \* 0 for a start time
NoSocket == 0    \* -1 for a descriptor
NoSettings == [mode |-> "internal", host |-> ""]

Init ==
  /\ mode = "internal" /\ host = "" /\ callback = FALSE /\ server_ip = ""
  /\ state = "disconnected" /\ shown = "disconnected"
  /\ fd = NoSocket /\ awaiting = FALSE
  /\ inflight = FALSE /\ age = Stale /\ start = NoUtt
  /\ pc = [main |-> "boot", http |-> "rest"]
  /\ applied = [t \in Threads |-> NoSettings]
  /\ utt = NoUtt /\ fresh = FALSE
  /\ queue = << >> /\ posted = 0 /\ changes = 0
  /\ sockets = 0 /\ open = {} /\ requests = [s \in 1 .. MaxSockets |-> << >>]
  /\ answer = [words |-> NoUtt, start |-> NoUtt]

-----------------------------------------------------------------------------
Go(t, from, to) ==
  /\ pc[t] = from
  /\ pc' = [pc EXCEPT ![t] = to]

\* inflight = FALSE, started = 0, utterance_start = 0. A start time of 0 makes
\* any request look stale.
ClearRequest ==
  /\ inflight' = FALSE
  /\ age' = Stale
  /\ start' = NoUtt

\* wyoming_set_state with Wyoming_State_Callback, for the states other than
\* ERROR, and for ERROR with its text.
SetState(s) ==
  /\ state' = s
  /\ shown' = s
  /\ UNCHANGED requestVars

SetError(text) ==
  /\ state' = "error"
  /\ shown' = text
  /\ ClearRequest

-----------------------------------------------------------------------------
(* wyoming_connect, called by thread t; Resume tells where it returns. *)

Submitting(t) == t = "main" /\ utt # NoUtt

Resume(t, ok) ==
  IF ~Submitting(t) THEN "rest"
  ELSE IF ~fresh THEN "submit"
  ELSE IF ok THEN "send" ELSE "failed"

ConnectCheck(t) ==
  /\ pc[t] = "connect"
  /\ IF state \in {"connected", "connecting"}
     THEN /\ Go(t, "connect", Resume(t, FALSE))
          /\ UNCHANGED <<connVars, requestVars>>
     ELSE IF server_ip = ""
     THEN /\ Go(t, "connect", Resume(t, FALSE))
          /\ SetError("not_configured")
          /\ UNCHANGED <<fd, awaiting>>
     ELSE /\ Go(t, "connect", "socket")
          /\ UNCHANGED <<connVars, requestVars>>
  /\ UNCHANGED <<settingVars, queueVars, netVars, mainVars, answer>>

\* socket() fails, or the host is not a dotted address, which is all that
\* inet_pton takes; else the state becomes CONNECTING.
ConnectSocket(t) ==
  /\ \/ /\ Go(t, "socket", Resume(t, FALSE))
        /\ SetError("error")
     \/ /\ server_ip = "name"
        /\ Go(t, "socket", Resume(t, FALSE))
        /\ SetError("invalid_address")
     \/ /\ server_ip = "address"
        /\ Go(t, "socket", "opening")
        /\ SetState("connecting")
  /\ UNCHANGED <<settingVars, queueVars, netVars, mainVars, answer, fd,
                 awaiting>>

\* A descriptor that is still in socket_fd is overwritten, not closed.
ConnectOpen(t) ==
  /\ \/ /\ Go(t, "opening", Resume(t, FALSE))
        /\ SetError("error")
        /\ UNCHANGED <<fd, awaiting, netVars>>
     \/ /\ sockets < MaxSockets
        /\ Go(t, "opening", Resume(t, TRUE))
        /\ sockets' = sockets + 1
        /\ open' = open \cup {sockets + 1}
        /\ fd' = sockets + 1
        /\ awaiting' = FALSE
        /\ SetState("connected")
        /\ UNCHANGED requests
  /\ UNCHANGED <<settingVars, queueVars, mainVars, answer>>

\* The callers' "if not connected, connect".
Ensure(t) ==
  /\ Go(t, "ensure", IF state = "connected" THEN Resume(t, TRUE) ELSE "connect")
  /\ UNCHANGED <<settingVars, connVars, requestVars, queueVars, netVars, mainVars,
                 answer>>

\* Bug: the closed descriptor is kept.
DisconnectKeepingFd(t) ==
  /\ Go(t, "close", "closed")
  /\ open' = open \ {fd}
  /\ awaiting' = FALSE
  /\ UNCHANGED <<settingVars, requestVars, queueVars, sockets, requests, mainVars,
                 answer, state, shown, fd>>

\* wyoming_disconnect: the socket, then the state.
DisconnectSocket(t) ==
  /\ Go(t, "close", "closed")
  /\ open' = open \ {fd}
  /\ fd' = NoSocket
  /\ awaiting' = FALSE
  /\ UNCHANGED <<settingVars, requestVars, queueVars, sockets, requests, mainVars,
                 answer, state, shown>>

DisconnectState(t) ==
  /\ Go(t, "closed", IF Submitting(t) THEN "connect" ELSE "rest")
  /\ SetState("disconnected")
  /\ UNCHANGED <<settingVars, queueVars, netVars, mainVars, answer, fd, awaiting>>

-----------------------------------------------------------------------------
(* resolve_stt_backend_from_settings: at the start on the main thread, later *)
(* on the HTTP thread.                                                       *)

\* The globals first go back to their defaults.
Apply(t, s) ==
  /\ \/ t = "main" /\ Go(t, "boot", "assign") /\ UNCHANGED changes
     \/ /\ t = "http" /\ pc["main"] # "boot" /\ Go(t, "rest", "assign")
        /\ changes < MaxChanges /\ changes' = changes + 1
  /\ mode' = "internal"
  /\ host' = ""
  /\ applied' = [applied EXCEPT ![t] = s]
  /\ UNCHANGED <<callback, server_ip, connVars, requestVars, queueVars, netVars,
                 mainVars, answer>>

Assign(t) ==
  /\ Go(t, "assign", "switch")
  /\ mode' = applied[t].mode
  /\ host' = applied[t].host
  /\ UNCHANGED <<callback, server_ip, applied, changes, connVars, requestVars,
                 queueVars, netVars, mainVars, answer>>

\* Which backend is read again: the other thread may have put its own.
UseInternal(t) ==
  /\ mode = "internal" /\ Go(t, "switch", "close")
  /\ callback' = FALSE
  /\ ClearRequest
  /\ UNCHANGED <<mode, host, server_ip, applied, changes, connVars, queueVars,
                 netVars, mainVars, answer>>

UseExternal(t) ==
  /\ mode = "external"
  /\ callback' = TRUE
  /\ IF host = ""
     THEN /\ Go(t, "switch", "rest")
          /\ ClearRequest
          /\ shown' = "not_configured"
     ELSE /\ Go(t, "switch", "configure")
          /\ UNCHANGED <<shown, requestVars>>
  /\ UNCHANGED <<mode, host, server_ip, applied, changes, state, fd, awaiting,
                 queueVars, netVars, mainVars, answer>>

\* wyoming_configure; a connection to another host is kept.
Configure(t) ==
  /\ Go(t, "configure", "ensure")
  /\ server_ip' = host
  /\ UNCHANGED <<mode, host, callback, applied, changes, connVars, requestVars,
                 queueVars, netVars, mainVars, answer>>

-----------------------------------------------------------------------------
(* The worker posts an utterance; the main loop takes it and                *)
(* Whisper_External_Transcribe_Callback submits it.                         *)

Post ==
  /\ callback
  /\ posted < MaxUtterances
  /\ posted' = posted + 1
  /\ queue' = Append(queue, posted + 1)
  /\ UNCHANGED <<settingVars, connVars, requestVars, netVars, mainVars, pc, answer>>

\* Dropped when the backend or the host is gone by now.
Take ==
  /\ queue # << >>
  /\ queue' = Tail(queue)
  /\ IF callback /\ mode = "external" /\ host # ""
     THEN Go("main", "rest", "gate") /\ utt' = Head(queue)
     ELSE Go("main", "rest", "rest") /\ UNCHANGED utt
  /\ UNCHANGED <<settingVars, connVars, requestVars, netVars, posted, fresh, answer>>

Skip ==
  /\ inflight /\ age < Stale
  /\ Go("main", "gate", "rest")
  /\ utt' = NoUtt
  /\ UNCHANGED <<settingVars, connVars, requestVars, queueVars, netVars, fresh,
                 answer>>

Proceed ==
  /\ ~(inflight /\ age < Stale)
  /\ Go("main", "gate", "ensure")
  /\ IF inflight THEN ClearRequest ELSE UNCHANGED requestVars
  /\ UNCHANGED <<settingVars, connVars, queueVars, netVars, mainVars, answer>>

\* The three assignments that record the request.
RecordAge ==
  /\ Go("main", "submit", "record_start")
  /\ age' = 0
  /\ UNCHANGED <<settingVars, connVars, inflight, start, queueVars, netVars,
                 mainVars, answer>>

RecordStart ==
  /\ Go("main", "record_start", "record_flag")
  /\ start' = utt
  /\ UNCHANGED <<settingVars, connVars, inflight, age, queueVars, netVars,
                 mainVars, answer>>

RecordFlag ==
  /\ Go("main", "record_flag", "transcribe")
  /\ inflight' = TRUE
  /\ UNCHANGED <<settingVars, connVars, age, start, queueVars, netVars, mainVars,
                 answer>>

\* Bug: the request goes out on the connection there is.
TranscribeOnOldConnection ==
  /\ fresh' = TRUE
  /\ Go("main", "transcribe", IF state = "connected" THEN "send" ELSE "failed")
  /\ UNCHANGED <<settingVars, connVars, requestVars, queueVars, netVars, utt,
                 answer>>

\* wyoming_asr_transcribe: it gives up unless connected, else it drops the
\* connection and makes a new one.
Transcribe ==
  /\ IF state = "connected"
     THEN Go("main", "transcribe", "close") /\ awaiting' = FALSE /\ fresh' = TRUE
     ELSE Go("main", "transcribe", "failed") /\ UNCHANGED <<awaiting, fresh>>
  /\ UNCHANGED <<settingVars, state, shown, fd, requestVars, queueVars, netVars,
                 utt, answer>>

\* wyoming_send_event, to whatever socket_fd is by now: how many of the three events go
\* out before the header, the data or the audio of one fails or times out.
EventsSent == IF fd = NoSocket THEN {0} ELSE 0 .. 3

\* The server answers once it has the third.
Send ==
  /\ \E sent \in EventsSent :
       IF sent = 3
       THEN /\ requests' = [requests EXCEPT ![fd] = Append(@, utt)]
            /\ awaiting' = TRUE
            /\ Go("main", "send", "rest")
            /\ utt' = NoUtt /\ fresh' = FALSE
       ELSE /\ Go("main", "send", "failed")
            /\ UNCHANGED <<requests, awaiting, mainVars>>
  /\ UNCHANGED <<settingVars, state, shown, fd, requestVars, queueVars, sockets,
                 open, answer>>

Failed ==
  /\ Go("main", "failed", "rest")
  /\ ClearRequest
  /\ utt' = NoUtt /\ fresh' = FALSE
  /\ UNCHANGED <<settingVars, connVars, queueVars, netVars, answer>>

-----------------------------------------------------------------------------
(* wyoming_poll_callback, on the main loop, for the polled socket.          *)

\* poll() reports an event; what it is comes out when the socket is read,
\* which the HTTP thread may have closed by then.
PollReady ==
  /\ fd # NoSocket
  /\ Go("main", "rest", "polled")
  /\ UNCHANGED <<settingVars, connVars, requestVars, queueVars, netVars, mainVars,
                 answer>>

PollNothing ==
  /\ Go("main", "polled", "rest")
  /\ UNCHANGED <<settingVars, connVars, requestVars, queueVars, netVars, mainVars,
                 answer>>

\* Bug: the connection goes on awaiting an answer.
AnsweredStillAwaiting ==
  /\ Go("main", "polled", "rest")
  /\ fd # NoSocket
  /\ requests[fd] # << >>
  /\ requests' = [requests EXCEPT ![fd] = Tail(@)]
  /\ UNCHANGED <<settingVars, awaiting, fd, queueVars, sockets, open, mainVars>>

\* The server answers the oldest request on the socket.
Answered ==
  /\ Go("main", "polled", "rest")
  /\ fd # NoSocket
  /\ requests[fd] # << >>
  /\ requests' = [requests EXCEPT ![fd] = Tail(@)]
  /\ awaiting' = FALSE
  /\ UNCHANGED <<settingVars, fd, queueVars, sockets, open, mainVars>>

\* "transcript": Wyoming_Transcript_Callback.
PollTranscript ==
  /\ Answered
  /\ answer' = [words |-> Head(requests[fd]), start |-> start]
  /\ ClearRequest
  /\ UNCHANGED <<state, shown>>

\* "transcript" without a text: the callback is not called.
PollNoText ==
  /\ Answered
  /\ UNCHANGED <<state, shown, requestVars, answer>>

\* "audio-stop", which is for a synthesis; nobody has asked to be called for it.
PollAudioStop ==
  /\ Go("main", "polled", "rest")
  /\ fd # NoSocket
  /\ awaiting' = FALSE
  /\ UNCHANGED <<settingVars, state, shown, fd, requestVars, queueVars, netVars, mainVars,
                 answer>>

\* "error": the socket stays open.
PollError ==
  /\ Answered
  /\ SetError("error")
  /\ UNCHANGED answer

\* "info".
PollInfo ==
  /\ Go("main", "polled", "rest")
  /\ fd # NoSocket
  /\ SetState("connected")
  /\ UNCHANGED <<settingVars, fd, awaiting, queueVars, netVars, mainVars, answer>>

\* The server closes the connection, or it breaks, or it is closed already;
\* then socket_fd, whatever it is by now, is closed.
PollLost ==
  /\ Go("main", "polled", "drop")
  /\ (fd # NoSocket /\ SetState("disconnected")) \/ SetError("error")
  /\ UNCHANGED <<settingVars, fd, awaiting, queueVars, netVars, mainVars, answer>>

PollDrop ==
  /\ Go("main", "drop", "rest")
  /\ open' = open \ {fd}
  /\ fd' = NoSocket
  /\ UNCHANGED <<settingVars, state, shown, awaiting, requestVars, queueVars,
                 sockets, requests, mainVars, answer>>

Tick ==
  /\ age < Stale
  /\ age' = age + 1
  /\ UNCHANGED <<settingVars, connVars, inflight, start, queueVars, netVars,
                 mainVars, pc, answer>>

Connect(t) == ConnectCheck(t) \/ ConnectSocket(t) \/ ConnectOpen(t)
Disconnect(t) == DisconnectSocket(t) \/ DisconnectState(t)
Resolve(t) ==
  (\E s \in Settings : Apply(t, s)) \/ Assign(t) \/ UseInternal(t)
  \/ UseExternal(t) \/ Configure(t)
Submit ==
  \/ Take \/ Skip \/ Proceed \/ RecordAge \/ RecordStart \/ RecordFlag
  \/ Transcribe \/ Send \/ Failed
Poll ==
  \/ PollReady \/ PollNothing
  \/ PollTranscript \/ PollNoText \/ PollAudioStop \/ PollError \/ PollInfo \/ PollLost \/ PollDrop

Next ==
  \/ \E t \in Threads : Connect(t) \/ Ensure(t) \/ Disconnect(t) \/ Resolve(t)
  \/ Post
  \/ Submit
  \/ Poll
  \/ Tick

Spec == Init /\ [][Next]_vars

-----------------------------------------------------------------------------
SocketIds == 1 .. MaxSockets

TypeOK ==
  /\ mode \in {"internal", "external"}
  /\ host \in {"", "name", "address"} /\ server_ip \in {"", "name", "address"}
  /\ callback \in BOOLEAN
  /\ state \in {"disconnected", "connecting", "connected", "error"}
  /\ shown \in {"disconnected", "connecting", "connected", "error",
                "not_configured", "invalid_address"}
  /\ fd \in SocketIds \cup {NoSocket} /\ awaiting \in BOOLEAN
  /\ inflight \in BOOLEAN /\ age \in 0 .. Stale /\ start \in Utterances \cup {NoUtt}
  /\ pc["main"] \in {"boot", "assign", "switch", "configure", "ensure",
                     "connect", "socket", "opening", "close", "closed", "rest", "gate",
                     "submit", "record_start", "record_flag", "transcribe", "send",
                     "failed", "polled", "drop"}
  /\ pc["http"] \in {"assign", "switch", "configure", "ensure",
                     "connect", "socket", "opening", "close", "closed", "rest"}
  /\ DOMAIN pc = Threads
  /\ utt \in Utterances \cup {NoUtt} /\ fresh \in BOOLEAN
  /\ queue \in Seq(Utterances) /\ posted \in 0 .. MaxUtterances
  /\ changes \in 0 .. MaxChanges
  /\ sockets \in 0 .. MaxSockets /\ open \subseteq 1 .. sockets
  /\ requests \in [SocketIds -> Seq(Utterances)]
  /\ answer \in [words : Utterances \cup {NoUtt}, start : Utterances \cup {NoUtt}]

AtRest == \A t \in Threads : pc[t] = "rest"

\* A transcript is passed on with the start time of the utterance it is the
\* transcript of, or with none (main.c then takes the current time): a late
\* answer to a request that was given up as stale, or that was withdrawn by a
\* change of settings, is never taken for the answer to a younger request,
\* whatever the two threads do.
AnswerMatchesRequest == answer.start \in {NoUtt, answer.words}

\* Nor does an answer come twice, or after that to a later utterance: each one that is
\* passed on is of a later utterance than those before it, with its start time or none,
\* through every reconnection, late answer and change of settings.
AnswersInTurn ==
  [][PollTranscript => AnswerMatchesRequest' /\ answer'.words > answer.words]_vars

\* No settings were applied since the start: only the main thread has worked on it all.
OneThread == changes = 0

\* The connection is never left in CONNECTING, in which wyoming_connect would refuse to
\* do anything from then on, whatever the two threads do.  While one thread works on it,
\* its state and its socket agree between calls, and so do the state and the status the
\* user sees; and if it awaits an answer it awaits that to the request main.c has in
\* flight, and to no other.
StateMatchesSocket ==
  AtRest =>
    /\ state # "connecting"
    /\ OneThread =>
         /\ state = "connected" => fd \in open
         /\ state = "disconnected" => fd = NoSocket
         /\ state # "error" => shown = state \/ (mode = "external" /\ host = "")
         /\ awaiting /\ fd # NoSocket => inflight /\ requests[fd] = <<start>>
=============================================================================
