----------------------------- MODULE SttDelivery -----------------------------
(***************************************************************************)
(* What becomes of an utterance: the worker of whisper_stt.c decodes it or *)
(* posts it to the main loop for the external server, and posts its own    *)
(* state as it goes; the main loop hands the posted items over in order to *)
(* the callbacks of main.c; the server answers, late or never; the HTTP    *)
(* thread switches the backend at any moment.                              *)
(*                                                                         *)
(* Which frames make an utterance is modelled in Segmenter, the connection *)
(* to the server in ExternalAsr: here a submission succeeds or fails in    *)
(* one step.  whisper.cpp and the server are external.                     *)
(***************************************************************************)
EXTENDS Naturals, Sequences, SequencesExt

CONSTANTS
  MaxUtterances, MaxSwitches   \* bounds

ASSUME DeliveryAssumption == MaxUtterances \in Nat /\ MaxSwitches \in Nat

VARIABLES
  wpc,        \* where the worker is in the loop and in transcribe_and_publish
  heard,      \* utterances begun so far; the current one is the last
  queue,      \* items posted with g_idle_add
  callback,   \* g_external_transcribe_cb is set
  external, hosted,   \* g_stt_mode is "external", g_wyoming_host is not empty
  hpc, goal,  \* the HTTP thread in apply_settings, and the settings it applies
  switches,   \* how often settings were applied
  inflight,   \* the utterance of the request in flight, 0 for none
  awaited,    \* the utterance whose answer can still come from the server, or 0
  state,      \* status stt.state
  fate,       \* history variable: what became of each utterance
  published,  \* history variable: the utterances handed on, in order
  running     \* the main loop is running

workerVars  == <<wpc, heard>>
settingVars == <<callback, external, hosted, hpc, goal, switches>>
requestVars == <<inflight, awaited>>
historyVars == <<fate, published>>
vars == <<workerVars, queue, settingVars, requestVars, state, historyVars, running>>

Utterances == 1 .. MaxUtterances
Backends   == [external : BOOLEAN, hosted : BOOLEAN]

State(s)   == [type |-> "state", of |-> s]
Text(u)    == [type |-> "text", of |-> u]
Request(u) == [type |-> "request", of |-> u]

Init ==
  /\ wpc = "quiet" /\ heard = 0
  /\ queue = << >>
  /\ \E b \in Backends :
       callback = b.external /\ external = b.external /\ hosted = b.hosted
  /\ hpc = "idle" /\ goal = [external |-> FALSE, hosted |-> FALSE] /\ switches = 0
  /\ inflight = 0 /\ awaited = 0
  /\ state = "idle"
  /\ fate = [u \in Utterances |-> "unborn"] /\ published = << >>
  /\ running = TRUE

-----------------------------------------------------------------------------
(* The worker. *)

Post(item) == queue' = Append(queue, item)

Worker(from, to) == wpc = from /\ wpc' = to
Becomes(u, f)    == fate' = [fate EXCEPT ![u] = f]

rest == <<settingVars, requestVars, state, published, running>>

Begin ==
  /\ Worker("quiet", "speech")
  /\ heard < MaxUtterances
  /\ heard' = heard + 1
  /\ Becomes(heard', "heard")
  /\ Post(State("listening"))
  /\ UNCHANGED rest

\* Listening was switched off: nothing is posted.
Disabled ==
  /\ Worker("speech", "quiet")
  /\ Becomes(heard, "dropped")
  /\ UNCHANGED <<heard, queue, rest>>

\* The end of an utterance with too little speech, and of one that is transcribed.
Discard ==
  /\ Worker("speech", "idle")
  /\ Becomes(heard, "discarded")
  /\ UNCHANGED <<heard, queue, rest>>

Finish ==
  /\ Worker("speech", "choose")
  /\ Becomes(heard, "finished")
  /\ Post(State("transcribing"))
  /\ UNCHANGED <<heard, rest>>

\* Bug: an utterance for the external server is decoded as well.
ChooseBoth ==
  /\ Worker("choose", "decode")
  /\ IF callback THEN Becomes(heard, "posted") /\ Post(Request(heard))
                 ELSE UNCHANGED <<queue, fate>>
  /\ UNCHANGED <<heard, rest>>

Choose ==
  /\ wpc = "choose"
  /\ IF callback
     THEN /\ wpc' = "idle"
          /\ Becomes(heard, "posted")
          /\ Post(Request(heard))
     ELSE wpc' = "decode" /\ UNCHANGED <<queue, fate>>
  /\ UNCHANGED <<heard, rest>>

\* No model, whisper_full failed, or the text is blank.
DecodeNothing ==
  /\ Worker("decode", "idle")
  /\ Becomes(heard, "undecoded")
  /\ UNCHANGED <<heard, queue, rest>>

Decode ==
  /\ Worker("decode", "idle")
  /\ Becomes(heard, "decoded")
  /\ Post(Text(heard))
  /\ UNCHANGED <<heard, rest>>

\* Bug: only a transcription is followed by "idle".
PostIdleAfterText ==
  /\ Worker("idle", "quiet")
  /\ IF fate[heard] = "decoded" THEN Post(State("idle")) ELSE UNCHANGED queue
  /\ UNCHANGED <<heard, fate, rest>>

PostIdle ==
  /\ Worker("idle", "quiet")
  /\ Post(State("idle"))
  /\ UNCHANGED <<heard, fate, rest>>

-----------------------------------------------------------------------------
(* The main loop hands the first item over. *)

Item(type) == running /\ queue # << >> /\ Head(queue).type = type

Taken == queue' = Tail(queue)

\* Whisper_Transcript_Callback: what it filters away is not published.
Pass(u) ==
  \/ Becomes(u, "published") /\ published' = Append(published, u)
  \/ Becomes(u, "filtered") /\ UNCHANGED published

DeliverState ==
  /\ Item("state")
  /\ state' = Head(queue).of
  /\ Taken
  /\ UNCHANGED <<workerVars, settingVars, requestVars, historyVars, running>>

DeliverText ==
  /\ Item("text")
  /\ Pass(Head(queue).of)
  /\ Taken
  /\ UNCHANGED <<workerVars, settingVars, requestVars, state, running>>

\* deliver_external_transcribe_idle and Whisper_External_Transcribe_Callback: the
\* utterance is given up if the backend is no longer the external one, or while
\* another request is in flight and not stale.
Accepts == callback /\ external /\ hosted

\* Bug: while the backend is not the external one the utterance is kept back.
RefuseWhileBusy ==
  /\ Item("request")
  /\ inflight # 0
  /\ Becomes(Head(queue).of, "skipped")
  /\ Taken
  /\ UNCHANGED <<workerVars, settingVars, requestVars, state, published, running>>

Refuse ==
  /\ Item("request")
  /\ ~Accepts \/ inflight # 0
  /\ Becomes(Head(queue).of, "skipped")
  /\ Taken
  /\ UNCHANGED <<workerVars, settingVars, requestVars, state, published, running>>

\* The request of an utterance that is given up.
GivenUp(u) == IF u # 0 /\ fate[u] = "submitted" THEN [fate EXCEPT ![u] = "stale"] ELSE fate

\* A request that is in flight is stale by now.  The new one gets a connection of
\* its own, so that no answer to an old one comes any more.
Submit(ok) ==
  /\ Item("request")
  /\ Accepts
  /\ LET u == Head(queue).of
     IN  /\ fate' = [GivenUp(awaited) EXCEPT ![u] = IF ok THEN "submitted" ELSE "failed"]
         /\ inflight' = IF ok THEN u ELSE 0
         /\ awaited' = IF ok THEN u ELSE 0
  /\ state' = IF ok THEN "transcribing" ELSE "idle"
  /\ Taken
  /\ UNCHANGED <<workerVars, settingVars, published, running>>

-----------------------------------------------------------------------------
(* The server: a transcript, one without text, an error, or nothing. *)

\* Bug: the request is not cleared, and its answer can come again.
AnsweredTwice == inflight' = 0 /\ UNCHANGED awaited

Answered == inflight' = 0 /\ awaited' = 0

Transcript ==
  /\ running /\ awaited # 0
  /\ Pass(awaited)
  /\ Answered
  /\ state' = "idle"
  /\ UNCHANGED <<workerVars, queue, settingVars, running>>

\* A transcript without text, or the server closed the connection: neither callback
\* clears the request, it stays in flight until it is stale.
NoAnswer ==
  /\ running /\ awaited # 0
  /\ Becomes(awaited, "failed")
  /\ awaited' = 0
  /\ UNCHANGED <<workerVars, queue, settingVars, inflight, state, published, running>>

\* Wyoming_State_Callback for ERROR.
ServerError ==
  /\ running /\ awaited # 0
  /\ Becomes(awaited, "failed")
  /\ Answered
  /\ UNCHANGED <<workerVars, queue, settingVars, state, published, running>>

-----------------------------------------------------------------------------
(* resolve_stt_backend_from_settings on the HTTP thread. *)

HttpBegin(b) ==
  /\ hpc = "idle" /\ switches < MaxSwitches
  /\ hpc' = "assign" /\ goal' = b /\ switches' = switches + 1
  /\ external' = FALSE /\ hosted' = FALSE
  /\ UNCHANGED <<workerVars, queue, callback, requestVars, state, historyVars, running>>

HttpAssign ==
  /\ hpc = "assign"
  /\ external' = goal.external /\ hosted' = goal.hosted
  /\ hpc' = "switch"
  /\ UNCHANGED <<workerVars, queue, callback, goal, switches, requestVars, state,
                 historyVars, running>>

\* Leaving the external backend closes the connection; without a host the request
\* is forgotten but its answer may still come.
HttpSwitch ==
  /\ hpc = "switch"
  /\ callback' = goal.external
  /\ inflight' = IF goal.external /\ goal.hosted THEN inflight ELSE 0
  /\ IF goal.external
     THEN UNCHANGED <<awaited, fate>>
     ELSE awaited' = 0 /\ fate' = GivenUp(awaited)
  /\ state' = IF goal.external /\ ~goal.hosted THEN "error" ELSE state
  /\ hpc' = "idle"
  /\ UNCHANGED <<workerVars, queue, external, hosted, goal, switches, published, running>>

\* The main loop ends; what is posted is not delivered any more.
Quit ==
  /\ running
  /\ running' = FALSE
  /\ UNCHANGED <<workerVars, queue, settingVars, requestVars, state, historyVars>>

WorkerStep  == Choose \/ DecodeNothing \/ Decode \/ PostIdle
SpeechEnds  == Disabled \/ Discard \/ Finish
MainStep    == DeliverState \/ DeliverText \/ Refuse \/ \E ok \in BOOLEAN : Submit(ok)
ServerStep  == Transcript \/ NoAnswer \/ ServerError
HttpStep    == HttpAssign \/ HttpSwitch

Next == \/ Begin \/ SpeechEnds \/ WorkerStep
        \/ MainStep
        \/ ServerStep
        \/ HttpStep \/ \E b \in Backends : HttpBegin(b)
        \/ Quit

\* The worker decodes, the main loop runs what is posted, an application of
\* settings goes on.  Nobody need speak or fall silent, and no server answer.
Spec == Init /\ [][Next]_vars
          /\ WF_vars(WorkerStep) /\ WF_vars(MainStep) /\ WF_vars(HttpStep)

-----------------------------------------------------------------------------
States == {"idle", "listening", "transcribing", "error"}
Fates  == {"unborn", "heard", "dropped", "discarded", "finished", "posted", "undecoded",
           "decoded", "published", "filtered", "skipped", "stale", "submitted", "failed"}

TypeOK ==
  /\ wpc \in {"quiet", "speech", "choose", "decode", "idle"}
  /\ heard \in 0 .. MaxUtterances
  /\ queue \in Seq([type : {"state"}, of : States] \cup [type : {"text", "request"}, of : Utterances])
  /\ callback \in BOOLEAN /\ external \in BOOLEAN /\ hosted \in BOOLEAN
  /\ hpc \in {"idle", "assign", "switch"} /\ goal \in Backends /\ switches \in 0 .. MaxSwitches
  /\ inflight \in 0 .. MaxUtterances /\ awaited \in 0 .. MaxUtterances
  /\ state \in States
  /\ fate \in [Utterances -> Fates] /\ published \in Seq(Utterances)
  /\ running \in BOOLEAN

\* Each utterance is in exactly one place: with the worker, in the main loop's
\* queue, at the server, or settled.  None is delivered twice, none is lost
\* without a reason, whatever is switched when.
OnePlace ==
  \A u \in Utterances :
    LET places == {i \in DOMAIN queue : queue[i] \in {Text(u), Request(u)}}
    IN  CASE fate[u] = "unborn" -> u > heard /\ places = {}
          [] fate[u] \in {"heard", "finished"} ->
               u = heard /\ places = {} /\ wpc \in {"speech", "choose", "decode"}
          [] fate[u] \in {"decoded", "posted"} -> \E i \in DOMAIN queue : places = {i}
          [] fate[u] = "submitted" -> awaited = u /\ places = {}
          [] OTHER -> u <= heard /\ places = {} /\ awaited # u

\* "Once per finished utterance": nothing is handed on twice, and only speech that
\* was finished is; as long as the backend is left alone, in the order it was spoken in.
OncePerUtterance ==
  /\ \A i, j \in DOMAIN published : published[i] = published[j] => i = j
  /\ \A i \in DOMAIN published : fate[published[i]] = "published"
  /\ switches = 0 => \A i, j \in DOMAIN published : i < j => published[i] < published[j]

\* The worker, the main loop, the server and the switches of the backend together hand
\* each utterance on once or give it up, and neither is ever taken back or done again.
Unsettled == {u \in Utterances : fate[u] \in {"heard", "finished", "posted", "decoded", "submitted"}}

Hand == INSTANCE Handover WITH
  spoken <- heard, unsettled <- Unsettled, handed <- published, switched <- switches > 0

ImplementsHandover == Hand!Spec

\* When everything has settled the status does not say that the engine is at work,
\* unless listening was switched off in the middle of an utterance.  (While the
\* server's answer is awaited it says "idle" as well: the worker's "idle" is posted
\* behind the request.)
StateSettles ==
  running /\ wpc = "quiet" /\ queue = << >> /\ hpc = "idle" /\ heard > 0
      /\ fate[heard] # "dropped" =>
    state \in {"idle", "error"}

\* What was spoken and finished gets its fate, or waits for the server; and
\* "transcribing" does not stay, whatever the server does.
FinishedIsSettled ==
  /\ \A u \in Utterances :
       fate[u] = "finished" ~> (fate[u] \notin {"finished", "posted", "decoded"} \/ ~running)
  /\ state = "transcribing" ~> (state # "transcribing" \/ ~running)
=============================================================================
