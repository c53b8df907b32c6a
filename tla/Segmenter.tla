----------------------------- MODULE Segmenter -----------------------------
(***************************************************************************)
(* The loop of transcribe_thread_func in whisper_stt.c: the worker sorts   *)
(* frames into utterances, while another thread may change the settings    *)
(* (whisper_stt_configure) between any two of them.                        *)
(*                                                                         *)
(* A frame is its number in the order read_frame returned it, with its     *)
(* loudness reduced to the two comparisons the code makes: "quiet" is at   *)
(* or below continue_gate, "mid" above it but not above gate, "loud" above *)
(* gate.  (The adaptive noise floor decides which; any sequence of levels  *)
(* is allowed.)  Lengths are kept in samples, as in the code.              *)
(***************************************************************************)
EXTENDS Integers, Sequences, FiniteSets

CONSTANTS
  SampleRate,       \* WSTT_SAMPLE_RATE
  FrameMs,          \* WSTT_FRAME_MS
  FrameSamples,     \* WSTT_FRAME_SAMPLES
  PrerollFrames,    \* WSTT_PREROLL_FRAMES
  MaxUtterSamples,  \* WSTT_MAX_UTTER_SAMPLES
  MinUtterMs,       \* WSTT_MIN_UTTER_MS
  WordSize,         \* 2^32: guint32 arithmetic wraps at it
  Requests,         \* configurations whisper_stt_configure is called with
  Defaults,         \* what it puts for a value that is not positive
  MaxFrames         \* bound: frames read in one behaviour

ASSUME SegmenterAssumption ==
  /\ SampleRate \in Nat \ {0} /\ FrameMs \in Nat \ {0}
  /\ FrameSamples \in Nat \ {0}
  /\ PrerollFrames \in Nat \ {0}
  /\ MinUtterMs \in Nat /\ WordSize \in Nat \ {0} /\ MaxFrames \in Nat
  /\ MaxUtterSamples \in Nat /\ MaxUtterSamples % FrameSamples = 0
  /\ (PrerollFrames + 1) * FrameSamples < MaxUtterSamples

Config == [enabled : BOOLEAN, silence_ms : Nat, min_speech_ms : Nat, max_sec : Nat]

ASSUME ConfigAssumption ==
  /\ Defaults \in Config
  /\ Requests \subseteq
       [enabled : BOOLEAN, silence_ms : Int, min_speech_ms : Int, max_sec : Int]

Levels == {"quiet", "mid", "loud"}

VARIABLES
  config,        \* g_config
  heard,         \* frames read so far
  in_speech,
  utt,           \* the frames in the utterance buffer
  preroll,       \* the frames kept in case speech starts
  speech_frames,
  silence_run,
  state,         \* the state last posted with notify_state
  finished       \* the utterance the last step ended, NoUtterance if none

vars == <<config, heard, in_speech, utt, preroll, speech_frames, silence_run,
          state, finished>>

NoUtterance == [verdict |-> "none"]

-----------------------------------------------------------------------------
(* Settings, as the worker reads them under g_config_mutex for each frame. *)

OrDefault(value, default) == IF value > 0 THEN value ELSE default

AtLeastOne(n) == IF n = 0 THEN 1 ELSE n

HangFrames == AtLeastOne(config.silence_ms \div FrameMs)

MinSpeechFrames == config.min_speech_ms \div FrameMs

\* max_utterance_sec in samples, a 32-bit product limited to the buffer.
MaxSamplesNow ==
  LET product == (config.max_sec * SampleRate) % WordSize
  IN  IF product > MaxUtterSamples THEN MaxUtterSamples ELSE product

-----------------------------------------------------------------------------
UttSamples(u) == Len(u) * FrameSamples

UtteranceMs(u) == (1000 * UttSamples(u)) \div SampleRate

\* The pre-roll keeps the newest PrerollFrames frames.
PushPreroll(f) ==
  IF Len(preroll) < PrerollFrames
  THEN Append(preroll, f)
  ELSE Append(Tail(preroll), f)

\* A frame is appended only while it fits in the buffer.
Extended(f) ==
  IF UttSamples(utt) + FrameSamples <= MaxUtterSamples
  THEN Append(utt, f) ELSE utt

EndOfUtterance(u, silence) ==
  \/ silence >= HangFrames
  \/ UttSamples(u) >= MaxSamplesNow
  \/ UttSamples(u) >= MaxUtterSamples

Publishable(u, speech) ==
  /\ speech >= MinSpeechFrames
  /\ UtteranceMs(u) >= MinUtterMs

Init ==
  /\ config = Defaults
  /\ heard = 0
  /\ in_speech = FALSE
  /\ utt = << >>
  /\ preroll = << >>
  /\ speech_frames = 0
  /\ silence_run = 0
  /\ state = "idle"      \* posted before the first frame is read
  /\ finished = NoUtterance

\* whisper_stt_configure, from any thread, under g_config_mutex.
Configure(c) ==
  /\ config' = [enabled       |-> c.enabled,
                silence_ms    |-> OrDefault(c.silence_ms, Defaults.silence_ms),
                min_speech_ms |-> OrDefault(c.min_speech_ms, Defaults.min_speech_ms),
                max_sec       |-> OrDefault(c.max_sec, Defaults.max_sec)]
  /\ finished' = NoUtterance
  /\ UNCHANGED <<heard, in_speech, utt, preroll, speech_frames, silence_run,
                 state>>

\* What every iteration of the loop does: a frame has been read.
ReadFrame ==
  /\ heard < MaxFrames
  /\ heard' = heard + 1
  /\ UNCHANGED config

Frame(level) == [at |-> heard, level |-> level]

\* Listening is off: everything buffered is dropped, and nothing is posted.
DropFrame ==
  /\ ReadFrame
  /\ ~config.enabled
  /\ in_speech' = FALSE
  /\ utt' = << >> /\ preroll' = << >>
  /\ speech_frames' = 0 /\ silence_run' = 0
  /\ finished' = NoUtterance
  /\ UNCHANGED state

\* No speech yet: the frame goes to the pre-roll.
KeepForPreroll(level) ==
  /\ ReadFrame
  /\ config.enabled
  /\ ~in_speech
  /\ level # "loud"
  /\ preroll' = PushPreroll(Frame(level))
  /\ finished' = NoUtterance
  /\ UNCHANGED <<in_speech, utt, speech_frames, silence_run, state>>

\* Bug: the pre-roll is not emptied when an utterance takes it over.
StartKeepingPreroll ==
  /\ ReadFrame
  /\ config.enabled
  /\ ~in_speech
  /\ in_speech' = TRUE
  /\ silence_run' = 0
  /\ speech_frames' = 1
  /\ utt' = Append(preroll, Frame("loud"))
  /\ state' = "listening"
  /\ finished' = NoUtterance
  /\ UNCHANGED preroll

\* A loud frame starts an utterance with the pre-roll in front of it.
StartUtterance ==
  /\ ReadFrame
  /\ config.enabled
  /\ ~in_speech
  /\ in_speech' = TRUE
  /\ silence_run' = 0
  /\ speech_frames' = 1
  /\ utt' = Append(preroll, Frame("loud"))
  /\ preroll' = << >>
  /\ state' = "listening"
  /\ finished' = NoUtterance

\* Bug: speech does not reset the count of quiet frames.
SilenceNeverReset(level) == IF level = "quiet" THEN silence_run + 1 ELSE silence_run

SilenceAfter(level) == IF level = "quiet" THEN silence_run + 1 ELSE 0

\* Bug: quiet frames count as speech.
SpeechAfterAny(level) == speech_frames + 1

SpeechAfter(level) == IF level = "quiet" THEN speech_frames ELSE speech_frames + 1

ContinueUtterance(level) ==
  /\ ReadFrame
  /\ config.enabled
  /\ in_speech
  /\ ~EndOfUtterance(Extended(Frame(level)), SilenceAfter(level))
  /\ utt' = Extended(Frame(level))
  /\ silence_run' = SilenceAfter(level)
  /\ speech_frames' = SpeechAfter(level)
  /\ finished' = NoUtterance
  /\ UNCHANGED <<in_speech, preroll, state>>

\* The last frame of an utterance: it is posted as "transcribing" and handed
\* to a recogniser, or discarded; then "idle" is posted.
EndUtterance(level) ==
  LET u == Extended(Frame(level))
  IN  /\ ReadFrame
      /\ config.enabled
      /\ in_speech
      /\ EndOfUtterance(u, SilenceAfter(level))
      /\ in_speech' = FALSE
      /\ silence_run' = 0
      /\ finished' =
           [verdict |-> IF Publishable(u, SpeechAfter(level)) THEN "publish"
                                                              ELSE "discard",
            frames  |-> u]
      /\ utt' = << >>
      /\ speech_frames' = 0
      /\ state' = "idle"
      /\ UNCHANGED preroll

Next ==
  \/ \E c \in Requests : Configure(c)
  \/ DropFrame
  \/ \E level \in Levels : KeepForPreroll(level)
  \/ StartUtterance
  \/ \E level \in Levels : ContinueUtterance(level)
  \/ \E level \in Levels : EndUtterance(level)

Spec == Init /\ [][Next]_vars

-----------------------------------------------------------------------------
Frames == [at : Nat, level : Levels]

TypeOK ==
  /\ config \in Config
  /\ heard \in Nat
  /\ in_speech \in BOOLEAN
  /\ utt \in Seq(Frames) /\ preroll \in Seq(Frames)
  /\ speech_frames \in Nat /\ silence_run \in Nat
  /\ state \in {"idle", "listening"}
  /\ \/ finished = NoUtterance
     \/ finished \in [verdict : {"publish", "discard"}, frames : Seq(Frames)]

\* u is a run of frames read one after the other, the last of the first n.
IsRun(u, n) == \A i \in DOMAIN u : u[i].at = n - Len(u) + i - 1

\* What is transcribed is a piece of the microphone stream without a hole, a
\* repeated frame or a stale one, up to the newest frame, pre-roll included:
\* neither the hand-over of the pre-roll, nor the end of an utterance, nor
\* switching listening off and on leaves old frames in the buffers.
UtteranceIsStream ==
  /\ IsRun(preroll, heard) /\ Len(preroll) <= PrerollFrames
  /\ IsRun(utt, heard) /\ (in_speech <=> utt # << >>)
  /\ in_speech => preroll = << >>
  /\ finished # NoUtterance => IsRun(finished.frames, heard)

\* The utterance buffer always has room for one more frame, whatever the
\* settings were when the utterance began and are now: the branch that drops
\* a frame of speech is never taken, and the unguarded copies of the pre-roll
\* and the first frame stay inside the buffer.
NeverFull ==
  in_speech => UttSamples(utt) + FrameSamples <= MaxUtterSamples

\* Frames of an utterance that are speech: from the loud frame that started
\* it on, those that are not quiet.
SpeechIn(u) ==
  {i \in DOMAIN u : u[i].level # "quiet" /\ \E j \in 1 .. i : u[j].level = "loud"}

\* A finished utterance is transcribed exactly if it holds the configured
\* amount of speech and lasts at least the minimum; counted from the frames
\* themselves, not with the counters the code maintains.
VerdictIsRight ==
  finished # NoUtterance =>
    (finished.verdict = "publish" <=>
       /\ Cardinality(SpeechIn(finished.frames)) >= MinSpeechFrames
       /\ UtteranceMs(finished.frames) >= MinUtterMs)

\* An utterance ends after the configured trailing silence, or because it is
\* as long as max_utterance_sec or the buffer allows; it is not cut sooner.
\* (whisper_stt.h calls the one "trailing silence before an utterance ends"
\* and the other a "hard cap".)
EndsOnSilenceOrCap ==
  finished # NoUtterance =>
    LET u == finished.frames
    IN  \/ /\ Len(u) >= HangFrames
           /\ \A i \in Len(u) - HangFrames + 1 .. Len(u) : u[i].level = "quiet"
        \/ UttSamples(u) >= config.max_sec * SampleRate
        \/ UttSamples(u) >= MaxUtterSamples
=============================================================================
