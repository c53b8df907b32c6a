----------------------------- MODULE AudioRing -----------------------------
(***************************************************************************)
(* The sample ring of whisper_stt.c and the two threads that share it:     *)
(* the main thread, which starts the engine, feeds captured samples        *)
(* (whisper_stt_feed) and shuts it down (whisper_stt_cleanup), and the     *)
(* transcription worker, which waits for a whole frame (read_frame).       *)
(*                                                                         *)
(* A sample is named by its position in the accepted stream, so a slot     *)
(* shows which sample it holds and a frame shows what it was made of.      *)
(* Slots are written and read one step each: what keeps a frame whole is   *)
(* g_ring_lock, which the model takes and releases where the code does.    *)
(***************************************************************************)
EXTENDS Integers

CONSTANTS
  RingSize,    \* WSTT_RING_SAMPLES
  FrameSize,   \* WSTT_FRAME_SAMPLES
  MaxChunk,    \* the largest capture buffer
  MaxWritten   \* bound: samples fed in one behaviour (g_written is 64 bits)

ASSUME SizesAssumption ==
  /\ RingSize \in Nat \ {0}
  /\ FrameSize \in 1 .. RingSize
  /\ MaxChunk \in Nat \ {0}
  /\ MaxWritten \in Nat

NoSample == -1   \* a slot of the zeroed static array, before it is fed

VARIABLES
  running,   \* g_running
  ring,      \* g_ring: slot -> stream position
  written,   \* g_written
  lock,      \* g_ring_lock: "free", "main" or "worker"
  mpc,       \* where the main thread is
  count,     \* feed: samples in the current buffer
  fed,       \* feed: samples of it stored so far
  wpc,       \* where the worker is
  next,      \* worker: stream position of the next frame
  frame,     \* worker: the frame array
  copied     \* read_frame: samples copied so far

mainVars == <<mpc, count, fed>>
workerVars == <<wpc, next, frame, copied>>
ringVars == <<running, ring, written, lock, mainVars, workerVars>>

Slots == 0 .. RingSize - 1
FrameIndex == 0 .. FrameSize - 1
Sample == Nat \cup {NoSample}

RingInit ==
  /\ running = FALSE
  /\ ring = [s \in Slots |-> NoSample]
  /\ written = 0
  /\ lock = "free"
  /\ mpc = "down" /\ count = 0 /\ fed = 0
  /\ wpc = "none" /\ next = 0 /\ copied = 0
  /\ frame = [k \in FrameIndex |-> NoSample]

-----------------------------------------------------------------------------
(* The main thread. *)

\* Bug: the broadcast is forgotten.
NoBroadcast == wpc' = wpc

\* pthread_cond_broadcast: a waiting worker goes for the lock again.
Broadcast == wpc' = IF wpc = "wait" THEN "lock" ELSE wpc

\* whisper_stt_init: the flag is set, then the worker is created.
StartEngine ==
  /\ mpc = "down"
  /\ running' = TRUE
  /\ mpc' = "idle"
  /\ wpc' = "lock"
  /\ UNCHANGED <<ring, written, lock, count, fed, next, frame, copied>>

\* whisper_stt_init: no model or no thread; the flag ends up FALSE and the
\* application carries on without an engine.
StartFails ==
  /\ mpc = "down"
  /\ mpc' = "idle"
  /\ UNCHANGED <<running, ring, written, lock, count, fed, workerVars>>

\* whisper_stt_feed is called; it does nothing unless the engine runs.
FeedCall(n) ==
  /\ mpc = "idle"
  /\ running
  /\ written + n <= MaxWritten
  /\ count' = n
  /\ mpc' = "feed_lock"
  /\ UNCHANGED <<running, ring, written, lock, fed, workerVars>>

FeedLock ==
  /\ mpc = "feed_lock"
  /\ lock = "free"
  /\ lock' = "main"
  /\ fed' = 0
  /\ mpc' = "feed_write"
  /\ UNCHANGED <<running, ring, written, count, workerVars>>

FeedWrite ==
  /\ mpc = "feed_write"
  /\ fed < count
  /\ ring' = [ring EXCEPT ![(written + fed) % RingSize] = written + fed]
  /\ fed' = fed + 1
  /\ UNCHANGED <<running, written, lock, mpc, count, workerVars>>

\* The counter, the wake-up and the unlock that end whisper_stt_feed.
FeedPublish ==
  /\ mpc = "feed_write"
  /\ fed = count
  /\ written' = written + count
  /\ Broadcast
  /\ lock' = "free"
  /\ mpc' = "idle"
  /\ fed' = 0
  /\ UNCHANGED <<running, ring, count, next, frame, copied>>

\* whisper_stt_cleanup, up to the join.
CleanupCall ==
  /\ mpc = "idle"
  /\ mpc' = IF running THEN "stop" ELSE "done"
  /\ UNCHANGED <<running, ring, written, lock, count, fed, workerVars>>

CleanupStop ==
  /\ mpc = "stop"
  /\ lock = "free"
  /\ running' = FALSE
  /\ Broadcast
  /\ mpc' = "join"
  /\ UNCHANGED <<ring, written, lock, count, fed, next, frame, copied>>

CleanupJoin ==
  /\ mpc = "join"
  /\ wpc = "exited"
  /\ mpc' = "done"
  /\ UNCHANGED <<running, ring, written, lock, count, fed, workerVars>>

-----------------------------------------------------------------------------
(* The worker: read_frame, called from the loop of transcribe_thread_func. *)

\* Entering read_frame, or leaving pthread_cond_wait.
ReadLock ==
  /\ wpc = "lock"
  /\ lock = "free"
  /\ lock' = "worker"
  /\ wpc' = "check"
  /\ UNCHANGED <<running, ring, written, mainVars, next, frame, copied>>

\* Bug: one sample more than a frame is waited for.
FrameReadyLate == next + FrameSize < written

FrameReady == next + FrameSize <= written

\* pthread_cond_wait releases the lock and sleeps in one step.
ReadWait ==
  /\ wpc = "check"
  /\ running
  /\ ~FrameReady
  /\ lock' = "free"
  /\ wpc' = "wait"
  /\ UNCHANGED <<running, ring, written, mainVars, next, frame, copied>>

\* POSIX lets pthread_cond_wait return for no reason.
SpuriousWakeup ==
  /\ wpc = "wait"
  /\ wpc' = "lock"
  /\ UNCHANGED <<running, ring, written, lock, mainVars, next, frame, copied>>

\* read_frame returns FALSE and the thread function returns.
ReadStop ==
  /\ wpc = "check"
  /\ ~running
  /\ lock' = "free"
  /\ wpc' = "exited"
  /\ UNCHANGED <<running, ring, written, mainVars, next, frame, copied>>

\* Bug: skip everything but the newest frame.
SkipToNewest ==
  IF written > next + RingSize THEN written - FrameSize ELSE next

\* Where the frame starts: overwritten samples are skipped.
FrameStart ==
  IF written > next + RingSize THEN written - RingSize ELSE next

ReadStart ==
  /\ wpc = "check"
  /\ running
  /\ FrameReady
  /\ next' = FrameStart
  /\ copied' = 0
  /\ wpc' = "copy"
  /\ UNCHANGED <<running, ring, written, lock, mainVars, frame>>

ReadCopy ==
  /\ wpc = "copy"
  /\ copied < FrameSize
  /\ frame' = [frame EXCEPT ![copied] = ring[(next + copied) % RingSize]]
  /\ copied' = copied + 1
  /\ UNCHANGED <<running, ring, written, lock, mainVars, wpc, next>>

ReadReturn ==
  /\ wpc = "copy"
  /\ copied = FrameSize
  /\ next' = next + FrameSize
  /\ lock' = "free"
  /\ wpc' = "process"
  /\ UNCHANGED <<running, ring, written, mainVars, frame, copied>>

\* The loop body: gate, segment and perhaps transcribe, for as long as it
\* takes, without the ring lock.
Process ==
  /\ wpc = "process"
  /\ wpc' = "lock"
  /\ UNCHANGED <<running, ring, written, lock, mainVars, next, frame, copied>>

-----------------------------------------------------------------------------
MainNext ==
  \/ StartEngine
  \/ StartFails
  \/ \E n \in 1 .. MaxChunk : FeedCall(n)
  \/ FeedLock
  \/ FeedWrite
  \/ FeedPublish
  \/ CleanupCall
  \/ CleanupStop
  \/ CleanupJoin

WorkerNext ==
  \/ ReadLock
  \/ ReadWait
  \/ SpuriousWakeup
  \/ ReadStop
  \/ ReadStart
  \/ ReadCopy
  \/ ReadReturn
  \/ Process

\* Keeps a behaviour that has shut down from being reported as a deadlock.
Terminated ==
  /\ mpc = "done"
  /\ UNCHANGED ringVars

RingNext == MainNext \/ WorkerNext \/ Terminated

RingSpec == RingInit /\ [][RingNext]_ringVars

\* The scheduler runs both threads. Nothing obliges the microphone to deliver
\* (FeedCall) or the user to quit (CleanupCall), but a call that was made is
\* finished. A mutex that is released again and again is eventually granted
\* (strong fairness): the other side holds it for a copy of a few samples.
Fairness ==
  /\ SF_ringVars(FeedLock) /\ SF_ringVars(CleanupStop) /\ SF_ringVars(ReadLock)
  /\ WF_ringVars(FeedWrite \/ FeedPublish) /\ WF_ringVars(CleanupJoin)
  /\ WF_ringVars(ReadWait \/ ReadStop \/ ReadStart \/ ReadCopy \/ ReadReturn \/ Process)

FairSpec == RingSpec /\ Fairness

-----------------------------------------------------------------------------
RingTypeOK ==
  /\ running \in BOOLEAN
  /\ ring \in [Slots -> Sample]
  /\ written \in Nat
  /\ lock \in {"free", "main", "worker"}
  /\ mpc \in {"down", "idle", "feed_lock", "feed_write", "stop", "join", "done"}
  /\ count \in Nat /\ fed \in Nat
  /\ wpc \in {"none", "lock", "check", "wait", "copy", "process", "exited"}
  /\ next \in Nat
  /\ frame \in [FrameIndex -> Sample]
  /\ copied \in 0 .. FrameSize

\* The frame the worker segments is FrameSize consecutive samples of the
\* stream, ending just below its cursor: never torn by a concurrent feed,
\* never made of slots that were overwritten or not yet written.
FrameIntact ==
  wpc = "process" => \A k \in FrameIndex : frame[k] = next - FrameSize + k

\* The worker sleeps only while there is no frame for it and no shutdown: a
\* feed or a cleanup that makes progress possible has woken it up.
NoLostWakeup ==
  wpc = "wait" => running /\ written < next + FrameSize

\* A frame that is buffered is handed to the segmenter unless the engine is
\* shut down, and whisper_stt_cleanup returns: the worker is not left asleep or
\* out of the lock, sees the flag, leaves read_frame and can be joined.
NobodyWaitsForEver ==
  /\ (running /\ next + FrameSize <= written) ~> (~running \/ wpc = "process")
  /\ (mpc = "stop") ~> (mpc = "done")

\* The ring is a bounded queue that forgets only its oldest samples.
Queue == INSTANCE LossyAudioQueue WITH
  Capacity <- RingSize,
  open     <- running,
  accepted <- written,
  cursor   <- next,
  frame    <- IF wpc = "process" THEN frame ELSE << >>

\* Every step of the ring is a step of that queue.
ImplementsQueue == Queue!Spec
=============================================================================
