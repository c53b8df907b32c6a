--------------------------- MODULE MicrophoneProofs --------------------------
(***************************************************************************)
(* Proofs about the path of the samples from the microphone to a           *)
(* recogniser.  AudioRing, for every ring, frame and chunk size: frames    *)
(* are never torn, no wake-up is lost, and the ring implements the queue   *)
(* of LossyAudioQueue.  Segmenter, for every frame size, buffer, pre-roll  *)
(* and setting: what is handed to a recogniser is an unbroken piece of the *)
(* stream, and the utterance buffer is never overrun nor full.             *)
(***************************************************************************)
EXTENDS AudioRing, Segmenter, FiniteSetTheorems, TLAPS

-----------------------------------------------------------------------------
(* The invariant of the ring. *)

\* The end of what has been stored, the part of a feed not yet published
\* included.
Top == IF mpc = "feed_write" THEN written + fed ELSE written

\* The ring holds the last RingSize samples below Top, each in its own slot.
Contents ==
  \A p \in Nat : p < Top /\ Top <= p + RingSize => ring[p % RingSize] = p

\* The lock is held exactly inside the critical sections; outside of its own
\* the feed has no samples in flight.
LockInv ==
  /\ (lock = "main") <=> (mpc = "feed_write")
  /\ (lock = "worker") <=> (wpc \in {"check", "copy"})
  /\ mpc # "feed_write" => fed = 0

\* The flag and the life of the worker.
EngineInv ==
  /\ mpc = "down" => ~running /\ wpc = "none"
  /\ mpc \in {"feed_lock", "feed_write", "stop"} => running
  /\ running => wpc \notin {"none", "exited"}

\* A frame being copied lies inside the ring, and its copied part is right.
CopyInv ==
  wpc = "copy" =>
    /\ running
    /\ next + FrameSize <= written
    /\ written <= next + RingSize
    /\ \A k \in FrameIndex : k < copied => frame[k] = next + k

\* The inductive invariant (with RingTypeOK, which is inductive by itself).
RingInv ==
  /\ LockInv
  /\ EngineInv
  /\ Contents
  /\ CopyInv
  /\ FrameIntact
  /\ NoLostWakeup

-----------------------------------------------------------------------------
(* Slots of the ring. *)

\* A remainder is a slot of the ring.
LEMMA SlotType == \A p \in Nat : p % RingSize \in Slots
  BY SizesAssumption DEF Slots

\* Two positions less than a ring apart are in different slots.
LEMMA SlotsDiffer ==
  ASSUME NEW p \in Nat, NEW q \in Nat, p < q, q < p + RingSize
  PROVE  p % RingSize # q % RingSize
<1> DEFINE a == p \div RingSize
           b == q \div RingSize
<1>1. RingSize \in Nat /\ RingSize > 0
  BY SizesAssumption
<1>2. a \in Int /\ b \in Int
  BY <1>1
<1>3. /\ p = (RingSize * a) + (p % RingSize)
      /\ q = (RingSize * b) + (q % RingSize)
  BY <1>1
<1> SUFFICES ASSUME p % RingSize = q % RingSize PROVE FALSE
  OBVIOUS
<1> HIDE DEF a, b
<1>4. q - p = RingSize * (b - a)
  BY <1>1, <1>2, <1>3
<1>5. b - a \in Int
  BY <1>2
<1>6. CASE b - a <= 0
  BY <1>1, <1>2, <1>4, <1>6
<1>7. CASE b - a >= 1
  <2>1. RingSize * (b - a) >= RingSize
    BY <1>1, <1>5, <1>7
  <2> QED BY <1>1, <2>1, <1>4, <1>5
<1> QED BY <1>5, <1>6, <1>7

-----------------------------------------------------------------------------
(* The type invariant is inductive by itself. *)

\* No step of either thread breaks the types.
LEMMA NextRingTypeOK == RingTypeOK /\ [RingNext]_ringVars => RingTypeOK'
<1> SUFFICES ASSUME RingTypeOK, [RingNext]_ringVars PROVE RingTypeOK'
  OBVIOUS
<1> USE SizesAssumption DEF RingTypeOK, mainVars, workerVars
<1>1. CASE StartEngine
  BY <1>1 DEF StartEngine
<1>2. CASE StartFails
  BY <1>2 DEF StartFails
<1>3. CASE FeedLock
  BY <1>3 DEF FeedLock
<1>4. CASE FeedWrite
  <2>1. written + fed \in Sample
    BY DEF Sample
  <2>2. ring' \in [Slots -> Sample]
    BY <1>4, <2>1 DEF FeedWrite
  <2> QED BY <1>4, <2>2 DEF FeedWrite
<1>5. CASE FeedPublish
  BY <1>5 DEF FeedPublish, Broadcast
<1>6. CASE CleanupCall
  BY <1>6 DEF CleanupCall
<1>7. CASE CleanupStop
  BY <1>7 DEF CleanupStop, Broadcast
<1>8. CASE CleanupJoin
  BY <1>8 DEF CleanupJoin
<1>9. CASE ReadLock
  BY <1>9 DEF ReadLock
<1>10. CASE ReadWait
  BY <1>10 DEF ReadWait
<1>11. CASE SpuriousWakeup
  BY <1>11 DEF SpuriousWakeup
<1>12. CASE ReadStop
  BY <1>12 DEF ReadStop
<1>13. CASE ReadStart
  BY <1>13 DEF ReadStart, FrameStart
<1>14. CASE ReadCopy
  <2>1. ring[(next + copied) % RingSize] \in Sample
    <3>1. next + copied \in Nat
      OBVIOUS
    <3> QED BY <3>1, SlotType
  <2>2. frame' \in [FrameIndex -> Sample]
    BY <1>14, <2>1 DEF ReadCopy
  <2> QED BY <1>14, <2>2 DEF ReadCopy
<1>15. CASE ReadReturn
  BY <1>15 DEF ReadReturn
<1>16. CASE Process
  BY <1>16 DEF Process
<1>17. ASSUME NEW n \in 1 .. MaxChunk, FeedCall(n) PROVE RingTypeOK'
  BY <1>17 DEF FeedCall
<1>18. CASE UNCHANGED ringVars
  BY <1>18 DEF ringVars
<1> QED
  BY <1>1, <1>2, <1>3, <1>4, <1>5, <1>6, <1>7, <1>8, <1>9, <1>10, <1>11, <1>12, <1>13, <1>14, <1>15, <1>16, <1>17, <1>18
  DEF RingNext, MainNext, WorkerNext, Terminated

\* Every variable keeps its type in every behaviour, whatever the sizes.
THEOREM RingTypeCorrect == RingSpec => []RingTypeOK
<1>1. RingInit => RingTypeOK
  <2>1. NoSample \in Sample
    BY DEF Sample
  <2>2. 0 \in 0 .. FrameSize
    BY SizesAssumption
  <2>3. RingInit => ring \in [Slots -> Sample]
    BY <2>1 DEF RingInit
  <2>4. RingInit => frame \in [FrameIndex -> Sample]
    BY <2>1 DEF RingInit
  <2>5. RingInit => /\ running \in BOOLEAN
                /\ written = 0 /\ count = 0 /\ fed = 0 /\ next = 0 /\ copied = 0
                /\ lock = "free" /\ mpc = "down" /\ wpc = "none"
    BY DEF RingInit
  <2> QED BY <2>2, <2>3, <2>4, <2>5 DEF RingTypeOK
<1> QED BY <1>1, NextRingTypeOK, PTL DEF RingSpec
-----------------------------------------------------------------------------
(* The safety invariants, from RingInv. *)

\* The invariant holds before the engine is started.
LEMMA InitRingInv == RingInit => RingInv
<1> SUFFICES ASSUME RingInit PROVE RingInv
  OBVIOUS
<1>1. Contents
  BY DEF RingInit, Contents, Top
<1>2. LockInv /\ EngineInv /\ CopyInv /\ FrameIntact /\ NoLostWakeup
  BY DEF RingInit, LockInv, EngineInv, CopyInv, FrameIntact, NoLostWakeup
<1> QED
  BY <1>1, <1>2 DEF RingInv

\* Every step of either thread keeps the invariant of the ring.
LEMMA NextRingInv == RingTypeOK /\ RingTypeOK' /\ RingInv /\ [RingNext]_ringVars => RingInv'
<1> SUFFICES ASSUME RingTypeOK, RingTypeOK', RingInv, [RingNext]_ringVars PROVE RingInv'
  OBVIOUS
<1> USE SizesAssumption
    DEF RingInv, LockInv, EngineInv, Contents, Top, CopyInv, FrameIntact,
        NoLostWakeup, mainVars, workerVars
<1>1. CASE StartEngine
  BY <1>1 DEF StartEngine
<1>2. CASE StartFails
  BY <1>2 DEF StartFails
<1>3. CASE FeedLock
  BY <1>3 DEF FeedLock, RingTypeOK
<1>4. CASE FeedWrite
  <2>1. (written + fed) % RingSize \in Slots /\ written + fed \in Nat
    <3>1. written + fed \in Nat
      BY DEF RingTypeOK
    <3> QED BY <3>1, SlotType
  <2>2. Contents'
    <3> SUFFICES ASSUME NEW p \in Nat, p <= written + fed, written + fed < p + RingSize
                 PROVE  ring'[p % RingSize] = p
      BY <1>4 DEF FeedWrite, RingTypeOK
    <3>1. p % RingSize \in Slots
      BY SlotType
    <3>2. CASE p = written + fed
      BY <1>4, <2>1, <3>2 DEF FeedWrite, RingTypeOK
    <3>3. CASE p < written + fed
      <4>1. p % RingSize # (written + fed) % RingSize
        BY <2>1, <3>3, SlotsDiffer
      <4>2. ring[p % RingSize] = p
        BY <1>4, <2>1, <3>3 DEF FeedWrite, RingTypeOK
      <4> QED BY <1>4, <2>1, <3>1, <4>1, <4>2 DEF FeedWrite, RingTypeOK
    <3> QED BY <2>1, <3>2, <3>3
  <2>3. (LockInv /\ EngineInv /\ CopyInv /\ FrameIntact /\ NoLostWakeup)'
    BY <1>4 DEF FeedWrite
  <2> QED BY <2>2, <2>3
<1>5. CASE FeedPublish
  BY <1>5 DEF FeedPublish, Broadcast, RingTypeOK
<1>6. CASE CleanupCall
  BY <1>6 DEF CleanupCall
<1>7. CASE CleanupStop
  BY <1>7 DEF CleanupStop, Broadcast
<1>8. CASE CleanupJoin
  BY <1>8 DEF CleanupJoin
<1>9. CASE ReadLock
  BY <1>9 DEF ReadLock
<1>10. CASE ReadWait
  BY <1>10 DEF ReadWait, FrameReady, RingTypeOK
<1>11. CASE SpuriousWakeup
  BY <1>11 DEF SpuriousWakeup
<1>12. CASE ReadStop
  BY <1>12 DEF ReadStop
<1>13. CASE ReadStart
  <2>1. CopyInv'
    BY <1>13 DEF ReadStart, FrameReady, FrameStart, RingTypeOK, FrameIndex
  <2>2. (LockInv /\ EngineInv /\ Contents /\ FrameIntact /\ NoLostWakeup)'
    BY <1>13 DEF ReadStart
  <2> QED BY <2>1, <2>2
<1>14. CASE ReadCopy
  <2>1. ring[(next + copied) % RingSize] = next + copied
    BY <1>14 DEF ReadCopy, RingTypeOK
  <2>2. CopyInv'
    <3>1. \A k \in FrameIndex : k < copied + 1 => frame'[k] = next + k
      BY <1>14, <2>1 DEF ReadCopy, RingTypeOK, FrameIndex
    <3> QED BY <1>14, <3>1 DEF ReadCopy
  <2>3. (LockInv /\ EngineInv /\ Contents /\ FrameIntact /\ NoLostWakeup)'
    BY <1>14 DEF ReadCopy
  <2> QED BY <2>2, <2>3
<1>15. CASE ReadReturn
  <2>1. FrameIntact'
    BY <1>15 DEF ReadReturn, RingTypeOK, FrameIndex
  <2>2. (LockInv /\ EngineInv /\ Contents /\ CopyInv /\ NoLostWakeup)'
    BY <1>15 DEF ReadReturn
  <2> QED BY <2>1, <2>2
<1>16. CASE Process
  BY <1>16 DEF Process
<1>17. ASSUME NEW n \in 1 .. MaxChunk, FeedCall(n) PROVE RingInv'
  BY <1>17 DEF FeedCall
<1>18. CASE UNCHANGED ringVars
  BY <1>18 DEF ringVars
<1> QED
  BY <1>1, <1>2, <1>3, <1>4, <1>5, <1>6, <1>7, <1>8, <1>9, <1>10, <1>11, <1>12, <1>13, <1>14, <1>15, <1>16, <1>17, <1>18
  DEF RingNext, MainNext, WorkerNext, Terminated

\* The types and the invariant hold in every reachable state.
LEMMA RingInvHolds == RingSpec => []RingInv
  BY InitRingInv, NextRingInv, RingTypeCorrect, PTL DEF RingSpec

\* The worker is only ever given whole frames of consecutive samples.
THEOREM FramesAreIntact == RingSpec => []FrameIntact
<1>1. RingInv => FrameIntact
  BY DEF RingInv
<1> QED BY <1>1, RingInvHolds, PTL

\* The worker never sleeps through a buffered frame or a shutdown.
THEOREM NoWakeupIsLost == RingSpec => []NoLostWakeup
<1>1. RingInv => NoLostWakeup
  BY DEF RingInv
<1> QED BY <1>1, RingInvHolds, PTL

-----------------------------------------------------------------------------
(* Refinement of the lossy queue. *)

\* The empty ring is the closed, empty queue.
LEMMA QueueInit == RingInit => Queue!Init
  BY DEF RingInit, Queue!Init, Queue!NoFrame

\* Every step of the ring is a step of the queue or leaves it alone.
LEMMA QueueNext ==
  RingTypeOK /\ RingTypeOK' /\ RingInv /\ [RingNext]_ringVars => [Queue!Next]_(Queue!vars)
<1> SUFFICES ASSUME RingTypeOK, RingTypeOK', RingInv, [RingNext]_ringVars
             PROVE  Queue!Next \/ UNCHANGED Queue!vars
  OBVIOUS
<1> USE SizesAssumption DEF Queue!vars, Queue!NoFrame, mainVars, workerVars
<1>1. CASE StartEngine
  <2>1. ~running /\ wpc = "none"
    BY <1>1 DEF StartEngine, RingInv, EngineInv
  <2> QED BY <1>1, <2>1 DEF StartEngine, Queue!Next, Queue!Open
<1>2. CASE FeedPublish
  <2>1. running /\ (wpc' = "process" <=> wpc = "process")
    BY <1>2 DEF FeedPublish, Broadcast, RingInv, EngineInv
  <2>2. CASE count = 0
    <3>1. written' = written
      BY <1>2, <2>2 DEF FeedPublish, RingTypeOK
    <3> QED BY <1>2, <2>1, <3>1 DEF FeedPublish
  <2>3. CASE count > 0
    <3>1. written' \in Nat /\ written' > written
      BY <1>2, <2>3 DEF FeedPublish, RingTypeOK
    <3>2. Queue!Accept
      BY <1>2, <2>1, <3>1 DEF FeedPublish, Queue!Accept
    <3> QED BY <3>2 DEF Queue!Next
  <2> QED BY <2>2, <2>3 DEF RingTypeOK
<1>3. CASE CleanupStop
  <2>1. running /\ (wpc' = "process" <=> wpc = "process")
    BY <1>3 DEF CleanupStop, Broadcast, RingInv, EngineInv
  <2> QED BY <1>3, <2>1 DEF CleanupStop, Queue!Next, Queue!Close
<1>4. CASE ReadStart
  <2>1. CASE written > next + RingSize
    BY <1>4, <2>1 DEF ReadStart, FrameStart, Queue!Next, Queue!DropOldest
  <2>2. CASE ~(written > next + RingSize)
    BY <1>4, <2>2 DEF ReadStart, FrameStart
  <2> QED BY <2>1, <2>2
<1>5. CASE ReadReturn
  <2>1. frame = [k \in FrameIndex |-> next + k]
    <3>1. \A k \in FrameIndex : frame[k] = next + k
      BY <1>5 DEF ReadReturn, RingInv, CopyInv, FrameIndex
    <3>2. frame = [k \in FrameIndex |-> frame[k]]
      BY DEF RingTypeOK
    <3> QED BY <3>1, <3>2
  <2>2. running /\ next + FrameSize <= written /\ written <= next + RingSize
    BY <1>5 DEF ReadReturn, RingInv, CopyInv
  <2>3. Queue!HandOut
    BY <1>5, <2>1, <2>2 DEF ReadReturn, Queue!HandOut, Queue!FrameAt, FrameIndex
  <2> QED BY <2>3 DEF Queue!Next
<1>6. CASE Process
  <2>1. frame # << >>
    <3>1. 0 \in DOMAIN frame
      BY DEF RingTypeOK, FrameIndex
    <3> QED BY <3>1
  <2> QED BY <1>6, <2>1 DEF Process, Queue!Next, Queue!GiveBack
<1>7. CASE StartFails \/ FeedLock \/ FeedWrite \/ CleanupCall \/ CleanupJoin
  BY <1>7 DEF StartFails, FeedLock, FeedWrite, CleanupCall, CleanupJoin
<1>8. CASE ReadLock \/ ReadWait \/ SpuriousWakeup \/ ReadStop \/ ReadCopy
  BY <1>8 DEF ReadLock, ReadWait, SpuriousWakeup, ReadStop, ReadCopy
<1>9. ASSUME NEW n \in 1 .. MaxChunk, FeedCall(n) PROVE UNCHANGED Queue!vars
  BY <1>9 DEF FeedCall
<1>10. CASE UNCHANGED ringVars
  BY <1>10 DEF ringVars
<1> QED
  BY <1>1, <1>2, <1>3, <1>4, <1>5, <1>6, <1>7, <1>8, <1>9, <1>10
  DEF RingNext, MainNext, WorkerNext, Terminated

\* The ring, its lock and its condition variable implement the lossy queue:
\* frames come in order, and only the oldest unread samples are lost, when
\* more than a ring of them waits.
THEOREM RingImplementsQueue == RingSpec => ImplementsQueue
  BY QueueInit, QueueNext, RingTypeCorrect, RingInvHolds, PTL
  DEF RingSpec, ImplementsQueue, Queue!Spec

-----------------------------------------------------------------------------
(* Arithmetic of a buffer that holds a whole number of frames. *)

\* More frames are more samples.
LEMMA ProductMonotonic ==
  ASSUME NEW m \in Nat, NEW n \in Nat, NEW f \in Nat, m <= n
  PROVE  m * f <= n * f
<1>1. n * f = m * f + (n - m) * f
  OBVIOUS
<1>2. (n - m) * f >= 0
  OBVIOUS
<1> QED BY <1>1, <1>2

\* A buffer of whole frames that is not full has room for one.
LEMMA RoomForOne ==
  ASSUME NEW n \in Nat, n * FrameSamples < MaxUtterSamples
  PROVE  n * FrameSamples + FrameSamples <= MaxUtterSamples
<1> DEFINE k == MaxUtterSamples \div FrameSamples
<1>1. FrameSamples \in Nat /\ FrameSamples > 0 /\ MaxUtterSamples \in Nat
      /\ MaxUtterSamples % FrameSamples = 0
  BY SegmenterAssumption
<1>2. k \in Int /\ MaxUtterSamples = (FrameSamples * k) + (MaxUtterSamples % FrameSamples)
  BY <1>1
<1> HIDE DEF k
<1>3. MaxUtterSamples = k * FrameSamples
  BY <1>1, <1>2
<1>4. CASE n + 1 <= k
  <2>1. (n + 1) * FrameSamples <= k * FrameSamples
    BY <1>1, <1>2, <1>4, ProductMonotonic
  <2>2. (n + 1) * FrameSamples = n * FrameSamples + FrameSamples
    BY <1>1
  <2> QED BY <1>3, <2>1, <2>2
<1>5. CASE k <= n
  <2>1. k * FrameSamples <= n * FrameSamples
    <3>1. CASE k >= 0
      BY <1>1, <1>2, <1>5, <3>1, ProductMonotonic
    <3>2. CASE k < 0
      BY <1>1, <1>2, <3>2
    <3> QED BY <1>2, <3>1, <3>2
  <2> QED BY <1>1, <1>3, <2>1
<1> QED BY <1>2, <1>4, <1>5

-----------------------------------------------------------------------------
(* Sequences of frames. *)

\* What read_frame returns is a frame.
LEMMA FrameType == TypeOK => \A level \in Levels : Frame(level) \in Frames
  BY DEF TypeOK, Frame, Frames

\* Adding the newest frame to a run that ended with the one before it.
LEMMA AppendIsRun ==
  ASSUME TypeOK, NEW u \in Seq(Frames), IsRun(u, heard), NEW level \in Levels
  PROVE  IsRun(Append(u, Frame(level)), heard + 1)
<1> SUFFICES ASSUME NEW v, v = Append(u, Frame(level))
             PROVE  IsRun(v, heard + 1)
  OBVIOUS
<1>1. Len(v) = Len(u) + 1 /\ DOMAIN v = 1 .. Len(u) + 1 /\ DOMAIN u = 1 .. Len(u)
  BY FrameType
<1>2. \A i \in 1 .. Len(u) : v[i] = u[i]
  BY FrameType
<1>3. v[Len(u) + 1] = Frame(level) /\ Len(u) \in Nat
  BY FrameType
<1>4. heard \in Nat
  BY DEF TypeOK
<1>5. SUFFICES ASSUME NEW i \in DOMAIN v
               PROVE  v[i].at = (heard + 1) - Len(v) + i - 1
  BY <1>1, <1>3, <1>4 DEF IsRun
<1>6. CASE i \in 1 .. Len(u)
  BY <1>1, <1>2, <1>3, <1>4, <1>6 DEF IsRun
<1>7. CASE i = Len(u) + 1
  BY <1>1, <1>3, <1>4, <1>7 DEF Frame
<1> QED BY <1>1, <1>3, <1>5, <1>6, <1>7

\* Appending a frame, if it fits, gives a sequence of frames.
LEMMA ExtendedType ==
  ASSUME TypeOK, NEW level \in Levels
  PROVE  Extended(Frame(level)) \in Seq(Frames)
  BY FrameType DEF TypeOK, Extended

\* While the buffer has room, extending the utterance is appending to it.
LEMMA ExtendedIsAppend ==
  ASSUME NeverFull, in_speech, NEW level \in Levels
  PROVE  Extended(Frame(level)) = Append(utt, Frame(level))
  BY DEF NeverFull, Extended

\* Pushing a frame on the pre-roll gives a sequence of frames that is
\* not too long.
LEMMA PushPrerollType ==
  ASSUME TypeOK, Len(preroll) <= PrerollFrames, NEW level \in Levels
  PROVE  /\ PushPreroll(Frame(level)) \in Seq(Frames)
         /\ Len(PushPreroll(Frame(level))) <= PrerollFrames
<1>1. preroll \in Seq(Frames) /\ Frame(level) \in Frames /\ PrerollFrames \in Nat
      /\ PrerollFrames > 0 /\ Len(preroll) \in Nat
  BY FrameType, SegmenterAssumption DEF TypeOK
<1>2. CASE Len(preroll) < PrerollFrames
  BY <1>1, <1>2 DEF PushPreroll
<1>3. CASE Len(preroll) = PrerollFrames
  <2>1. Tail(preroll) \in Seq(Frames) /\ Len(Tail(preroll)) = Len(preroll) - 1
    BY <1>1, <1>3
  <2> QED BY <1>1, <1>3, <2>1 DEF PushPreroll
<1> QED BY <1>1, <1>2, <1>3

\* Shifting the pre-roll keeps it a run of the newest frames.
LEMMA PushPrerollIsRun ==
  ASSUME TypeOK, IsRun(preroll, heard), Len(preroll) <= PrerollFrames,
         NEW level \in Levels
  PROVE  IsRun(PushPreroll(Frame(level)), heard + 1)
<1>1. preroll \in Seq(Frames) /\ PrerollFrames \in Nat /\ PrerollFrames > 0
      /\ Len(preroll) \in Nat /\ heard \in Nat
  BY SegmenterAssumption DEF TypeOK
<1>2. CASE Len(preroll) < PrerollFrames
  BY <1>1, <1>2, AppendIsRun DEF PushPreroll
<1>3. CASE Len(preroll) = PrerollFrames
  <2>1. Tail(preroll) \in Seq(Frames) /\ Len(Tail(preroll)) = Len(preroll) - 1
        /\ \A i \in 1 .. Len(preroll) - 1 : Tail(preroll)[i] = preroll[i + 1]
    BY <1>1, <1>3
  <2>2. IsRun(Tail(preroll), heard)
    BY <1>1, <2>1 DEF IsRun
  <2> QED BY <1>1, <1>3, <2>1, <2>2, AppendIsRun DEF PushPreroll
<1> QED BY <1>1, <1>2, <1>3

-----------------------------------------------------------------------------
(* The invariant: types, unbroken runs of frames, and room for one more. *)

IInv == TypeOK /\ UtteranceIsStream /\ NeverFull

\* The worker starts with empty buffers.
LEMMA InitIInv == Init => IInv
<1> SUFFICES ASSUME Init PROVE IInv
  OBVIOUS
<1>1. TypeOK
  <2>1. Defaults \in Config
    BY ConfigAssumption
  <2>2. << >> \in Seq(Frames)
    OBVIOUS
  <2> QED BY <2>1, <2>2 DEF Init, TypeOK
<1>2. UtteranceIsStream
  BY SegmenterAssumption DEF Init, UtteranceIsStream, IsRun, NoUtterance
<1> QED BY <1>1, <1>2 DEF IInv, NeverFull, Init

\* Every frame and every change of settings keeps the invariant.
LEMMA NextIInv == IInv /\ [Next]_vars => IInv'
<1> SUFFICES ASSUME IInv, [Next]_vars PROVE IInv'
  OBVIOUS
<1> USE DEF IInv
<1>1. ASSUME NEW c \in Requests, Configure(c) PROVE IInv'
  <2>1. config' \in Config
    <3>1. /\ c.enabled \in BOOLEAN
          /\ c.silence_ms \in Int /\ c.min_speech_ms \in Int /\ c.max_sec \in Int
      BY ConfigAssumption
    <3>2. /\ Defaults.silence_ms \in Nat /\ Defaults.min_speech_ms \in Nat
          /\ Defaults.max_sec \in Nat
      BY ConfigAssumption DEF Config
    <3>3. \A v \in Int, d \in Nat : OrDefault(v, d) \in Nat
      BY DEF OrDefault
    <3>4. /\ OrDefault(c.silence_ms, Defaults.silence_ms) \in Nat
          /\ OrDefault(c.min_speech_ms, Defaults.min_speech_ms) \in Nat
          /\ OrDefault(c.max_sec, Defaults.max_sec) \in Nat
      BY <3>1, <3>2, <3>3
    <3> QED BY <1>1, <3>1, <3>4 DEF Configure, Config
  <2>2. TypeOK'
    BY <1>1, <2>1 DEF Configure, TypeOK
  <2> QED BY <1>1, <2>2 DEF Configure, UtteranceIsStream, NeverFull, IsRun, NoUtterance
<1>2. CASE DropFrame
  <2>1. TypeOK'
    <3>1. << >> \in Seq(Frames)
      OBVIOUS
    <3>2. heard' \in Nat
      BY <1>2 DEF DropFrame, ReadFrame, TypeOK
    <3> QED BY <1>2, <3>1, <3>2 DEF DropFrame, ReadFrame, TypeOK
  <2> QED
    BY <1>2, <2>1, SegmenterAssumption
    DEF DropFrame, UtteranceIsStream, NeverFull, IsRun, NoUtterance
<1>3. ASSUME NEW level \in Levels, KeepForPreroll(level) PROVE IInv'
  <2> DEFINE new == PushPreroll(Frame(level))
  <2>1. TypeOK /\ preroll \in Seq(Frames) /\ Len(preroll) <= PrerollFrames
        /\ IsRun(preroll, heard) /\ heard \in Nat /\ heard' = heard + 1
    BY <1>3 DEF UtteranceIsStream, TypeOK, KeepForPreroll, ReadFrame
  <2>2. new \in Seq(Frames) /\ Len(new) <= PrerollFrames
    BY <2>1, PushPrerollType
  <2>3. IsRun(new, heard + 1)
    BY <2>1, PushPrerollIsRun
  <2>4. preroll' = new
    BY <1>3 DEF KeepForPreroll
  <2>5. utt' = << >> /\ ~in_speech' /\ finished' = NoUtterance
    BY <1>3 DEF KeepForPreroll, UtteranceIsStream
  <2> HIDE DEF new
  <2>6. TypeOK'
    BY <1>3, <2>2, <2>4 DEF KeepForPreroll, ReadFrame, TypeOK
  <2>7. UtteranceIsStream'
    BY <2>1, <2>2, <2>3, <2>4, <2>5 DEF UtteranceIsStream, IsRun
  <2> QED BY <2>5, <2>6, <2>7 DEF NeverFull
<1>4. CASE StartUtterance
  <2> DEFINE new == Append(preroll, Frame("loud"))
  <2>1. TypeOK /\ preroll \in Seq(Frames) /\ Len(preroll) <= PrerollFrames
        /\ IsRun(preroll, heard) /\ heard \in Nat /\ heard' = heard + 1
    BY <1>4 DEF UtteranceIsStream, TypeOK, StartUtterance, ReadFrame
  <2>2. Frame("loud") \in Frames /\ "loud" \in Levels
    BY <2>1, FrameType DEF Levels
  <2>3. new \in Seq(Frames) /\ Len(new) = Len(preroll) + 1 /\ new # << >>
    BY <2>1, <2>2
  <2>4. IsRun(new, heard + 1)
    BY <2>1, <2>2, AppendIsRun
  <2>5. utt' = new /\ preroll' = << >> /\ in_speech' /\ finished' = NoUtterance
    BY <1>4 DEF StartUtterance
  <2> HIDE DEF new
  <2>6. TypeOK'
    BY <1>4, <2>3, <2>5 DEF StartUtterance, ReadFrame, TypeOK
  <2>7. UtteranceIsStream'
    BY <2>1, <2>3, <2>4, <2>5, SegmenterAssumption DEF UtteranceIsStream, IsRun
  <2>8. UttSamples(new) + FrameSamples <= MaxUtterSamples
    <3>1. Len(new) \in Nat /\ Len(new) <= PrerollFrames + 1
          /\ PrerollFrames + 1 \in Nat /\ FrameSamples \in Nat /\ MaxUtterSamples \in Nat
      BY <2>1, <2>3, SegmenterAssumption
    <3>2. Len(new) * FrameSamples <= (PrerollFrames + 1) * FrameSamples
      BY <3>1, ProductMonotonic
    <3>3. Len(new) * FrameSamples < MaxUtterSamples
      BY <3>1, <3>2, SegmenterAssumption
    <3> QED BY <3>1, <3>3, RoomForOne DEF UttSamples
  <2> QED BY <2>5, <2>6, <2>7, <2>8 DEF NeverFull, UttSamples
<1>5. ASSUME NEW level \in Levels, ContinueUtterance(level) PROVE IInv'
  <2> DEFINE new == Append(utt, Frame(level))
  <2>1. TypeOK /\ utt \in Seq(Frames) /\ IsRun(utt, heard) /\ preroll = << >>
        /\ heard \in Nat /\ heard' = heard + 1 /\ in_speech
    BY <1>5 DEF UtteranceIsStream, TypeOK, ContinueUtterance, ReadFrame
  <2>2. new \in Seq(Frames) /\ new # << >> /\ Len(new) \in Nat
    <3>1. Frame(level) \in Frames
      BY <2>1, FrameType
    <3>2. new \in Seq(Frames) /\ Len(new) = Len(utt) + 1 /\ Len(utt) \in Nat
      BY <2>1, <3>1
    <3> QED BY <3>2
  <2>3. IsRun(new, heard + 1)
    BY <2>1, AppendIsRun
  <2>4. Extended(Frame(level)) = new
    BY <2>1, ExtendedIsAppend
  <2>5. utt' = new /\ preroll' = << >> /\ in_speech' /\ finished' = NoUtterance
    BY <1>5, <2>1, <2>4 DEF ContinueUtterance
  <2>6. ~(UttSamples(new) >= MaxUtterSamples)
    BY <1>5, <2>4 DEF ContinueUtterance, EndOfUtterance
  <2> HIDE DEF new
  <2>7. TypeOK'
    <3>1. speech_frames' \in Nat /\ silence_run' \in Nat
      BY <1>5 DEF ContinueUtterance, SilenceAfter, SpeechAfter, TypeOK
    <3> QED BY <1>5, <2>2, <2>5, <3>1 DEF ContinueUtterance, ReadFrame, TypeOK
  <2>8. UtteranceIsStream'
    BY <2>1, <2>2, <2>3, <2>5, SegmenterAssumption DEF UtteranceIsStream, IsRun
  <2>9. UttSamples(new) + FrameSamples <= MaxUtterSamples
    <3>1. Len(new) * FrameSamples < MaxUtterSamples
      BY <2>2, <2>6, SegmenterAssumption DEF UttSamples
    <3> QED BY <2>2, <3>1, RoomForOne DEF UttSamples
  <2> QED BY <2>5, <2>7, <2>8, <2>9 DEF NeverFull, UttSamples
<1>6. ASSUME NEW level \in Levels, EndUtterance(level) PROVE IInv'
  <2> DEFINE new == Append(utt, Frame(level))
  <2>1. TypeOK /\ utt \in Seq(Frames) /\ IsRun(utt, heard) /\ preroll = << >>
        /\ heard \in Nat /\ heard' = heard + 1 /\ in_speech
    BY <1>6 DEF UtteranceIsStream, TypeOK, EndUtterance, ReadFrame
  <2>2. new \in Seq(Frames)
    BY <2>1, FrameType
  <2>3. IsRun(new, heard + 1)
    BY <2>1, AppendIsRun
  <2>4. Extended(Frame(level)) = new
    BY <2>1, ExtendedIsAppend
  <2>5. PICK verdict \in {"publish", "discard"} :
          finished' = [verdict |-> verdict, frames |-> new]
    BY <1>6, <2>4 DEF EndUtterance
  <2>6. utt' = << >> /\ preroll' = << >> /\ in_speech' = FALSE
    BY <1>6, <2>1 DEF EndUtterance
  <2> HIDE DEF new
  <2>7. TypeOK'
    <3>1. finished' \in [verdict : {"publish", "discard"}, frames : Seq(Frames)]
      BY <2>2, <2>5
    <3>2. utt' \in Seq(Frames) /\ preroll' \in Seq(Frames)
      BY <2>6
    <3>3. /\ config' = config /\ heard' \in Nat
          /\ speech_frames' = 0 /\ silence_run' = 0 /\ state' = "idle"
      BY <1>6, <2>1 DEF EndUtterance, ReadFrame
    <3> QED BY <2>1, <2>6, <3>1, <3>2, <3>3 DEF TypeOK
  <2>8. UtteranceIsStream'
    BY <2>1, <2>3, <2>5, <2>6, SegmenterAssumption DEF UtteranceIsStream, IsRun
  <2> QED BY <2>6, <2>7, <2>8 DEF NeverFull
<1>7. CASE UNCHANGED vars
  BY <1>7 DEF vars, TypeOK, UtteranceIsStream, NeverFull, IsRun
<1> QED
  BY <1>1, <1>2, <1>3, <1>4, <1>5, <1>6, <1>7 DEF Next

\* The invariant holds in every reachable state.
LEMMA IInvHolds == Spec => []IInv
  BY InitIInv, NextIInv, PTL DEF Spec

\* Every variable keeps its type.
THEOREM TypeCorrect == Spec => []TypeOK
<1>1. IInv => TypeOK
  BY DEF IInv
<1> QED BY <1>1, IInvHolds, PTL

\* Utterances and the pre-roll are unbroken runs of the newest frames.
THEOREM UtterancesAreUnbroken == Spec => []UtteranceIsStream
<1>1. IInv => UtteranceIsStream
  BY DEF IInv
<1> QED BY <1>1, IInvHolds, PTL

\* The utterance buffer has room for every frame the worker puts in it.
THEOREM BufferIsNeverFull == Spec => []NeverFull
<1>1. IInv => NeverFull
  BY DEF IInv
<1> QED BY <1>1, IInvHolds, PTL
-----------------------------------------------------------------------------
(* What the counters count. *)

HasLoud(u) == \E j \in 1 .. Len(u) : u[j].level = "loud"

\* The last n frames are quiet.
QuietEnd(u, n) == n <= Len(u) /\ \A i \in 1 .. Len(u) : i > Len(u) - n => u[i].level = "quiet"

\* The pre-roll is not speech, and from the first loud frame on the counters are right.
Counted ==
  /\ ~HasLoud(preroll)
  /\ in_speech =>
       /\ HasLoud(utt)
       /\ IsFiniteSet(SpeechIn(utt)) /\ speech_frames = Cardinality(SpeechIn(utt))
       /\ QuietEnd(utt, silence_run)

\* A frame is added.
LEMMA AppendedFrame ==
  ASSUME NEW u \in Seq(Frames), NEW f \in Frames
  PROVE  /\ Append(u, f) \in Seq(Frames)
         /\ Len(u) \in Nat /\ Len(Append(u, f)) = Len(u) + 1
         /\ DOMAIN u = 1 .. Len(u) /\ DOMAIN Append(u, f) = 1 .. Len(u) + 1
         /\ Append(u, f)[Len(u) + 1] = f
         /\ \A i \in 1 .. Len(u) : Append(u, f)[i] = u[i]
  OBVIOUS

\* A frame that is not quiet is one more of speech, if there was a loud one, or it is.
LEMMA SpeechInAppend ==
  ASSUME NEW u \in Seq(Frames), NEW f \in Frames, IsFiniteSet(SpeechIn(u)),
         HasLoud(u) \/ f.level = "loud"
  PROVE  LET n == Cardinality(SpeechIn(u))
             v == Append(u, f)
         IN  /\ HasLoud(v) /\ IsFiniteSet(SpeechIn(v))
             /\ Cardinality(SpeechIn(v)) = IF f.level = "quiet" THEN n ELSE n + 1
<1> DEFINE v == Append(u, f)  k == Len(u) + 1
<1>1. /\ Len(u) \in Nat /\ DOMAIN u = 1 .. Len(u) /\ DOMAIN v = 1 .. k /\ Len(v) = k
      /\ v[k] = f /\ \A i \in 1 .. Len(u) : v[i] = u[i]
  BY AppendedFrame
<1> HIDE DEF v
<1>2. HasLoud(v)
  BY <1>1 DEF HasLoud
<1>3. PICK l \in 1 .. k : v[l].level = "loud"
  BY <1>1, <1>2 DEF HasLoud
<1>4. k \in SpeechIn(v) <=> f.level # "quiet"
  BY <1>1, <1>3 DEF SpeechIn
<1>5. \A i \in 1 .. Len(u) : i \in SpeechIn(v) <=> i \in SpeechIn(u)
  BY <1>1 DEF SpeechIn
<1>6. SpeechIn(v) \subseteq 1 .. k /\ SpeechIn(u) \subseteq 1 .. Len(u) /\ k \notin SpeechIn(u)
  BY <1>1 DEF SpeechIn
<1>7. CASE f.level = "quiet"
  <2>1. \A i \in 1 .. k : i # k => i \in 1 .. Len(u)
    BY <1>1
  <2>2. \A i : i \in SpeechIn(v) <=> i \in SpeechIn(u)
    BY <1>4, <1>5, <1>6, <1>7, <2>1
  <2>3. SpeechIn(v) = SpeechIn(u)
    BY <2>2 DEF SpeechIn
  <2> QED BY <1>2, <1>7, <2>3 DEF v
<1>8. CASE f.level # "quiet"
  <2>1. SpeechIn(v) = SpeechIn(u) \cup {k}
    BY <1>1, <1>4, <1>5, <1>6, <1>8
  <2>2. IsFiniteSet(SpeechIn(v)) /\ Cardinality(SpeechIn(v)) = Cardinality(SpeechIn(u)) + 1
    BY <1>6, <2>1, FS_AddElement
  <2> QED BY <1>2, <1>8, <2>2 DEF v
<1> QED BY <1>7, <1>8

\* Without a loud frame nothing is speech.
LEMMA NoLoudNoSpeech ==
  ASSUME NEW u \in Seq(Frames), ~HasLoud(u)
  PROVE  SpeechIn(u) = {} /\ IsFiniteSet(SpeechIn(u)) /\ Cardinality(SpeechIn(u)) = 0
<1>1. Len(u) \in Nat /\ DOMAIN u = 1 .. Len(u)
  OBVIOUS
<1>2. SpeechIn(u) = {}
  BY <1>1 DEF HasLoud, SpeechIn
<1> QED BY <1>2, FS_EmptySet

\* The silence at the end gets longer, or there is none.
LEMMA QuietEndAppend ==
  ASSUME NEW u \in Seq(Frames), NEW f \in Frames, NEW n \in Nat, QuietEnd(u, n)
  PROVE  /\ f.level = "quiet" => QuietEnd(Append(u, f), n + 1)
         /\ QuietEnd(Append(u, f), 0)
<1> DEFINE v == Append(u, f)
<1>1. /\ Len(u) \in Nat /\ Len(v) = Len(u) + 1 /\ v[Len(u) + 1] = f
      /\ \A i \in 1 .. Len(u) : v[i] = u[i]
  BY AppendedFrame
<1> HIDE DEF v
<1>2. QuietEnd(v, 0)
  BY <1>1 DEF QuietEnd
<1>3. ASSUME f.level = "quiet" PROVE QuietEnd(v, n + 1)
  <2>1. \A i \in 1 .. Len(v) : i = Len(u) + 1 \/ i \in 1 .. Len(u)
    BY <1>1
  <2> QED BY <1>1, <1>3, <2>1 DEF QuietEnd
<1> QED BY <1>2, <1>3 DEF v

\* The pre-roll takes in a frame that is not loud.
LEMMA PushPrerollQuiet ==
  ASSUME TypeOK, ~HasLoud(preroll), NEW level \in Levels, level # "loud"
  PROVE  ~HasLoud(PushPreroll(Frame(level)))
<1>1. preroll \in Seq(Frames) /\ Frame(level) \in Frames /\ Frame(level).level # "loud"
      /\ PrerollFrames \in Nat /\ PrerollFrames > 0
  BY FrameType, SegmenterAssumption DEF TypeOK, Frame
<1>2. ASSUME NEW u \in Seq(Frames), ~HasLoud(u) PROVE ~HasLoud(Append(u, Frame(level)))
  <2>1. \A i \in 1 .. Len(Append(u, Frame(level))) :
          \/ i \in 1 .. Len(u) /\ Append(u, Frame(level))[i] = u[i]
          \/ Append(u, Frame(level))[i] = Frame(level)
    BY <1>1, AppendedFrame
  <2> QED BY <1>1, <1>2, <2>1 DEF HasLoud
<1>3. CASE Len(preroll) < PrerollFrames
  BY <1>1, <1>2, <1>3 DEF PushPreroll
<1>4. CASE ~(Len(preroll) < PrerollFrames)
  <2>1. Tail(preroll) \in Seq(Frames) /\ Len(preroll) \in Nat
        /\ Len(Tail(preroll)) = Len(preroll) - 1
        /\ \A i \in 1 .. Len(preroll) - 1 : Tail(preroll)[i] = preroll[i + 1]
    BY <1>1, <1>4
  <2>2. ~HasLoud(Tail(preroll))
    BY <2>1 DEF HasLoud
  <2> QED BY <1>2, <1>4, <2>1, <2>2 DEF PushPreroll
<1> QED BY <1>3, <1>4

\* The frame after: the counters fit the longer utterance.
LEMMA FrameCounted ==
  ASSUME IInv, Counted, in_speech, NEW level \in Levels
  PROVE  LET u == Extended(Frame(level))
         IN  /\ u \in Seq(Frames) /\ HasLoud(u) /\ IsFiniteSet(SpeechIn(u))
             /\ SpeechAfter(level) = Cardinality(SpeechIn(u))
             /\ SilenceAfter(level) \in Nat /\ QuietEnd(u, SilenceAfter(level))
<1>1. /\ utt \in Seq(Frames) /\ Frame(level) \in Frames /\ Frame(level).level = level
      /\ silence_run \in Nat /\ speech_frames \in Nat
  BY FrameType DEF IInv, TypeOK, Frame
<1>2. Extended(Frame(level)) = Append(utt, Frame(level))
  BY ExtendedIsAppend DEF IInv
<1>3. Append(utt, Frame(level)) \in Seq(Frames)
  BY <1>1, AppendedFrame
<1>4. /\ HasLoud(Append(utt, Frame(level))) /\ IsFiniteSet(SpeechIn(Append(utt, Frame(level))))
      /\ Cardinality(SpeechIn(Append(utt, Frame(level)))) = SpeechAfter(level)
  BY <1>1, SpeechInAppend DEF Counted, SpeechAfter
<1>5. SilenceAfter(level) \in Nat /\ QuietEnd(Append(utt, Frame(level)), SilenceAfter(level))
  BY <1>1, QuietEndAppend DEF Counted, SilenceAfter
<1> QED BY <1>2, <1>3, <1>4, <1>5

\* Every step keeps the counters right.
LEMMA NextCounted == IInv /\ Counted /\ [Next]_vars => Counted'
<1> SUFFICES ASSUME IInv, Counted, [Next]_vars PROVE Counted'
  OBVIOUS
<1>1. ASSUME NEW c \in Requests, Configure(c) PROVE Counted'
  BY <1>1 DEF Configure, Counted
<1>2. CASE DropFrame
  BY <1>2 DEF DropFrame, Counted, HasLoud
<1>3. ASSUME NEW level \in Levels, KeepForPreroll(level) PROVE Counted'
  <2>1. ~HasLoud(preroll')
    BY <1>3, PushPrerollQuiet DEF KeepForPreroll, Counted, IInv
  <2> QED BY <1>3, <2>1 DEF KeepForPreroll, Counted
<1>4. CASE StartUtterance
  <2> DEFINE f == Frame("loud")
  <2>1. preroll \in Seq(Frames) /\ f \in Frames /\ f.level = "loud"
    BY FrameType DEF IInv, TypeOK, Frame, Levels
  <2>2. /\ HasLoud(Append(preroll, f)) /\ IsFiniteSet(SpeechIn(Append(preroll, f)))
        /\ Cardinality(SpeechIn(Append(preroll, f))) = 1
    BY <2>1, NoLoudNoSpeech, SpeechInAppend DEF Counted
  <2>3. QuietEnd(preroll, 0)
    BY <2>1 DEF QuietEnd
  <2>4. QuietEnd(Append(preroll, f), 0)
    BY <2>1, <2>3, QuietEndAppend
  <2>5. ~HasLoud(<< >>)
    BY DEF HasLoud
  <2> QED BY <1>4, <2>2, <2>4, <2>5 DEF StartUtterance, Counted
<1>5. ASSUME NEW level \in Levels, ContinueUtterance(level) PROVE Counted'
  BY <1>5, FrameCounted DEF ContinueUtterance, Counted
<1>6. ASSUME NEW level \in Levels, EndUtterance(level) PROVE Counted'
  BY <1>6 DEF EndUtterance, Counted
<1>7. CASE UNCHANGED vars
  BY <1>7 DEF vars, Counted
<1> QED BY <1>1, <1>2, <1>3, <1>4, <1>5, <1>6, <1>7 DEF Next

\* The counters are right in every reachable state.
LEMMA CountedHolds == Spec => []Counted
<1>1. Init => Counted
  BY DEF Init, Counted, HasLoud
<1> QED BY <1>1, NextCounted, IInvHolds, PTL DEF Spec

\* What ends an utterance, and what comes of it otherwise.
LEMMA OnlyEndUtterance ==
  ASSUME [Next]_vars, finished' # NoUtterance
  PROVE  (\E level \in Levels : EndUtterance(level)) \/ UNCHANGED <<finished, config>>
  BY DEF Next, vars, Configure, DropFrame, KeepForPreroll, StartUtterance, ContinueUtterance

\* A finished utterance is transcribed exactly if the frames in it, not the counters
\* of transcribe_thread_func, hold the speech and have the length that are asked for.
THEOREM VerdictsAreRight == Spec => []VerdictIsRight
<1>1. Init => VerdictIsRight
  BY DEF Init, VerdictIsRight
<1>2. ASSUME IInv, Counted, VerdictIsRight, [Next]_vars PROVE VerdictIsRight'
  <2> SUFFICES ASSUME finished' # NoUtterance PROVE VerdictIsRight'
    BY DEF VerdictIsRight, NoUtterance
  <2>1. CASE UNCHANGED <<finished, config>>
    BY <1>2, <2>1 DEF VerdictIsRight, MinSpeechFrames, NoUtterance
  <2>2. ASSUME NEW level \in Levels, EndUtterance(level) PROVE VerdictIsRight'
    <3> DEFINE u == Extended(Frame(level))
    <3>1. /\ in_speech /\ config' = config /\ finished'.frames = u
          /\ finished'.verdict = IF Publishable(u, SpeechAfter(level)) THEN "publish" ELSE "discard"
      BY <2>2 DEF EndUtterance, ReadFrame
    <3>2. SpeechAfter(level) = Cardinality(SpeechIn(u))
      BY <1>2, <3>1, FrameCounted
    <3> QED BY <3>1, <3>2 DEF VerdictIsRight, Publishable, MinSpeechFrames
  <2> QED BY <1>2, <2>1, <2>2, OnlyEndUtterance
<1> QED BY <1>1, <1>2, IInvHolds, CountedHolds, PTL DEF Spec

-----------------------------------------------------------------------------
(* Why an utterance ends. *)

\* max_utterance_sec in samples fits the 32 bits of the product in every setting: where
\* it does not, the code takes a smaller maximum than the one that was set.
NoWrap ==
  /\ Defaults.max_sec * SampleRate < WordSize
  /\ \A c \in Requests : c.max_sec > 0 => c.max_sec * SampleRate < WordSize

Fits == config.max_sec * SampleRate < WordSize

\* What is set fits.
LEMMA NextFits == NoWrap /\ Fits /\ [Next]_vars => Fits'
<1> SUFFICES ASSUME NoWrap, Fits, [Next]_vars PROVE Fits'
  OBVIOUS
<1>1. ASSUME NEW c \in Requests, Configure(c) PROVE Fits'
  <2>1. \/ config'.max_sec = c.max_sec /\ c.max_sec > 0
        \/ config'.max_sec = Defaults.max_sec
    BY <1>1 DEF Configure, OrDefault
  <2> QED BY <2>1 DEF NoWrap, Fits
<1>2. CASE UNCHANGED config
  BY <1>2 DEF Fits
<1> QED
  BY <1>1, <1>2 DEF Next, vars, ReadFrame, DropFrame, KeepForPreroll, StartUtterance,
                    ContinueUtterance, EndUtterance

\* The maximum is the one that was set, or the buffer.
LEMMA CapIs ==
  ASSUME TypeOK, Fits
  PROVE  MaxSamplesNow \in {config.max_sec * SampleRate, MaxUtterSamples}
<1> DEFINE p == config.max_sec * SampleRate
<1>1. p \in Nat /\ WordSize \in Nat /\ WordSize > 0
  BY SegmenterAssumption DEF TypeOK, Config
<1>2. p < WordSize
  BY DEF Fits
<1> HIDE DEF p
<1>3. p % WordSize = p
  BY <1>1, <1>2
<1>4. (config.max_sec * SampleRate) % WordSize = p
  BY <1>3 DEF p
<1> QED BY <1>4 DEF MaxSamplesNow, p

\* Where the product of max_utterance_sec does not wrap, an utterance ends after the
\* silence that was set, at the maximum that was set, or with the buffer, and not sooner.
THEOREM UtterancesEndWhenSet == NoWrap => (Spec => []EndsOnSilenceOrCap)
<1> SUFFICES ASSUME NoWrap PROVE Spec => []EndsOnSilenceOrCap
  OBVIOUS
<1>1. Init => EndsOnSilenceOrCap
  BY DEF Init, EndsOnSilenceOrCap
<1>2. ASSUME IInv, Counted, Fits, EndsOnSilenceOrCap, [Next]_vars PROVE EndsOnSilenceOrCap'
  <2> SUFFICES ASSUME finished' # NoUtterance PROVE EndsOnSilenceOrCap'
    BY DEF EndsOnSilenceOrCap, NoUtterance
  <2>1. CASE UNCHANGED <<finished, config>>
    BY <1>2, <2>1 DEF EndsOnSilenceOrCap, HangFrames, NoUtterance
  <2>2. ASSUME NEW level \in Levels, EndUtterance(level) PROVE EndsOnSilenceOrCap'
    <3> DEFINE u == Extended(Frame(level))  n == SilenceAfter(level)
    <3>1. /\ in_speech /\ config' = config /\ finished'.frames = u
          /\ n >= HangFrames \/ UttSamples(u) >= MaxSamplesNow \/ UttSamples(u) >= MaxUtterSamples
      BY <2>2 DEF EndUtterance, ReadFrame, EndOfUtterance
    <3>2. u \in Seq(Frames) /\ n \in Nat /\ QuietEnd(u, n)
      BY <1>2, <3>1, FrameCounted
    <3>3. MaxSamplesNow \in {config.max_sec * SampleRate, MaxUtterSamples}
      BY <1>2, CapIs DEF IInv
    <3>4. HangFrames \in Int
      BY <1>2, SegmenterAssumption DEF IInv, TypeOK, Config, HangFrames, AtLeastOne
    <3>5. HangFrames' = HangFrames
      BY <3>1 DEF HangFrames
    <3> HIDE DEF u, n
    <3>6. CASE n >= HangFrames
      <4>1. Len(u) \in Nat /\ Len(u) >= HangFrames
        BY <3>2, <3>4, <3>6 DEF QuietEnd
      <4>2. \A i \in Len(u) - HangFrames + 1 .. Len(u) : i \in 1 .. Len(u) /\ i > Len(u) - n
        BY <3>2, <3>4, <3>6, <4>1
      <4>3. \A i \in Len(u) - HangFrames + 1 .. Len(u) : u[i].level = "quiet"
        BY <3>2, <4>2 DEF QuietEnd
      <4> QED BY <3>1, <3>5, <4>1, <4>3 DEF EndsOnSilenceOrCap
    <3>7. CASE UttSamples(u) >= MaxSamplesNow \/ UttSamples(u) >= MaxUtterSamples
      BY <3>1, <3>3, <3>7 DEF EndsOnSilenceOrCap
    <3> QED BY <3>1, <3>6, <3>7
  <2> QED BY <1>2, <2>1, <2>2, OnlyEndUtterance
<1>3. (Init => Fits) /\ (Fits /\ [Next]_vars => Fits')
  BY NextFits DEF NoWrap, Init, Fits
<1> QED BY <1>1, <1>2, <1>3, IInvHolds, CountedHolds, PTL DEF Spec
=============================================================================
