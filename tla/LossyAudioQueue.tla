-------------------------- MODULE LossyAudioQueue --------------------------
(***************************************************************************)
(* What the microphone buffer between the capture callback and the         *)
(* transcription worker promises: a queue of stream positions that hands   *)
(* out whole frames of consecutive samples in order, and that forgets its  *)
(* oldest samples, never others, when more than Capacity of them wait.     *)
(* AudioRing, the shared array, lock and condition variable of             *)
(* whisper_stt.c, is shown to implement it.                                *)
(***************************************************************************)
EXTENDS Integers

CONSTANTS
  Capacity,   \* samples kept for a consumer that lags
  FrameSize   \* samples in a frame

VARIABLES
  open,       \* samples are accepted and frames handed out
  accepted,   \* samples accepted so far: positions 0 .. accepted - 1
  cursor,     \* position of the next sample to hand out
  frame       \* the frame the consumer holds, NoFrame when it holds none

vars == <<open, accepted, cursor, frame>>

NoFrame == << >>

FrameAt(p) == [k \in 0 .. FrameSize - 1 |-> p + k]

Init ==
  /\ open = FALSE
  /\ accepted = 0
  /\ cursor = 0
  /\ frame = NoFrame

Open ==
  /\ ~open
  /\ open' = TRUE
  /\ UNCHANGED <<accepted, cursor, frame>>

Accept ==
  /\ open
  /\ accepted' \in Nat
  /\ accepted' > accepted
  /\ UNCHANGED <<open, cursor, frame>>

\* Only what no longer fits is forgotten.
DropOldest ==
  /\ open
  /\ accepted > cursor + Capacity
  /\ cursor' = accepted - Capacity
  /\ UNCHANGED <<open, accepted, frame>>

HandOut ==
  /\ open
  /\ frame = NoFrame
  /\ cursor + FrameSize <= accepted
  /\ accepted <= cursor + Capacity
  /\ frame' = FrameAt(cursor)
  /\ cursor' = cursor + FrameSize
  /\ UNCHANGED <<open, accepted>>

GiveBack ==
  /\ frame # NoFrame
  /\ frame' = NoFrame
  /\ UNCHANGED <<open, accepted, cursor>>

Close ==
  /\ open
  /\ open' = FALSE
  /\ UNCHANGED <<accepted, cursor, frame>>

Next == Open \/ Accept \/ DropOldest \/ HandOut \/ GiveBack \/ Close

Spec == Init /\ [][Next]_vars
=============================================================================
