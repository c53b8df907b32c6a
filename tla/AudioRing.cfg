\* A ring of two and a half frames; chunks up to more than a frame; enough
\* samples for the worker to fall behind by more than the ring twice.
CONSTANTS
  RingSize = 5
  FrameSize = 2
  MaxChunk = 3
  MaxWritten = 12
SPECIFICATION FairSpec
INVARIANTS
  NoLostWakeup
PROPERTIES
  NobodyWaitsForEver
  ImplementsQueue
