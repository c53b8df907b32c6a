\* Eight frames to the buffer: enough for an utterance that fills it, or for
\* two short ones with settings changed or listening switched off in between.
CONSTANTS
  SampleRate = 8
  FrameMs = 250
  FrameSamples = 2
  PrerollFrames = 2
  MaxUtterSamples = 16
  MinUtterMs = 750
  WordSize = 64
  Requests <- MCRequests
  Defaults <- MCDefaults
  MaxFrames = 10
SPECIFICATION Spec
INVARIANTS
  UtteranceIsStream
  VerdictIsRight
  EndsOnSilenceOrCap
