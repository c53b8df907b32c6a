---------------------------- MODULE MCSegmenter ----------------------------
(***************************************************************************)
(* Settings for the bounded instances of Segmenter.  The clock is scaled   *)
(* down: 250 ms frames of two samples, an utterance buffer of two seconds, *)
(* and words of 64 values for the 32-bit product.                          *)
(***************************************************************************)
EXTENDS Segmenter

Settings(on, silence, speech, sec) ==
  [enabled |-> on, silence_ms |-> silence, min_speech_ms |-> speech, max_sec |-> sec]

MCDefaults == Settings(TRUE, 500, 500, 2)

\* Defaults asked for with 0 or less; a silence shorter than a frame; a maximum below,
\* at and beyond the buffer; listening switched off.
MCRequests ==
  {Settings(TRUE, 0, -1, 0), Settings(TRUE, 100, 250, 1), Settings(TRUE, 750, 1000, 3),
   Settings(FALSE, 500, 500, 1)}
=============================================================================
