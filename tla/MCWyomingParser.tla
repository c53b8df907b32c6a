-------------------------- MODULE MCWyomingParser --------------------------
(***************************************************************************)
(* What servers send, for the bounded instances of WyomingParser.          *)
(***************************************************************************)
EXTENDS WyomingParser

Message(type, data, payload) == [type |-> type, data |-> data, payload |-> payload]

Info       == Message("info", TRUE, 0)
Transcript == Message("transcript", TRUE, 0)
Fault      == Message("error", TRUE, 0)
Start      == Message("audio-start", TRUE, 0)
Chunk(n)   == Message("audio-chunk", TRUE, n)
Stop       == Message("audio-stop", FALSE, 0)

\* A recogniser's and a speaker's answers, and more of them on a connection
\* than the protocol needs.
MCStreams ==
  {<<Info, Transcript>>, <<Fault, Info, Transcript, Info>>,
   <<Start, Chunk(5), Chunk(1), Stop>>, <<Start, Chunk(2), Start, Chunk(3), Stop>>}
=============================================================================
