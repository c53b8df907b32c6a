\* A buffer that holds a message but not always the chunk behind it; chunks
\* from one byte to a whole message and the start of the next.
CONSTANTS
  Streams <- MCStreams
  HeaderSize = 3
  DataSize = 2
  BufferSize = 9
  MaxChunk = 8
SPECIFICATION ParserSpec
INVARIANTS
  CutsDoNotMatter
  HandledInOrder
PROPERTY PollReturns
