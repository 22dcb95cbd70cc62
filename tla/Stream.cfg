SPECIFICATION FairSpec
CONSTANTS
  MaxChunks = 3
  KeepAliveMax = 2
INVARIANTS BodyIsPrefix CutHasCause TerminatedOnlyByFailure OneChunkAfterStop
PROPERTIES RefinesConnection QueryReleased
