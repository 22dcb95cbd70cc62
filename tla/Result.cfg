SPECIFICATION Spec
CONSTANTS
  NumTasks = 2
  Workers = 2
  PartialChunks = 1
  NumBatches = 3
  MaxPer = 2
  QueueCap = 1
  BufferCap = 1
  NumChunks = 3
  MaxBytes = 2
  BufferSize = 2
INVARIANTS BufferSound MemoryBounded BlockedIsKnown NothingLeft
PROPERTIES ImplementsChunkStream FetchReturns
