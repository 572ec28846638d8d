\* The client task and a sender; frames of no, one and two reads.
CONSTANTS
  Client = client
  Senders = {s1}
  None = none
  BufferSize = 2
  Sizes = {0, 3}
  QueueSize = 1
SPECIFICATION FairSpec
INVARIANTS
  TypeOK
  ChunkIntact
  ChunksTile
PROPERTIES
  DispatchReturns
  StopHeard
