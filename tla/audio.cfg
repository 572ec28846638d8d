\* An odd buffer against descriptors of one frame, buses that may not be set up.
CONSTANTS
  BufWords = 3
  DmaWords = 2
  DmaDescs = 2
  Timeouts = FALSE
SPECIFICATION FairSpec
INVARIANTS
  TypeOK
  OutAsIn
PROPERTIES
  SoundFlows
