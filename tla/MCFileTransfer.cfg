SPECIFICATION FairSpec
CONSTANTS
  a = a
  b = b
  Absent = Absent
  Spoiled = Spoiled
  Chunks <- TheChunks
  Uploads <- OneChunk
  Sessions = 2
  Entries = 1
  LineMax = 1
  Cuts = 1
INVARIANTS TypeOK ExecutedOnce AnswerIsOwn NothingLeftOpen
PROPERTIES ImplementsAtomicFile AbandonedSessionEnds
