SPECIFICATION Spec
CONSTANTS
  MaxChunks = 0
  Batches = {b1,b2}
  PeerOps = {"BEGIN", "COMMIT", "FORMAT"}
  PeerModes = {FALSE, TRUE}
  NoBatch = NoBatch
  BadFile = BadFile
SYMMETRY BatchSymmetry
INVARIANTS
  TypeOK
  OneOwner
  UploadOwned
  AnswerIsOwn
  NoLostWake
  SleepOnlyWhenIdle
  VetoRecomputed
  SavedIsDurable
PROPERTY PublishAfterRename
