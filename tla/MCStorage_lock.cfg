SPECIFICATION Spec
CONSTANTS
  MaxChunks = 0
  Batches = {b1}
  PeerOps = {"BEGIN"}
  PeerModes = {FALSE}
  NoBatch = NoBatch
  BadFile = BadFile
INVARIANT LockFreeAtConsole
