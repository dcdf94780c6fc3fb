SPECIFICATION FairSpec
CONSTANTS
  MaxChunks = 1
  Batches = {b1}
  PeerOps = {"BEGIN", "WRITE", "COMMIT", "SIMPLE", "SELFTEST"}
  PeerModes = {FALSE}
  NoBatch = NoBatch
  BadFile = BadFile
PROPERTIES
  FileRequestsAnswered
  ForecastsAnswered
  FormatsAnswered
