SPECIFICATION FairSpec
CONSTANTS
  Ids = {1, 2}
  Dates = {1, 2}
  MaxCount = 2
  NoBatch = NoBatch
INVARIANTS
  TypeOK
  PermitEarned
  ConfirmedIsKept
PROPERTY AllAnswered
