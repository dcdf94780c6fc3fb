SPECIFICATION Spec
CONSTANTS
  Ids = {1, 2}
  Dates = {1, 2}
  MaxCount = 2
  NoBatch = NoBatch
INVARIANT ConfirmedIsOnFlash
