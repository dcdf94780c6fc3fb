SPECIFICATION Spec
CONSTANTS
  Lines = 1
  Texts <- ReportTexts
  Reports <- LaterReports
  MaxId = 2
  MaxTime = 2
  MaxFaults = 0
  Readers = {r1}
INVARIANT AnnouncedInForce
