SPECIFICATION Spec
CONSTANTS
  Lines = 1
  Texts <- ReportTexts
  Reports <- AlertReports
  MaxId = 1
  MaxTime = 2
  MaxFaults = 2
  Readers = {r1}
INVARIANT OwnReportShown
