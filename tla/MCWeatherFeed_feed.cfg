SPECIFICATION FairSpec
CONSTANTS
  Lines = 2
  Texts <- ReportTexts
  Reports <- AlertReports
  MaxId = 2
  MaxTime = 2
  MaxFaults = 2
  Readers = {r1}
INVARIANTS
  TypeOK
  DrawsWhatItSaw
  HostTold
  AttentionPoints
PROPERTIES
  PublishedOnce
  AnnouncementIsNew
  UploadFinishes
