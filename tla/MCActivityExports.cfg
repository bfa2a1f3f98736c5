SPECIFICATION FairSpec
CONSTANTS
  w1 = w1  w2 = w2  d1 = d1  d2 = d2
  Workers <- MCWorkers
  Downloads <- MCDownloads
INVARIANTS
  TypeOK
  DownloadIsWhole
  ReadyIsFinal
PROPERTY ExportEnds
CONSTRAINT Bound
CHECK_DEADLOCK FALSE
