\* Two evaluation runs one after the other, the second with other chunker settings; no
\* other process ingests.
SPECIFICATION EvalSpec
CONSTANTS
  d1 = d1
  d2 = d2
  n1 = n1
  n2 = n2
  coarse = coarse
  fine = fine
  w1 = w1
  w2 = w2
  w3 = w3
  NotStored = NotStored
  NoReport = NoReport
  Docs <- MCDocs
  NameOf <- MCNameOf
  Indices <- MCIndices
  Labels <- MCNames
  Shown <- MCShown
  Matchable <- MCNames
  Scores <- MCScores
  Threshold = 0
  TopK = 2
  MaxMarkers = 1
  Settings <- MCSettings
  OtherSettings <- MCNoSettings
  Pieces <- MCPieces
  Words <- MCWords
  Dataset <- MCOneRow
  MaxRuns = 2
INVARIANT ReportRecordsItsChunking
CHECK_DEADLOCK FALSE
