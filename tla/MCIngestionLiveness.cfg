\* Liveness: three runs, one attempt each, one of them with a refused chunker
\* configuration; bad is a PDF pypdf cannot open.  The runs end: no deadlock check.
SPECIFICATION FairSpec
CONSTANTS
  seed = seed
  eval = eval
  tuned = tuned
  a = a
  b = b
  bad = bad
  Absent = Absent
  Runs <- MCThreeRuns
  Seeds <- MCSeeds
  Paths <- MCPaths
  Pdfs <- MCPdfs
  Dir <- MCThreeDir
  Contents <- MCContents
  Rejected <- MCNobody
  Malformed <- MCBad
  BadConfig <- MCTuned
  MaxAttempts = 1
  MaxCrashes = 0
  MaxEdits = 0
INVARIANT SomeRunCanGoOn
PROPERTY EveryRunEnds
CHECK_DEADLOCK FALSE
