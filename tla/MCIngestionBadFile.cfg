\* The seed CLI alone, nothing changes on disk, no kill: bad is a PDF pypdf cannot open.
SPECIFICATION Spec
CONSTANTS
  seed = seed
  eval = eval
  tuned = tuned
  a = a
  b = b
  bad = bad
  Absent = Absent
  Runs <- MCSeeds
  Seeds <- MCSeeds
  Paths <- MCPaths
  Pdfs <- MCPdfs
  Dir <- MCSeedDir
  Contents <- MCContents
  Rejected <- MCNobody
  Malformed <- MCBad
  BadConfig <- MCNobody
  MaxAttempts = 2
  MaxCrashes = 0
  MaxEdits = 0
INVARIANT BadFileDoesNotAbort
CHECK_DEADLOCK FALSE
