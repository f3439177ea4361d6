\* The seed CLI alone, run twice, with one change of a file.
SPECIFICATION Spec
CONSTANTS
  seed = seed
  eval = eval
  tuned = tuned
  a = a
  b = b
  bad = bad
  Absent = Absent
  Runs <- MCSeeds
  Seeds <- MCSeeds
  Paths <- MCPaths
  Pdfs <- MCPdfs
  Dir <- MCSeedDir
  Contents <- MCContents
  Rejected <- MCBad
  Malformed <- MCNobody
  BadConfig <- MCNobody
  MaxAttempts = 2
  MaxCrashes = 0
  MaxEdits = 1
INVARIANT SeedRecreates
CHECK_DEADLOCK FALSE
