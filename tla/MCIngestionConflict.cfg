\* The seed CLI and the evaluation runner at the same time, nothing else goes wrong.
SPECIFICATION Spec
CONSTANTS
  seed = seed
  eval = eval
  tuned = tuned
  a = a
  b = b
  bad = bad
  Absent = Absent
  Runs <- MCRuns
  Seeds <- MCSeeds
  Paths <- MCPaths
  Pdfs <- MCPdfs
  Dir <- MCDir
  Contents <- MCContents
  Rejected <- MCBad
  Malformed <- MCNobody
  BadConfig <- MCNobody
  MaxAttempts = 1
  MaxCrashes = 0
  MaxEdits = 0
INVARIANT NeverFailsOnUniqueConstraint
CHECK_DEADLOCK FALSE
