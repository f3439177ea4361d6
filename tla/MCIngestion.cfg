\* Safety and refinement: two runs, each started up to twice, one kill, one change
\* of a file.  The runs stop after their last attempt: no deadlock check.
SPECIFICATION Spec
CONSTANTS
  seed = seed
  eval = eval
  tuned = tuned
  a = a
  b = b
  bad = bad
  Absent = Absent
  Runs <- MCRuns
  Seeds <- MCSeeds
  Paths <- MCPaths
  Pdfs <- MCPdfs
  Dir <- MCDir
  Contents <- MCContents
  Rejected <- MCBad
  Malformed <- MCNobody
  BadConfig <- MCNobody
  MaxAttempts = 2
  MaxCrashes = 1
  MaxEdits = 1
SYMMETRY MCSymmetry
INVARIANT TypeOK
INVARIANT UniqueContentHash
INVARIANT AllOrNothing
INVARIANT CommittedRunCovers
INVARIANT SoloRunNeverConflicts
INVARIANT TextIsOfHash
INVARIANT NewWereConsidered
PROPERTY RunsGoForward
PROPERTY ImplementsStore
CHECK_DEADLOCK FALSE
