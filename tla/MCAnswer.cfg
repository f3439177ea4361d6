\* One question over every corpus of up to eight chunks, two of them retrieved, texts with
\* up to two markers.  The question ends: no deadlock check.
SPECIFICATION Spec
CONSTANTS
  d1 = d1
  d2 = d2
  d3 = d3
  d4 = d4
  plain = plain
  special = special
  escaped = escaped
  bracketed = bracketed
  Docs <- MCDocs
  NameOf <- MCNameOf
  Indices <- MCIndices
  Labels <- MCLabels
  Shown <- MCShown
  Matchable <- MCMatchable
  Scores <- MCScores
  Threshold = 2
  TopK = 2
  MaxMarkers = 2
INVARIANT CitationsAreRetrieved
INVARIANT CitationsInOrder
INVARIANT NamedIsCited
INVARIANT MissingMeansUnnamed
INVARIANT ShownIsCited
CHECK_DEADLOCK FALSE
