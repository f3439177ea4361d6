\* All texts of up to 4 words of 1 to 3 characters, with every structure of sentences and
\* paragraphs, texts of 5 short words and one of 7 single characters; words, sentences and
\* paragraphs longer than chunk_size occur, and every chunk_overlap on both sides of
\* chunk_size // 2.  The chunker stops: no deadlock check.
SPECIFICATION FairSpec
CONSTANTS
  Texts <- MCTexts
  Settings <- MCSettings
  MaxWords = 4
  MaxLen = 3
  MaxShort = 5
  MaxSingle = 7
  MaxSize = 7
INVARIANT TypeOK
INVARIANT CoarsestUnits
INVARIANT ChunksFit
INVARIANT ChunksAreFull
INVARIANT OverlapIsExact
INVARIANT InThreeChunksAtMost
PROPERTY EveryTurnProgresses
PROPERTY ImplementsChunking
PROPERTY Terminates
CHECK_DEADLOCK FALSE
