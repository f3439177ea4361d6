------------------------------ MODULE Chunker ------------------------------
(***************************************************************************)
(* RecursiveCharacterChunker: _explode, as Explode says, and then _pack,   *)
(* which packs the units into chunks.  A chunk, and the list `current` of  *)
(* the loop, are ranges of consecutive units; `at` gives the lengths of    *)
(* the units joined by single spaces.                                      *)
(***************************************************************************)
EXTENDS Explode

VARIABLES
  i,        \* the loop's index: the next unit
  lo,       \* current is the units lo..i - 1
  chunks    \* the chunks emitted: records [lo, hi]

packed == <<i, lo, chunks>>
vars == <<input, pc, exploded, packed>>

(* The number of units.                                                    *)
units == Len(at) - 1

(* Length of the units j..k joined by single spaces.                       *)
JoinLen(j, k) == at[k + 1] - at[j] - 1

Chunk == [lo: 1..units, hi: 1..units]

Init ==
  /\ ExplodeInit
  /\ i = 1
  /\ lo = 1
  /\ chunks = <<>>

-----------------------------------------------------------------------------
(* Mutant of Overflows: the space before the unit is not counted.          *)
OverflowsNoSpace == lo < i /\ JoinLen(lo, i) > config.size + 1

(* Mutant of Overflows: a chunk of exactly chunk_size counts as too long.  *)
OverflowsEarly == lo < i /\ JoinLen(lo, i) >= config.size

(* The unit at the index would make a non-empty current too long.          *)
Overflows == lo < i /\ JoinLen(lo, i) > config.size

(* Mutant of IsSeed: the overlap is compared before the unit is added.     *)
IsSeedLate(s) ==
  /\ s = i - 1 \/ JoinLen(s + 1, i - 1) <= config.overlap
  /\ s = lo \/ JoinLen(s, i - 1) > config.overlap

(* Where _seed_overlap's backwards walk over current ends: the last unit   *)
(* is always taken, and it stops before the unit that exceeds the overlap. *)
IsSeed(s) ==
  /\ s = i - 1 \/ JoinLen(s, i - 1) <= config.overlap
  /\ s = lo \/ JoinLen(s - 1, i - 1) > config.overlap

(* Mutant of Seeded: the seed may be all of current.                       *)
SeededWhole(s) ==
  IF config.overlap <= 0 THEN s = i ELSE s \in lo..(i - 1) /\ IsSeed(s)

(* The next current starts at s: with the seed if that is shorter than     *)
(* current was, and empty otherwise.                                       *)
Seeded(s) ==
  \/ s = i /\ (config.overlap <= 0 \/ IsSeed(lo))
  \/ s \in (lo + 1)..(i - 1) /\ config.overlap > 0 /\ IsSeed(s)

Emit ==
  /\ pc = "pack"
  /\ i <= units
  /\ Overflows
  /\ chunks' = Append(chunks, [lo |-> lo, hi |-> i - 1])
  /\ lo' \in {s \in lo..i : Seeded(s)}
  /\ UNCHANGED <<input, exploded, pc, i>>

(* Mutant of Take: the index is not advanced.                              *)
TakeForgets == pc = "pack" /\ i <= units /\ ~Overflows /\ UNCHANGED vars

Take ==
  /\ pc = "pack"
  /\ i <= units
  /\ ~Overflows
  /\ i' = i + 1
  /\ UNCHANGED <<input, exploded, pc, lo, chunks>>

(* Mutant of Finish: current is emitted also when it is empty.             *)
FinishAlways ==
  /\ pc = "pack"
  /\ i = units + 1
  /\ chunks' = Append(chunks, [lo |-> lo, hi |-> i - 1])
  /\ lo' = i
  /\ pc' = "done"
  /\ UNCHANGED <<input, exploded, i>>

(* After the loop: what is left in current is the last chunk.              *)
Finish ==
  /\ pc = "pack"
  /\ i = units + 1
  /\ chunks' = IF lo < i THEN Append(chunks, [lo |-> lo, hi |-> i - 1]) ELSE chunks
  /\ lo' = i
  /\ pc' = "done"
  /\ UNCHANGED <<input, exploded, i>>

Next ==
  \/ ExplodeNext /\ UNCHANGED packed
  \/ Emit \/ Take \/ Finish

Spec == Init /\ [][Next]_vars

(* The loop is sequential code: it goes on.                                *)
FairSpec == Spec /\ WF_vars(Next)

-----------------------------------------------------------------------------
(***************************************************************************)
(* Properties.                                                             *)
(***************************************************************************)
(* The variables have their types, and current is a range of the units     *)
(* the loop has passed.                                                    *)
TypeOK ==
  /\ IsText(text)
  /\ config \in [size: Int, overlap: Int]
  /\ pc \in {"new", "refused", "paragraphs", "sentences", "words", "pack", "done"}
  /\ w \in 1..(words + 1)
  /\ spans \in Seq([first: 1..words, last: 1..words])
  /\ IsLayout(at)
  /\ units = Len(spans)
  /\ i \in 1..(units + 1)
  /\ lo \in 1..i
  /\ chunks \in Seq(Chunk)

(* No chunk is longer than chunk_size, except one word that is by itself:  *)
(* not even a sentence that is too long is ever a chunk.                   *)
ChunksFit ==
  \A k \in 1..Len(chunks) :
    \/ /\ chunks[k].lo = chunks[k].hi
       /\ spans[chunks[k].lo].first = spans[chunks[k].lo].last
    \/ JoinLen(chunks[k].lo, chunks[k].hi) <= config.size

(* Nothing of the text is lost: the first chunk starts with the first      *)
(* unit, each chunk starts no later than after the end of the one before,  *)
(* and the last one ends with the text.                                    *)
TextIsCovered ==
  /\ \A k \in 1..Len(chunks) :
       IF k = 1 THEN chunks[k].lo = 1
       ELSE chunks[k].lo <= chunks[k - 1].hi + 1 /\ chunks[k - 1].hi <= chunks[k].hi
  /\ pc = "done" =>
       IF units = 0 THEN chunks = <<>>
       ELSE chunks # <<>> /\ chunks[Len(chunks)].hi = units

(* Each chunk starts after the start of the one before: however large the  *)
(* overlap, a text has at most as many chunks as units.                    *)
StartsIncrease ==
  \A j, k \in 1..Len(chunks) : j < k => chunks[j].lo < chunks[k].lo

(* What two consecutive chunks share is at most chunk_overlap characters,  *)
(* or exactly one unit.                                                    *)
SharedIsBounded ==
  \A k \in 1..(Len(chunks) - 1) :
    LET first == chunks[k + 1].lo
        last  == chunks[k].hi
    IN  first < last => JoinLen(first, last) <= config.overlap

(* A chunk ends because the next unit would not fit: text is not cut into  *)
(* more chunks than the greedy loop has to make.                           *)
ChunksAreFull ==
  \A k \in 1..(Len(chunks) - 1) :
    /\ chunks[k].hi < units
    /\ JoinLen(chunks[k].lo, chunks[k].hi + 1) > config.size

(* Consecutive chunks share as much as chunk_overlap allows: one more unit *)
(* would be too long.  They share nothing only if no overlap is wanted or  *)
(* what would be shared is all of the earlier chunk.                       *)
OverlapIsFull ==
  \A k \in 1..(Len(chunks) - 1) :
    LET first == chunks[k + 1].lo
        prev  == chunks[k]
    IN  IF first <= prev.hi
        THEN first > prev.lo /\ JoinLen(first - 1, prev.hi) > config.overlap
        ELSE \/ config.overlap <= 0
             \/ prev.lo = prev.hi
             \/ JoinLen(prev.lo, prev.hi) <= config.overlap

(* The overlap is what the setting asks for: not more, and not less.       *)
OverlapIsExact == SharedIsBounded /\ OverlapIsFull

(* No text is stored in more than three chunks, two of them the overlaps   *)
(* on its two sides: since the constructor refuses an overlap of more than *)
(* half of chunk_size, the overlap does not silently multiply the chunks.  *)
InThreeChunksAtMost ==
  \A k \in 1..(Len(chunks) - 3) : chunks[k].hi < chunks[k + 3].lo

(* Each step takes a word, a unit, or starts current at a later unit, or   *)
(* goes on to a later or deeper loop, and none is ever undone: the turn of *)
(* the packing loop that only re-seeds cannot repeat for ever.             *)
Stage ==
  [new |-> 0, paragraphs |-> 1, sentences |-> 2, words |-> 3, pack |-> 4,
   done |-> 5, refused |-> 5]

EveryTurnProgresses ==
  [][/\ w' >= w /\ i' >= i /\ lo' >= lo
     /\ w' > w \/ i' > i \/ lo' > lo \/ Stage[pc'] > Stage[pc]]_vars

(* What a caller sees: whether the call is over, and then the words of     *)
(* each chunk.                                                             *)
Status == IF pc \in {"refused", "done"} THEN pc ELSE "working"

PartFrom(c) ==
  [first |-> spans[c.lo].first, last |-> spans[c.hi].last, length |-> JoinLen(c.lo, c.hi)]

Result ==
  IF pc = "done" THEN [k \in 1..Len(chunks) |-> PartFrom(chunks[k])] ELSE <<>>

Caller == INSTANCE Chunking WITH status <- Status, result <- Result

(* The loops keep what `chunk` promises of the words of the text.          *)
ImplementsChunking == Caller!ChunkingSpec

(* The chunker returns or refuses its settings: both loops come to an end. *)
Terminates == <>(pc \in {"refused", "done"})

=============================================================================
