--------------------------- MODULE ChunkingProofs ---------------------------
(***************************************************************************)
(* What ChunkerProofs says of the chunks, put together, for every text and *)
(* every setting: chunks and overlaps are as long as they may be, nothing  *)
(* is in more than three chunks, and what the caller gets is what Chunking *)
(* promises.                                                               *)
(***************************************************************************)
EXTENDS ChunkerProofs, NaturalExtremes

-----------------------------------------------------------------------------
(* Settings.  What is being chunked was not refused.                       *)
AcceptedInv == Typed /\ (pc \notin {"new", "refused"} => ~Refused)

LEMMA Accepted == Spec => []AcceptedInv
<1>1. Init => AcceptedInv
  BY InitTyped DEF Init, ExplodeInit, AcceptedInv
<1>2. AcceptedInv /\ [Next]_vars => AcceptedInv'
  <2> SUFFICES ASSUME AcceptedInv, [Next]_vars
               PROVE  pc' \notin {"new", "refused"} => ~Refused'
    BY NextTyped DEF AcceptedInv
  <2>1. config' = config
    BY DEF Next, ExplodeNext, Construct, TakeParagraph, SplitParagraph, TakeSentence,
           SplitSentence, TakeWord, Exploded, Unit, Emit, Take, Finish, vars, input
  <2>2. pc \in {"new", "refused"} => pc' \in {"new", "refused"} \/ ~Refused
    BY DEF Next, ExplodeNext, Construct, TakeParagraph, SplitParagraph, TakeSentence,
           SplitSentence, TakeWord, Exploded, Emit, Take, Finish, vars
  <2> QED
    BY <2>1, <2>2 DEF AcceptedInv, Refused
<1> QED
  BY <1>1, <1>2, PTL DEF Spec

-----------------------------------------------------------------------------
(* Full chunks.  Inductive with: while the loop runs, the last chunk, too, *)
(* ended because the next unit did not fit.                                *)
IsFull(c) == c.hi < units /\ JoinLen(c.lo, c.hi + 1) > config.size

AllFull == pc = "pack" => \A k \in 1..Len(chunks) : IsFull(chunks[k])

FullInv == Typed /\ AllFull /\ ChunksAreFull

LEMMA NextFull == FullInv /\ [Next]_vars => (AllFull /\ ChunksAreFull)'
<1> SUFFICES ASSUME FullInv, [Next]_vars
             PROVE  AllFull' /\ ChunksAreFull'
  OBVIOUS
<1> USE DEF FullInv, Typed
<1>0. units \in Nat /\ i \in Nat /\ lo \in Nat /\ Len(chunks) \in Nat
  BY Numbers DEF TypeOK
<1>1. CASE ExplodeNext /\ UNCHANGED packed
  BY <1>1, ExplodeStep DEF AllFull, ChunksAreFull
<1>2. CASE Emit
  <2>1. Adds /\ pc = "pack" /\ pc' = "pack" /\ at' = at /\ config' = config /\ i <= units
    BY <1>2, EmitAdds
  <2>2. IsFull(Current)
    BY <1>0, <1>2, <2>1 DEF Emit, Overflows, IsFull, Current
  <2>3. \A k \in 1..Len(chunks') : IsFull(chunks'[k])
    BY <1>0, <2>1, <2>2 DEF Adds, AllFull
  <2>4. AllFull'
    BY <2>1, <2>3 DEF AllFull, IsFull, JoinLen, units
  <2>5. ChunksAreFull'
    BY <1>0, <2>1, <2>3 DEF Adds, ChunksAreFull, IsFull, JoinLen, units
  <2> QED
    BY <2>4, <2>5
<1>3. CASE Take
  BY <1>3 DEF Take, input, exploded, AllFull, ChunksAreFull, IsFull, JoinLen, units
<1>4. CASE Finish
  <2>1. /\ lo < i => Adds
        /\ ~(lo < i) => chunks' = chunks
        /\ pc = "pack" /\ pc' = "done" /\ at' = at /\ config' = config
    BY <1>4, FinishAdds
  <2>2. \A k \in 1..Len(chunks) : IsFull(chunks[k]) /\ chunks'[k] = chunks[k]
    BY <2>1 DEF AllFull, Adds
  <2>3. \A k \in 1..(Len(chunks') - 1) : k \in 1..Len(chunks)
    BY <1>0, <2>1 DEF Adds
  <2>4. ChunksAreFull'
    BY <2>1, <2>2, <2>3 DEF ChunksAreFull, IsFull, JoinLen, units
  <2> QED
    BY <2>1, <2>4 DEF AllFull
<1>5. CASE UNCHANGED vars
  BY <1>5 DEF vars, input, exploded, packed, AllFull, ChunksAreFull, IsFull, JoinLen, units
<1> QED
  BY <1>1, <1>2, <1>3, <1>4, <1>5 DEF Next

LEMMA FullInvariant == Spec => []FullInv
<1>1. Init => FullInv
  BY InitTyped DEF Init, ExplodeInit, FullInv, AllFull, ChunksAreFull
<1>2. FullInv /\ [Next]_vars => FullInv'
  BY NextTyped, NextFull DEF FullInv
<1> QED
  BY <1>1, <1>2, PTL DEF Spec

(* No chunk but the last could have taken one more unit, for every text    *)
(* and every setting (_pack).                                              *)
THEOREM ChunksAlwaysFull == Spec => []ChunksAreFull
<1>1. FullInv => ChunksAreFull
  BY DEF FullInv
<1> QED
  BY <1>1, FullInvariant, PTL

-----------------------------------------------------------------------------
(* Full overlaps.  Inductive with: what current shares with the last chunk *)
(* is as much as it may be.                                                *)
SharesMost(prev, first) ==
  IF first <= prev.hi
  THEN first > prev.lo /\ JoinLen(first - 1, prev.hi) > config.overlap
  ELSE \/ config.overlap <= 0
       \/ prev.lo = prev.hi
       \/ JoinLen(prev.lo, prev.hi) <= config.overlap

CurrentSharesMost ==
  pc = "pack" /\ Len(chunks) > 0 => SharesMost(chunks[Len(chunks)], lo)

MostInv == Typed /\ CurrentSharesMost /\ OverlapIsFull

LEMMA EmitSharesMost ==
  ASSUME TypeOK, Emit
  PROVE  SharesMost(Current, lo')
<1>0. lo \in Nat /\ i \in Nat /\ lo < i
  BY Numbers, EmitAdds DEF Adds
<1>1. lo' \in lo..i /\ Seeded(lo')
  BY DEF Emit
<1>2. CASE lo' = i /\ (config.overlap <= 0 \/ IsSeed(lo))
  BY <1>0, <1>2 DEF SharesMost, Current, IsSeed
<1>3. CASE lo' \in (lo + 1)..(i - 1) /\ config.overlap > 0 /\ IsSeed(lo')
  BY <1>0, <1>3 DEF SharesMost, Current, IsSeed
<1> QED
  BY <1>1, <1>2, <1>3 DEF Seeded

LEMMA NextMost == MostInv /\ [Next]_vars => (CurrentSharesMost /\ OverlapIsFull)'
<1> SUFFICES ASSUME MostInv, [Next]_vars
             PROVE  CurrentSharesMost' /\ OverlapIsFull'
  OBVIOUS
<1> USE DEF MostInv, Typed
<1>0. units \in Nat /\ i \in Nat /\ lo \in Nat /\ Len(chunks) \in Nat
  BY Numbers DEF TypeOK
<1>a. ASSUME Adds, at' = at, config' = config, pc = "pack"
      PROVE  OverlapIsFull'
  <2> SUFFICES ASSUME NEW k \in 1..(Len(chunks') - 1)
               PROVE  SharesMost(chunks'[k], chunks'[k + 1].lo)
    BY <1>a DEF OverlapIsFull, SharesMost, JoinLen
  <2>1. CASE k < Len(chunks)
    <3>1. k \in 1..(Len(chunks) - 1) /\ chunks'[k + 1] = chunks[k + 1] /\ chunks'[k] = chunks[k]
      BY <1>0, <1>a, <2>1 DEF Adds
    <3> QED
      BY <3>1 DEF OverlapIsFull, SharesMost
  <2>2. CASE ~(k < Len(chunks))
    <3>1. k = Len(chunks) /\ k > 0 /\ chunks'[k] = chunks[k] /\ chunks'[k + 1].lo = lo
      BY <1>0, <1>a, <2>2 DEF Adds, Current
    <3> QED
      BY <1>a, <3>1 DEF CurrentSharesMost
  <2> QED
    BY <2>1, <2>2
<1>1. CASE ExplodeNext /\ UNCHANGED packed
  BY <1>1, ExplodeStep DEF CurrentSharesMost, OverlapIsFull
<1>2. CASE Emit
  <2>1. /\ Adds /\ pc = "pack" /\ pc' = "pack" /\ at' = at /\ config' = config
        /\ chunks'[Len(chunks')] = Current
    BY <1>2, EmitAdds DEF Adds
  <2>2. SharesMost(Current, lo')
    BY <1>2, EmitSharesMost
  <2>3. CurrentSharesMost'
    BY <2>1, <2>2 DEF CurrentSharesMost, SharesMost, JoinLen
  <2> QED
    BY <1>a, <2>1, <2>3
<1>3. CASE Take
  BY <1>3 DEF Take, input, exploded, CurrentSharesMost, OverlapIsFull, SharesMost, JoinLen
<1>4. CASE Finish
  <2>1. /\ lo < i => Adds
        /\ ~(lo < i) => chunks' = chunks
        /\ pc = "pack" /\ pc' = "done" /\ at' = at /\ config' = config
    BY <1>4, FinishAdds
  <2>2. OverlapIsFull'
    BY <1>a, <2>1 DEF OverlapIsFull, JoinLen
  <2> QED
    BY <2>1, <2>2 DEF CurrentSharesMost
<1>5. CASE UNCHANGED vars
  BY <1>5 DEF vars, input, exploded, packed, CurrentSharesMost, OverlapIsFull, SharesMost,
              JoinLen
<1> QED
  BY <1>1, <1>2, <1>3, <1>4, <1>5 DEF Next

LEMMA MostInvariant == Spec => []MostInv
<1>1. Init => MostInv
  BY InitTyped DEF Init, MostInv, CurrentSharesMost, OverlapIsFull
<1>2. MostInv /\ [Next]_vars => MostInv'
  BY NextTyped, NextMost DEF MostInv
<1> QED
  BY <1>1, <1>2, PTL DEF Spec

(* Consecutive chunks share as many units as chunk_overlap has room for,   *)
(* for every text and every setting (_seed_overlap, and the check in _pack *)
(* that drops a seed which is all of the chunk).                           *)
THEOREM OverlapsAreFull == Spec => []OverlapIsFull
<1>1. MostInv => OverlapIsFull
  BY DEF MostInv
<1> QED
  BY <1>1, MostInvariant, PTL

(* Both bounds of the overlap, for every text and every setting            *)
(* (_seed_overlap, and its use in _pack).                                  *)
THEOREM OverlapAlwaysExact == Spec => []OverlapIsExact
<1>1. SharedIsBounded /\ OverlapIsFull => OverlapIsExact
  BY DEF OverlapIsExact
<1> QED
  BY <1>1, SharingIsBounded, OverlapsAreFull, PTL

-----------------------------------------------------------------------------
(* Lengths of ranges of units.                                             *)
LEMMA Positions ==
  ASSUME IsLayout(at)
  PROVE  /\ \A j \in 1..(units + 1) : at[j] \in Nat
         /\ \A j, k \in 1..(units + 1) : j <= k => at[j] <= at[k]
         /\ \A j \in 1..units : at[j] + 2 <= at[j + 1]
<1>1. Len(at) \in Nat /\ units \in Nat /\ units + 1 = Len(at)
  BY DEF IsLayout, units
<1>2. \A j \in 1..Len(at) : at[j] \in Nat
  BY DEF IsLayout
<1>3. \A j, k \in 1..Len(at) : j < k => at[j] + 2 <= at[k]
  BY DEF IsLayout
<1> QED
  BY <1>1, <1>2, <1>3

LEMMA LengthsAreIntegers ==
  ASSUME IsLayout(at), NEW j \in 1..units, NEW m \in 1..units
  PROVE  JoinLen(j, m) \in Int
<1>1. units \in Nat /\ j \in 1..(units + 1) /\ m + 1 \in 1..(units + 1)
  BY DEF IsLayout, units
<1>2. at[j] \in Nat /\ at[m + 1] \in Nat
  BY <1>1, Positions
<1> QED
  BY <1>2 DEF JoinLen

LEMMA Neighbours ==
  ASSUME NEW n \in Nat, NEW x \in 1..n
  PROVE  /\ x < n => x + 1 \in 1..n
         /\ \A y \in 1..n : y < x => x - 1 \in 1..n
  OBVIOUS

LEMMA HalfIsHalf ==
  ASSUME NEW m \in Int, NEW n \in Int, n <= m \div 2
  PROVE  2 * n <= m
  OBVIOUS

(* Two overlaps that meet are no longer than a chunk: what ends before the *)
(* end of the later one fits in a chunk.                                   *)
LEMMA TwoOverlapsFit ==
  ASSUME IsLayout(at),
         NEW size \in Int, NEW overlap \in Int, 2 * overlap <= size,
         NEW first \in 1..units, NEW end \in 1..units, NEW start \in 1..units,
         NEW last \in 1..units, NEW inner \in 1..units,
         start <= end, inner < last,
         JoinLen(first, end) <= overlap, JoinLen(start, last) <= overlap
  PROVE  JoinLen(first, inner + 1) <= size
<1>1. units \in Nat
  BY DEF IsLayout, units
<1>2. /\ first \in 1..(units + 1) /\ start \in 1..(units + 1) /\ end \in 1..(units + 1)
      /\ end + 1 \in 1..(units + 1) /\ last + 1 \in 1..(units + 1)
      /\ inner + 2 \in 1..(units + 1) /\ inner + 2 <= last + 1 /\ (inner + 1) + 1 = inner + 2
  BY <1>1
<1>3. /\ at[first] \in Nat /\ at[start] \in Nat /\ at[end] \in Nat /\ at[end + 1] \in Nat
      /\ at[last + 1] \in Nat /\ at[inner + 2] \in Nat
  BY <1>2, Positions
<1>4. at[start] <= at[end] /\ at[end] + 2 <= at[end + 1] /\ at[inner + 2] <= at[last + 1]
  BY <1>2, Positions
<1>5. at[end + 1] - at[first] - 1 <= overlap /\ at[last + 1] - at[start] - 1 <= overlap
  BY DEF JoinLen
<1>6. at[inner + 2] - at[first] - 1 <= size
  BY <1>3, <1>4, <1>5
<1> QED
  BY <1>2, <1>6 DEF JoinLen

(* What starts later and ends at the same place is not longer.             *)
LEMMA LaterIsShorter ==
  ASSUME IsLayout(at), NEW overlap \in Int,
         NEW first \in 1..units, NEW start \in 1..units, NEW last \in 1..units,
         first < start, JoinLen(first, last) <= overlap
  PROVE  JoinLen(start - 1, last) <= overlap
<1>1. units \in Nat
  BY DEF IsLayout, units
<1>2. /\ first \in 1..(units + 1) /\ start - 1 \in 1..(units + 1) /\ first <= start - 1
      /\ last + 1 \in 1..(units + 1)
  BY <1>1
<1>3. /\ at[first] \in Nat /\ at[start - 1] \in Nat /\ at[last + 1] \in Nat
      /\ at[first] <= at[start - 1]
  BY <1>2, Positions
<1> QED
  BY <1>3 DEF JoinLen

-----------------------------------------------------------------------------
(* No text in more than three chunks.  If a unit were in four, it would be *)
(* in the overlaps of the first and the second and of the third and the    *)
(* fourth.  Either the third chunk goes on after the second: then the two  *)
(* overlaps and what lies between them cover the second chunk and the unit *)
(* that did not fit in it, but two overlaps are never longer than a chunk. *)
(* Or the third is nothing but an overlap: then it shares nothing with the *)
(* fourth.                                                                 *)
LEMMA ThreeAtMost ==
  ASSUME Typed, TextIsCovered, StartsIncrease, SharedIsBounded, ChunksAreFull, OverlapIsFull,
         pc \notin {"new", "refused"} => ~Refused
  PROVE  InThreeChunksAtMost
<1> SUFFICES ASSUME NEW k \in 1..(Len(chunks) - 3),
                    ~(chunks[k].hi < chunks[k + 3].lo)
             PROVE  FALSE
  BY DEF InThreeChunksAtMost
<1> DEFINE a == chunks[k]
           b == chunks[k + 1]
           c == chunks[k + 2]
           d == chunks[k + 3]
           size == config.size
           overlap == config.overlap
<1>1. units \in Nat /\ size \in Int /\ overlap \in Int /\ IsLayout(at)
  BY Numbers DEF Typed, TypeOK
<1>2. chunks \in Seq(Chunk) /\ Len(chunks) \in Nat
  BY DEF Typed, TypeOK
<1>3. /\ k \in Nat /\ k \in 1..Len(chunks) /\ k + 1 \in 1..Len(chunks)
      /\ k + 2 \in 1..Len(chunks) /\ k + 3 \in 1..Len(chunks)
  BY <1>2
<1>4. /\ a.lo \in 1..units /\ b.lo \in 1..units /\ c.lo \in 1..units /\ d.lo \in 1..units
      /\ a.hi \in 1..units /\ b.hi \in 1..units /\ c.hi \in 1..units
  <2>1. a \in Chunk /\ b \in Chunk /\ c \in Chunk /\ d \in Chunk
    BY <1>2, <1>3
  <2> QED
    BY <2>1 DEF Chunk
<1>5. a.lo < b.lo /\ b.lo < c.lo /\ c.lo < d.lo
  BY <1>3 DEF StartsIncrease
<1>6. a.hi <= b.hi /\ b.hi <= c.hi
  <2>1. \A j \in 1..Len(chunks) : j # 1 => chunks[j - 1].hi <= chunks[j].hi
    BY DEF TextIsCovered
  <2> QED
    BY <1>3, <2>1
<1>7. 2 * overlap <= size
  <2>1. chunks # <<>>
    BY <1>3
  <2>2. pc \notin {"new", "refused"}
    BY <2>1 DEF Typed, NothingBefore
  <2>3. ~(overlap > size \div 2) /\ size \div 2 \in Int
    BY <1>1, <2>2 DEF Refused
  <2> QED
    BY <1>1, <2>3, HalfIsHalf
<1>8. \A j \in 1..(Len(chunks) - 1) :
        chunks[j + 1].lo < chunks[j].hi => JoinLen(chunks[j + 1].lo, chunks[j].hi) <= overlap
  BY DEF SharedIsBounded
<1>9. d.lo <= a.hi
  BY <1>4
<1>10. JoinLen(b.lo, a.hi) <= overlap /\ JoinLen(c.lo, b.hi) <= overlap
  <2>1. b.lo < a.hi /\ c.lo < b.hi
    BY <1>4, <1>5, <1>6, <1>9
  <2> QED
    BY <1>3, <1>8, <2>1
<1>11. b.hi < units /\ JoinLen(b.lo, b.hi + 1) > size
  BY <1>3 DEF ChunksAreFull
<1>12. CASE b.hi < c.hi
  <2>1. d.lo < c.hi
    BY <1>4, <1>6, <1>9, <1>12
  <2>2. JoinLen(d.lo, c.hi) <= overlap
    BY <1>3, <1>8, <2>1
  <2>3. JoinLen(b.lo, b.hi + 1) <= size
    BY <1>1, <1>4, <1>7, <1>9, <1>10, <1>12, <2>2, TwoOverlapsFit
  <2>4. b.hi + 1 \in 1..units
    BY <1>1, <1>4, <1>11, Neighbours
  <2>5. JoinLen(b.lo, b.hi + 1) \in Int
    BY <1>1, <1>4, <2>4, LengthsAreIntegers
  <2> QED
    BY <1>1, <1>11, <2>3, <2>5
<1>13. CASE b.hi = c.hi
  <2>1. d.lo <= c.hi
    BY <1>4, <1>6, <1>9
  <2>2. JoinLen(d.lo - 1, c.hi) > overlap
    <3>1. k + 2 \in 1..(Len(chunks) - 1) /\ (k + 2) + 1 = k + 3
      BY <1>2
    <3> QED
      BY <2>1, <3>1 DEF OverlapIsFull
  <2>3. JoinLen(d.lo - 1, c.hi) <= overlap
    BY <1>1, <1>4, <1>5, <1>10, <1>13, LaterIsShorter
  <2>4. d.lo - 1 \in 1..units
    BY <1>1, <1>4, <1>5, Neighbours
  <2>5. JoinLen(d.lo - 1, c.hi) \in Int
    BY <1>1, <1>4, <2>4, LengthsAreIntegers
  <2> QED
    BY <1>1, <2>2, <2>3, <2>5
<1> QED
  BY <1>4, <1>6, <1>12, <1>13

(* For every text and every setting the constructor accepts, the overlap   *)
(* puts no text into more than three chunks (_pack, _seed_overlap, and the *)
(* constructor's limit of half the chunk size).                            *)
THEOREM OverlapNeverMultiplies == Spec => []InThreeChunksAtMost
<1>1. AcceptedInv /\ TextIsCovered /\ StartsIncrease /\ SharedIsBounded /\ ChunksAreFull
        /\ OverlapIsFull => InThreeChunksAtMost
  BY ThreeAtMost DEF AcceptedInv
<1> QED
  BY <1>1, Accepted, TextAlwaysCovered, StartsAlwaysIncrease, SharingIsBounded,
     ChunksAlwaysFull, OverlapsAreFull, PTL

-----------------------------------------------------------------------------
(* Ends.  Inductive with: no chunk ends after what the loop has taken.     *)
EndsInOrder ==
  /\ \A k \in 1..Len(chunks) : chunks[k].lo <= chunks[k].hi /\ chunks[k].hi < i
  /\ \A j, k \in 1..Len(chunks) : j < k => chunks[j].hi <= chunks[k].hi

EndInv == Typed /\ EndsInOrder

LEMMA AddKeepsEnds ==
  ASSUME Typed, EndsInOrder, Adds, i' = i
  PROVE  EndsInOrder'
<1>0. Len(chunks) \in Nat /\ Len(chunks') = Len(chunks) + 1 /\ i \in Nat /\ lo \in Nat /\ lo < i
  BY DEF Adds
<1>1. /\ \A k \in 1..Len(chunks) : chunks'[k] = chunks[k]
      /\ chunks'[Len(chunks')].lo = lo /\ chunks'[Len(chunks')].hi = i - 1
  BY DEF Adds, Current
<1>2. \A k \in 1..Len(chunks) : chunks[k].hi \in Int
  <2>1. \A k \in 1..Len(chunks) : chunks[k] \in Chunk
    BY DEF Adds
  <2>2. \A c \in Chunk : c.hi \in Int
    BY DEF Chunk
  <2> QED
    BY <2>1, <2>2
<1>3. ASSUME NEW k \in 1..Len(chunks')
      PROVE  chunks'[k].lo <= chunks'[k].hi /\ chunks'[k].hi < i
  <2>1. CASE k \in 1..Len(chunks)
    BY <1>1, <2>1 DEF EndsInOrder
  <2>2. CASE k = Len(chunks')
    BY <1>0, <1>1, <2>2
  <2> QED
    BY <1>0, <2>1, <2>2
<1>4. ASSUME NEW j \in 1..Len(chunks'), NEW k \in 1..Len(chunks'), j < k
      PROVE  chunks'[j].hi <= chunks'[k].hi
  <2>1. j \in 1..Len(chunks) /\ (k \in 1..Len(chunks) \/ k = Len(chunks'))
    BY <1>0, <1>4
  <2>2. CASE k \in 1..Len(chunks)
    BY <1>1, <1>4, <2>1, <2>2 DEF EndsInOrder
  <2>3. CASE k = Len(chunks')
    <3>1. chunks[j].hi < i /\ chunks[j].hi \in Int
      BY <1>2, <2>1 DEF EndsInOrder
    <3> QED
      BY <1>0, <1>1, <2>1, <2>3, <3>1
  <2> QED
    BY <2>1, <2>2, <2>3
<1> QED
  BY <1>3, <1>4 DEF EndsInOrder

LEMMA EndInvariant == Spec => []EndInv
<1>1. Init => EndInv
  BY InitTyped DEF Init, EndInv, EndsInOrder
<1>2. EndInv /\ [Next]_vars => EndInv'
  <2> SUFFICES ASSUME EndInv, [Next]_vars PROVE EndsInOrder'
    BY NextTyped DEF EndInv
  <2> USE DEF EndInv
  <2>1. CASE ExplodeNext /\ UNCHANGED packed
    BY <2>1, ExplodeStep DEF EndsInOrder
  <2>2. CASE Emit
    BY <2>2, EmitAdds, AddKeepsEnds DEF Typed
  <2>3. CASE Take
    <3>1. chunks' = chunks /\ i' = i + 1 /\ i \in Nat
      BY <2>3, Numbers DEF Take, Typed
    <3>2. \A k \in 1..Len(chunks) : chunks[k].hi \in Int
      <4>1. chunks \in Seq(Chunk)
        BY DEF Typed, TypeOK
      <4>2. \A c \in Chunk : c.hi \in Int
        BY DEF Chunk
      <4> QED
        BY <4>1, <4>2, ElementOf
    <3> QED
      BY <3>1, <3>2 DEF EndsInOrder
  <2>4. CASE Finish
    <3>1. (lo < i => Adds) /\ (~(lo < i) => chunks' = chunks) /\ i' = i
      BY <2>4, FinishAdds DEF Typed
    <3>2. CASE lo < i
      BY <3>1, <3>2, AddKeepsEnds
    <3>3. CASE ~(lo < i)
      BY <3>1, <3>3 DEF EndsInOrder
    <3> QED
      BY <3>2, <3>3
  <2>5. CASE UNCHANGED vars
    BY <2>5 DEF vars, packed, EndsInOrder
  <2> QED
    BY <2>1, <2>2, <2>3, <2>4, <2>5 DEF Next
<1> QED
  BY <1>1, <1>2, PTL DEF Spec

(* The order of the units and their lengths stay once they are all known.  *)
SqueezedInv == KeptInv /\ Squeezed

LEMMA SqueezedInvariant == Spec => []SqueezedInv
<1>1. Init => SqueezedInv
  BY InitKept DEF Init, ExplodeInit, SqueezedInv, Squeezed
<1>2. SqueezedInv /\ [Next]_vars => SqueezedInv'
  <2> SUFFICES ASSUME SqueezedInv, [Next]_vars PROVE Squeezed'
    BY NextKeptInv DEF SqueezedInv
  <2> USE DEF SqueezedInv, KeptInv
  <2>1. CASE ExplodeNext /\ UNCHANGED packed
    BY <2>1, NextSqueezed DEF Typed
  <2>2. CASE Emit \/ Take \/ Finish
    BY <2>2, PackStep DEF Squeezed
  <2>3. CASE UNCHANGED vars
    BY <2>3 DEF vars, input, exploded, Squeezed
  <2> QED
    BY <2>1, <2>2, <2>3 DEF Next
<1> QED
  BY <1>1, <1>2, PTL DEF Spec

-----------------------------------------------------------------------------
(* What a caller sees.  First the words of a range of units.               *)
LEMMA UnitsAreSpans ==
  ASSUME Typed
  PROVE  /\ units = Len(spans) /\ units \in Nat /\ words \in Nat
         /\ \A u \in 1..units : spans[u].first \in 1..words /\ spans[u].last \in 1..words
<1>1. ExplodeTyped /\ units = Len(spans)
  BY DEF Typed, TypeOK
<1> QED
  BY <1>1, UnitsHavePlaces

LEMMA RangeOfUnits ==
  ASSUME SqueezedInv, NEW j \in 1..units, NEW k \in 1..units, j <= k
  PROVE  /\ spans[j].first \in 1..words /\ spans[k].first \in 1..words
         /\ spans[j].last \in 1..words /\ spans[k].last \in 1..words
         /\ spans[j].first <= spans[k].first
         /\ spans[j].last <= spans[k].last
         /\ spans[j].first <= spans[k].last
         /\ j < k => spans[j].first < spans[k].first /\ spans[j].last < spans[k].first
         /\ JoinLen(j, k) <= text.to[spans[k].last] - text.from[spans[j].first]
<1>0. Typed /\ Kept /\ Squeezed /\ ExplodeTyped
  BY DEF SqueezedInv, KeptInv, Typed
<1>1. /\ units = Len(spans) /\ units \in Nat /\ j \in 1..Len(spans) /\ k \in 1..Len(spans)
      /\ j \in Nat /\ k \in Nat /\ (j = k \/ j < k) /\ words \in Nat
  <2>1. units = Len(spans) /\ units \in Nat /\ words \in Nat
    BY <1>0, UnitsAreSpans
  <2> QED
    BY <2>1
<1>2. /\ spans[j].first \in 1..words /\ spans[k].first \in 1..words
      /\ spans[j].last \in 1..words /\ spans[k].last \in 1..words
      /\ text.from[spans[j].first] \in Nat /\ text.from[spans[k].first] \in Nat
      /\ at[j] \in Nat /\ at[k] \in Nat
  BY <1>0, <1>1, UnitsHavePlaces
<1>3. spans[j].first <= spans[j].last /\ spans[k].first <= spans[k].last
  BY <1>0, <1>1 DEF Squeezed
<1>4. j < k => /\ spans[j].last < spans[k].first
               /\ at[k] - at[j] <= text.from[spans[k].first] - text.from[spans[j].first]
  BY <1>0, <1>1 DEF Squeezed
<1>5. JoinLen(j, k) <= text.to[spans[k].last] - text.from[spans[j].first]
  <2> DEFINE a == at[j]
             b == at[k]
             c == at[k + 1]
             x == text.from[spans[j].first]
             y == text.from[spans[k].first]
             z == text.to[spans[k].last]
  <2>1. a \in Int /\ b \in Int /\ x \in Int /\ y \in Int
    BY <1>2
  <2>2. c \in Int /\ z \in Int
    <3>1. at \in Seq(Nat) /\ k + 1 \in 1..Len(at)
      BY <1>0, <1>1, UnitsHavePlaces DEF ExplodeTyped, IsLayout
    <3>2. z \in Nat
      BY <1>0, <1>2, WordsHavePlaces DEF ExplodeTyped
    <3> QED
      BY <3>1, <3>2, Element
  <2>3. b - a <= y - x
    BY <1>1, <1>4, <2>1
  <2>4. c - b - 1 = z - y
    BY <1>0, <1>1 DEF Kept, Length
  <2>5. c - a - 1 <= z - x
    <3> HIDE DEF a, b, c, x, y, z
    <3> QED
      BY <2>1, <2>2, <2>3, <2>4
  <2> QED
    BY <2>5 DEF JoinLen
<1>6. /\ spans[j].first <= spans[k].first /\ spans[j].last <= spans[k].last
      /\ spans[j].first <= spans[k].last
      /\ j < k => spans[j].first < spans[k].first
  BY <1>1, <1>2, <1>3, <1>4
<1> QED
  BY <1>2, <1>4, <1>5, <1>6

(* Each word is in a unit, and each unit is in a chunk: the first that     *)
(* ends no earlier.                                                        *)
LEMMA UnitOfWord ==
  ASSUME SqueezedInv, pc = "done", NEW x \in 1..words
  PROVE  \E u \in 1..units : x \in spans[u].first..spans[u].last
<1>0. Typed /\ Kept /\ ExplodeTyped
  BY DEF SqueezedInv, KeptInv, Typed
<1>1. /\ units = Len(spans) /\ units \in Nat /\ words \in Nat /\ x \in Nat
      /\ \A u \in 1..units : spans[u].first \in 1..words /\ spans[u].last \in 1..words
  BY <1>0, UnitsAreSpans
<1>2. w = words + 1
  BY <1>0 DEF Kept
<1>3. spans # <<>> /\ units >= 1
  BY <1>0, <1>1, <1>2, UnitsHavePlaces DEF Kept
<1> DEFINE S == {u \in 1..units : x <= spans[u].last}
<1>4. units \in S
  <2>1. spans[units].last = words
    BY <1>0, <1>1, <1>2, <1>3 DEF Kept
  <2> QED
    BY <1>1, <1>3, <2>1
<1>5. PICK u \in S : \A v \in S : u <= v
  <2>1. S \in SUBSET Nat
    BY <1>1
  <2> QED
    BY <1>4, <2>1, LeastNat
<1>6. spans[u].first <= x
  <2>1. spans[u].first = IF u = 1 THEN 1 ELSE spans[u - 1].last + 1
    BY <1>0, <1>1 DEF Kept
  <2>2. CASE u = 1
    BY <1>1, <2>1, <2>2
  <2>3. CASE u # 1
    <3>1. u - 1 \in 1..units /\ u - 1 \notin S
      BY <1>1, <1>5, <2>3
    <3> QED
      BY <1>1, <2>1, <2>3, <3>1
  <2> QED
    BY <2>2, <2>3
<1> QED
  BY <1>1, <1>6

LEMMA ChunkOfUnit ==
  ASSUME Typed, TextIsCovered, pc = "done", NEW u \in 1..units
  PROVE  \E k \in 1..Len(chunks) : chunks[k].lo <= u /\ u <= chunks[k].hi
<1>1. /\ units \in Nat /\ u \in Nat /\ Len(chunks) \in Nat
      /\ \A k \in 1..Len(chunks) : chunks[k].lo \in 1..units /\ chunks[k].hi \in 1..units
  <2>1. chunks \in Seq(Chunk)
    BY DEF Typed, TypeOK
  <2>2. \A c \in Chunk : c.lo \in 1..units /\ c.hi \in 1..units
    BY DEF Chunk
  <2> QED
    BY <2>1, <2>2, ElementOf, Numbers DEF Typed
<1> DEFINE S == {k \in 1..Len(chunks) : u <= chunks[k].hi}
<1>2. Len(chunks) \in S
  <2>1. chunks # <<>> /\ chunks[Len(chunks)].hi = units
    BY <1>1 DEF TextIsCovered
  <2>2. Len(chunks) >= 1
    BY <2>1 DEF Typed, TypeOK
  <2> QED
    BY <1>1, <2>1, <2>2
<1>3. PICK k \in S : \A m \in S : k <= m
  <2>1. S \in SUBSET Nat
    BY <1>1
  <2> QED
    BY <1>2, <2>1, LeastNat
<1>4. chunks[k].lo <= u
  <2>1. k = 1 => chunks[k].lo = 1
    BY DEF TextIsCovered
  <2>2. k # 1 => chunks[k].lo <= chunks[k - 1].hi + 1
    BY DEF TextIsCovered
  <2>3. CASE k = 1
    BY <1>1, <2>1, <2>3
  <2>4. CASE k # 1
    <3>1. k - 1 \in 1..Len(chunks) /\ k - 1 \notin S
      BY <1>1, <1>3, <2>4
    <3> QED
      BY <1>1, <2>2, <2>4, <3>1
  <2> QED
    BY <2>3, <2>4
<1> QED
  BY <1>4

(* The chunks as the caller gets them are as the caller was promised.      *)
CallerInv ==
  SqueezedInv /\ EndInv /\ TextIsCovered /\ StartsIncrease /\ ChunksFit /\ InThreeChunksAtMost

LEMMA CallerInvariant == Spec => []CallerInv
<1>1. SqueezedInv /\ EndInv /\ TextIsCovered /\ StartsIncrease /\ ChunksFit
        /\ InThreeChunksAtMost => CallerInv
  BY DEF CallerInv
<1> QED
  BY <1>1, SqueezedInvariant, EndInvariant, TextAlwaysCovered, StartsAlwaysIncrease,
     ChunksAlwaysFit, OverlapNeverMultiplies, PTL

Promise ==
  /\ Result \in Seq(Caller!PartOf)
  /\ \A k \in 1..Len(Result) : Caller!Part(Result[k])
  /\ Caller!InOrder(Result) /\ Caller!NothingLost(Result) /\ Caller!LittleRepeated(Result)

LEMMA ResultKeepsPromise ==
  ASSUME CallerInv, pc = "done"
  PROVE  Promise
<1> DEFINE n == Len(chunks)
<1>0. Typed /\ TypeOK /\ SqueezedInv /\ EndsInOrder
  BY DEF CallerInv, SqueezedInv, KeptInv, EndInv, Typed
<1>1. /\ n \in Nat /\ units \in Nat /\ words \in Nat
      /\ \A k \in 1..n : chunks[k].lo \in 1..units /\ chunks[k].hi \in 1..units
  <2>1. chunks \in Seq(Chunk)
    BY <1>0 DEF TypeOK
  <2>2. \A c \in Chunk : c.lo \in 1..units /\ c.hi \in 1..units
    BY DEF Chunk
  <2> QED
    BY <1>0, <2>1, <2>2, ElementOf, UnitsAreSpans
<1>2. /\ Result = [k \in 1..n |-> PartFrom(chunks[k])]
      /\ Len(Result) = n
      /\ Caller!allWords = 1..words
  BY <1>1 DEF Result, Caller!allWords, words
<1>3. \A k \in 1..n : /\ Result[k].first = spans[chunks[k].lo].first
                      /\ Result[k].last = spans[chunks[k].hi].last
                      /\ Result[k].length = JoinLen(chunks[k].lo, chunks[k].hi)
                      /\ Result[k] = PartFrom(chunks[k])
  BY <1>2 DEF PartFrom
<1>4. ASSUME NEW k \in 1..n
      PROVE  Result[k] \in Caller!PartOf /\ Caller!Part(Result[k])
  <2> DEFINE c == chunks[k]
  <2>1. c.lo \in 1..units /\ c.hi \in 1..units /\ c.lo <= c.hi
    BY <1>0, <1>1 DEF EndsInOrder
  <2>2. /\ spans[c.lo].first \in 1..words /\ spans[c.hi].last \in 1..words
        /\ spans[c.lo].first <= spans[c.hi].last
        /\ JoinLen(c.lo, c.hi) <= text.to[spans[c.hi].last] - text.from[spans[c.lo].first]
    BY <1>0, <2>1, RangeOfUnits
  <2>3. JoinLen(c.lo, c.hi) \in Int
    BY <1>0, <2>1, Numbers
  <2>4. Result[k] \in Caller!PartOf
    BY <1>2, <1>3, <2>2, <2>3 DEF Caller!PartOf, PartFrom
  <2>5. JoinLen(c.lo, c.hi) <= config.size \/ spans[c.lo].first = spans[c.hi].last
    BY DEF CallerInv, ChunksFit
  <2> QED
    BY <1>3, <2>2, <2>4, <2>5 DEF Caller!Part
<1>5. Result \in Seq(Caller!PartOf)
  BY <1>1, <1>2, <1>4
<1>6. Caller!InOrder(Result)
  <2> SUFFICES ASSUME NEW j \in 1..n, NEW k \in 1..n, j < k
               PROVE  Result[j].first < Result[k].first /\ Result[j].last <= Result[k].last
    BY <1>2 DEF Caller!InOrder
  <2>1. chunks[j].lo < chunks[k].lo /\ chunks[j].hi <= chunks[k].hi
    BY <1>0 DEF CallerInv, StartsIncrease, EndsInOrder
  <2>2. /\ chunks[j].lo \in 1..units /\ chunks[k].lo \in 1..units
        /\ chunks[j].hi \in 1..units /\ chunks[k].hi \in 1..units
    BY <1>1
  <2>3. chunks[j].lo <= chunks[k].lo
    BY <2>1, <2>2
  <2>4. spans[chunks[j].lo].first < spans[chunks[k].lo].first
    BY <1>0, <2>1, <2>2, <2>3, RangeOfUnits
  <2>5. spans[chunks[j].hi].last <= spans[chunks[k].hi].last
    BY <1>0, <2>1, <2>2, RangeOfUnits
  <2> QED
    BY <1>3, <2>4, <2>5
<1>7. Caller!NothingLost(Result)
  <2> SUFFICES ASSUME NEW x \in 1..words
               PROVE  \E k \in 1..n : x \in Result[k].first..Result[k].last
    BY <1>2 DEF Caller!NothingLost
  <2>1. PICK u \in 1..units : x \in spans[u].first..spans[u].last
    BY <1>0, UnitOfWord
  <2>2. PICK k \in 1..n : chunks[k].lo <= u /\ u <= chunks[k].hi
    BY <1>0, ChunkOfUnit DEF CallerInv
  <2>3. chunks[k].lo \in 1..units /\ chunks[k].hi \in 1..units
    BY <1>1
  <2>4. /\ spans[chunks[k].lo].first \in 1..words /\ spans[u].first \in 1..words
        /\ spans[chunks[k].lo].first <= spans[u].first
    BY <1>0, <2>2, <2>3, RangeOfUnits
  <2>5. /\ spans[chunks[k].hi].last \in 1..words /\ spans[u].last \in 1..words
        /\ spans[u].last <= spans[chunks[k].hi].last
    BY <1>0, <2>2, <2>3, RangeOfUnits
  <2>6. x \in spans[chunks[k].lo].first..spans[chunks[k].hi].last
    <3> DEFINE a == spans[u].first
               b == spans[u].last
               c == spans[chunks[k].lo].first
               d == spans[chunks[k].hi].last
    <3>1. a \in Int /\ b \in Int /\ c \in Int /\ d \in Int /\ c <= a /\ b <= d /\ x \in a..b
      BY <1>1, <2>1, <2>4, <2>5
    <3>2. x \in c..d
      <4> HIDE DEF a, b, c, d
      <4> QED
        BY <3>1
    <3> QED
      BY <3>2
  <2> QED
    BY <1>3, <2>6
<1>8. Caller!LittleRepeated(Result)
  <2> SUFFICES ASSUME NEW k \in 1..(n - 3)
               PROVE  Result[k].last < Result[k + 3].first
    BY <1>2 DEF Caller!LittleRepeated
  <2>1. k \in 1..n /\ k + 3 \in 1..n
    BY <1>1
  <2>2. chunks[k].hi \in 1..units /\ chunks[k + 3].lo \in 1..units
    BY <1>1, <2>1
  <2>3. chunks[k].hi < chunks[k + 3].lo
    BY DEF CallerInv, InThreeChunksAtMost
  <2>4. chunks[k].hi <= chunks[k + 3].lo
    BY <2>2, <2>3
  <2>5. spans[chunks[k].hi].last < spans[chunks[k + 3].lo].first
    BY <1>0, <2>2, <2>3, <2>4, RangeOfUnits
  <2> QED
    BY <1>3, <2>1, <2>5
<1> QED
  BY <1>2, <1>4, <1>5, <1>6, <1>7, <1>8 DEF Promise

PromiseInv == AcceptedInv /\ (pc = "done" => Promise)

LEMMA PromiseInvariant == Spec => []PromiseInv
<1>1. AcceptedInv /\ CallerInv => PromiseInv
  BY ResultKeepsPromise DEF PromiseInv
<1> QED
  BY <1>1, Accepted, CallerInvariant, PTL

(* The constructor's choice is one of those the caller was told of.        *)
LEMMA RefusalIsDue ==
  ASSUME config \in [size: Int, overlap: Int]
  PROVE  /\ Refused => ~Caller!Guaranteed
         /\ ~Refused => Caller!Permitted
<1>1. config.size \in Int /\ config.overlap \in Int /\ config.size \div 2 \in Int
  OBVIOUS
<1> QED
  BY <1>1 DEF Refused, Caller!Guaranteed, Caller!Permitted

(* Every step is the call's return or refusal, or nothing a caller sees.   *)
LEMMA StepsAreSeen ==
  ASSUME PromiseInv, PromiseInv', Next
  PROVE  \/ Caller!Refuse \/ Caller!Return
         \/ UNCHANGED <<text, config, Status, Result>>
<1>0. config \in [size: Int, overlap: Int]
  BY DEF PromiseInv, AcceptedInv, Typed, TypeOK
<1>1. CASE Construct
  <2>1. /\ text' = text /\ config' = config /\ pc = "new"
        /\ Status = "working" /\ Result = <<>> /\ Result' = <<>>
        /\ Refused => Status' = "refused"
        /\ ~Refused => Status' = "working"
    BY <1>1 DEF Construct, input, Status, Result
  <2>2. CASE Refused
    BY <1>0, <2>1, <2>2, RefusalIsDue DEF Caller!Refuse
  <2>3. CASE ~Refused
    BY <2>1, <2>3
  <2> QED
    BY <2>2, <2>3
<1>2. CASE Finish
  <2>1. /\ text' = text /\ config' = config /\ pc = "pack" /\ pc' = "done"
        /\ Status = "working" /\ Status' = "done"
    BY <1>2 DEF Finish, input, Status
  <2>2. ~Refused
    BY <2>1 DEF PromiseInv, AcceptedInv
  <2>3. Caller!Permitted
    BY <1>0, <2>2, RefusalIsDue
  <2>4. Promise'
    BY <2>1 DEF PromiseInv
  <2> QED
    BY <2>1, <2>3, <2>4
    DEF Promise, Caller!Return, Caller!PartOf, Caller!Part, Caller!InOrder, Caller!NothingLost,
        Caller!LittleRepeated, Caller!allWords
<1>3. CASE \/ TakeParagraph \/ SplitParagraph \/ TakeSentence \/ SplitSentence \/ TakeWord
           \/ Exploded
  <2>1. /\ text' = text /\ config' = config
        /\ pc \notin {"refused", "done"} /\ pc' \notin {"refused", "done"}
    BY <1>3 DEF TakeParagraph, SplitParagraph, TakeSentence, SplitSentence, TakeWord, Exploded,
                Unit, After, input
  <2> QED
    BY <2>1 DEF Status, Result
<1>4. CASE Emit \/ Take
  <2>1. text' = text /\ config' = config /\ pc = "pack" /\ pc' = "pack"
    BY <1>4 DEF Emit, Take, input
  <2> QED
    BY <2>1 DEF Status, Result
<1> QED
  BY <1>1, <1>2, <1>3, <1>4 DEF Next, ExplodeNext

(* What chunk returns, as words of the text, keeps the caller's promise:   *)
(* _explode and _pack together implement Chunking for every text and every *)
(* setting.                                                                *)
THEOREM ChunkerImplementsChunking == Spec => ImplementsChunking
<1>1. Init => Caller!ChunkingInit
  <2> SUFFICES ASSUME Init PROVE Caller!ChunkingInit
    OBVIOUS
  <2>1. Typed /\ pc = "new"
    BY InitTyped DEF Init, ExplodeInit
  <2>2. text.from \in Seq(Nat) /\ text.to \in Seq(Nat) /\ config \in [size: Int, overlap: Int]
    BY <2>1 DEF Typed, TypeOK, IsText
  <2> QED
    BY <2>1, <2>2 DEF Caller!ChunkingInit, Status, Result
<1>2. PromiseInv /\ PromiseInv' /\ [Next]_vars
        => [Caller!Refuse \/ Caller!Return]_<<text, config, Status, Result>>
  <2>1. ASSUME UNCHANGED vars PROVE UNCHANGED <<text, config, Status, Result>>
    BY <2>1 DEF vars, input, exploded, packed, Status, Result, PartFrom, JoinLen
  <2> QED
    BY <2>1, StepsAreSeen
<1> QED
  BY <1>1, <1>2, PromiseInvariant, PTL
  DEF Spec, ImplementsChunking, Caller!ChunkingSpec

=============================================================================
